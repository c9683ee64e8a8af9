----------------------------- MODULE RtMailbox -----------------------------
(***************************************************************************)
(* A mailbox of ipc.c as a value: the ring buffer behind rt_mb_send and    *)
(* rt_mb_recv.  The firmware never waits on a mailbox (rt_mb_send is       *)
(* rt_mb_send_wait with a time-out of 0, and it receives with              *)
(* RT_WAITING_NO), so nobody is ever on the two suspend lists and they are *)
(* left out.                                                               *)
(***************************************************************************)
EXTENDS Integers, Sequences

CONSTANT MbSize   \* mb->size: 128 / 4 = 32 in the firmware

ASSUME MbAssumption == MbSize \in Nat \ {0}

Slot == 0 .. MbSize - 1

\* rt_mb_init; what the pool holds at first is never read.
MbInit(v) == [pool |-> [i \in Slot |-> v], in_offset |-> 0, out_offset |-> 0, entry |-> 0]

NextSlot(i) == IF i + 1 >= MbSize THEN 0 ELSE i + 1

MbFull(mb) == mb.entry = MbSize
MbEmpty(mb) == mb.entry = 0

\* rt_mb_send: a full mailbox refuses (-RT_EFULL).
MbSend(mb, v) ==
  IF MbFull(mb) THEN mb
  ELSE [mb EXCEPT !.pool[mb.in_offset] = v, !.in_offset = NextSlot(@), !.entry = @ + 1]

\* Mutant: the end of the pool is passed.
MbRecv_NoWrap(mb) ==
  IF MbEmpty(mb) THEN mb
  ELSE [mb EXCEPT !.out_offset = IF @ < MbSize - 1 THEN @ + 1 ELSE @, !.entry = @ - 1]

\* rt_mb_recv that does not wait: the value, and the mailbox without it.
MbFirst(mb) == mb.pool[mb.out_offset]
MbRecv(mb) ==
  IF MbEmpty(mb) THEN mb
  ELSE [mb EXCEPT !.out_offset = NextSlot(@), !.entry = @ - 1]

-----------------------------------------------------------------------------
MbType(V) ==
  [pool : [Slot -> V], in_offset : Slot, out_offset : Slot, entry : 0 .. MbSize]

SlotAfter(i, n) == IF i + n >= MbSize THEN i + n - MbSize ELSE i + n

\* The two offsets are as far apart as there are entries.
MbConsistent(mb) == mb.in_offset = SlotAfter(mb.out_offset, mb.entry)

\* The values in the mailbox, oldest first.
MbContents(mb) == [i \in 1 .. mb.entry |-> mb.pool[SlotAfter(mb.out_offset, i - 1)]]
=============================================================================
