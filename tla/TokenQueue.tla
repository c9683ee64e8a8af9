----------------------------- MODULE TokenQueue -----------------------------
(***************************************************************************)
(* What a counting semaphore promises, without lists, timers or errors.    *)
(* Tokens are put, at most MaxTokens of them are kept, and whoever asks    *)
(* when there is none waits.  A token is kept only when nobody waits; a    *)
(* token put while somebody does goes to one waiter, the one that nobody   *)
(* precedes: of the waiters of the best rank the one that came first.      *)
(* Whoever waits is granted a token or gives up, never both.               *)
(***************************************************************************)
EXTENDS Integers

CONSTANTS Askers,      \* who may ask for a token
          Rank,        \* of an asker: the smaller, the better
          MaxTokens    \* the tokens that are kept at most

VARIABLES tokens,      \* kept
          waiters,     \* who waits
          ahead,       \* pairs: the first is served before the second
          granted,     \* who has been handed a token and has not yet left with it
          refused      \* who has given up and has not yet left

queueVars == <<tokens, waiters, ahead, granted, refused>>

Init == tokens \in 0 .. MaxTokens /\ waiters = {} /\ ahead = {} /\ granted = {} /\ refused = {}

Away == Askers \ (waiters \cup granted \cup refused)

\* A token at once.
Take ==
  /\ tokens > 0 /\ tokens' = tokens - 1
  /\ UNCHANGED <<waiters, ahead, granted, refused>>

Join(t) ==
  /\ tokens = 0 /\ t \in Away
  /\ waiters' = waiters \cup {t}
  /\ ahead' = ahead \cup {<<w, t>> : w \in {w \in waiters : Rank[w] <= Rank[t]}}
                    \cup {<<t, w>> : w \in {w \in waiters : Rank[w] > Rank[t]}}
  /\ UNCHANGED <<tokens, granted, refused>>

Without(t) == {p \in ahead : p[1] # t /\ p[2] # t}

Keep ==
  /\ waiters = {} /\ tokens < MaxTokens
  /\ tokens' = tokens + 1
  /\ UNCHANGED <<waiters, ahead, granted, refused>>

HandTo(t) ==
  /\ t \in waiters /\ \A w \in waiters : <<w, t>> \notin ahead
  /\ waiters' = waiters \ {t} /\ ahead' = Without(t)
  /\ granted' = granted \cup {t}
  /\ UNCHANGED <<tokens, refused>>

GiveUp(t) ==
  /\ t \in waiters
  /\ waiters' = waiters \ {t} /\ ahead' = Without(t)
  /\ refused' = refused \cup {t}
  /\ UNCHANGED <<tokens, granted>>

Leave(t) ==
  /\ t \in granted \cup refused
  /\ granted' = granted \ {t} /\ refused' = refused \ {t}
  /\ UNCHANGED <<tokens, waiters, ahead>>

Next ==
  \/ Take \/ Keep
  \/ \E t \in Askers : Join(t) \/ HandTo(t) \/ GiveUp(t) \/ Leave(t)

Spec == Init /\ [][Next]_queueVars
=============================================================================
