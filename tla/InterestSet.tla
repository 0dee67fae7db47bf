---------------------------- MODULE InterestSet ----------------------------
(***************************************************************************)
(* What an event module promises the code that registers events with it:   *)
(* a set of watched (descriptor, direction) pairs.  Watching and           *)
(* unwatching one pair changes that pair and no other, only an open        *)
(* descriptor is watched, and a descriptor is closed only when nothing     *)
(* about it is watched.  How the pairs are laid out in the pollfd array,   *)
(* which pairs share a slot and which slots move when one is deleted is    *)
(* the business of PollSet, which implements this specification.           *)
(***************************************************************************)

CONSTANTS Fd,        \* the descriptors a connection can have
          Dir        \* the directions of interest

VARIABLES opened,    \* the descriptors of the open connections
          interest   \* the pairs the kernel is asked to watch

vars == <<opened, interest>>

Init == opened = {} /\ interest = {}

Open(f) ==
  /\ f \notin opened
  /\ opened' = opened \cup {f}
  /\ UNCHANGED interest

Close(f) ==
  /\ f \in opened
  /\ \A d \in Dir : <<f, d>> \notin interest
  /\ opened' = opened \ {f}
  /\ UNCHANGED interest

Watch(f, d) ==
  /\ f \in opened
  /\ interest' = interest \cup {<<f, d>>}
  /\ UNCHANGED opened

Unwatch(f, d) ==
  /\ f \in opened
  /\ interest' = interest \ {<<f, d>>}
  /\ UNCHANGED opened

Next ==
  \E f \in Fd :
    \/ Open(f)
    \/ Close(f)
    \/ \E d \in Dir : Watch(f, d) \/ Unwatch(f, d)

Spec == Init /\ [][Next]_vars
=============================================================================
