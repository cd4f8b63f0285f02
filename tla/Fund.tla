-------------------------------- MODULE Fund --------------------------------
(***************************************************************************)
(* What the treasurer is promised: the fund as she sees it.  Money lies in *)
(* locations and is meant for purposes, two views of one total; an         *)
(* envelope that is closed is empty; a location that is retired can be     *)
(* trusted to stay as it is, except for mistakes undone.                   *)
(***************************************************************************)
EXTENDS Integers, FiniteSetsExt

CONSTANTS Account, Purpose, Main, Incidental

VARIABLES
  total,     \* all the money there is
  held,      \* the money at each location
  tagged,    \* the money meant for each purpose
  place,     \* each location: "absent", "active" or "retired"
  door,      \* each envelope: "absent", "open" or "closed"
  counted    \* how often the money was counted

vars == <<total, held, tagged, place, door, counted>>

Init ==
  /\ total = 0
  /\ held = [a \in Account |-> 0]
  /\ tagged = [p \in Purpose |-> 0]
  /\ place = [a \in Account |-> "absent"]
  /\ door = [e \in Incidental |-> "absent"]
  /\ counted = 0

Open(p) == p \in Incidental => door[p] = "open"

Sum(f) == MapThenSumSet(LAMBDA x : f[x], DOMAIN f)

\* Where the money lies and what it is meant for are two views of the same money.
TwoViews == Sum(held) = total /\ Sum(tagged) = total

\* New locations come with money for the main purpose.
Begin(born) ==
  /\ born # {} /\ \A a \in born : place[a] = "absent" /\ held[a] = 0
  /\ place' = [a \in Account |-> IF a \in born THEN "active" ELSE place[a]]
  /\ \A a \in Account : IF a \in born THEN held'[a] >= 0 ELSE held'[a] = held[a]
  /\ tagged' = [tagged EXCEPT ![Main] = @ + total' - total]
  /\ TwoViews'
  /\ UNCHANGED <<door, counted>>

\* Money comes in or goes out: at one location, for one purpose that is open.
Enter(a, p) ==
  /\ UNCHANGED <<place, door, counted>>
  /\ Open(p)
  /\ place[a] # "absent"
  /\ held' = [held EXCEPT ![a] = @ + total' - total]
  /\ tagged' = [tagged EXCEPT ![p] = @ + total' - total]

\* Money changes location; what it is meant for does not.
Carry(from, to) ==
  LET amount == held'[to] - held[to]
  IN  /\ from # to /\ amount > 0
      /\ place[from] = "active" /\ place[to] = "active"
      /\ held' = [held EXCEPT ![from] = @ - amount, ![to] = @ + amount]
      /\ UNCHANGED <<total, tagged, place, door, counted>>

\* Money changes purpose, between open ones; where it lies does not.
Retag(from, to) ==
  LET amount == tagged'[to] - tagged[to]
  IN  /\ from # to /\ amount > 0
      /\ Open(from) /\ Open(to)
      /\ tagged' = [tagged EXCEPT ![from] = @ - amount, ![to] = @ + amount]
      /\ UNCHANGED <<total, held, place, door, counted>>

\* An envelope closes empty: the main purpose takes what is left or covers what
\* is missing.
Close(e) ==
  /\ door[e] = "open"
  /\ tagged' = [tagged EXCEPT ![e] = 0, ![Main] = @ + tagged[e]]
  /\ door' = [door EXCEPT ![e] = "closed"]
  /\ UNCHANGED <<total, held, place, counted>>

Unlock(e) ==
  /\ door[e] # "open"
  /\ door' = [door EXCEPT ![e] = "open"]
  /\ UNCHANGED <<total, held, tagged, place, counted>>

\* A count squares active locations with what was found there, on purposes that
\* are open; nothing else moves several balances at a time.
Square ==
  /\ counted' = counted + 1
  /\ UNCHANGED <<place, door>>
  /\ \A a \in Account : held'[a] # held[a] => place[a] = "active"
  /\ \A p \in Purpose : tagged'[p] # tagged[p] => Open(p)
  /\ TwoViews'

\* A location is retired or deleted only when there is nothing there.
Leave(a) ==
  /\ place[a] # "absent" /\ held[a] = 0
  /\ \E state \in {"retired", "absent"} : place' = [place EXCEPT ![a] = state]
  /\ UNCHANGED <<total, held, tagged, door, counted>>

Return(a) ==
  /\ place[a] = "retired"
  /\ place' = [place EXCEPT ![a] = "active"]
  /\ UNCHANGED <<total, held, tagged, door, counted>>

Next ==
  \/ \E born \in SUBSET Account : Begin(born)
  \/ \E a \in Account, p \in Purpose : Enter(a, p)
  \/ \E from, to \in Account : Carry(from, to)
  \/ \E from, to \in Purpose : Retag(from, to)
  \/ \E e \in Incidental : Close(e) \/ Unlock(e)
  \/ Square
  \/ \E a \in Account : Leave(a) \/ Return(a)

Spec == Init /\ [][Next]_vars
=============================================================================
