---------------------------- MODULE ScriptsProofs ----------------------------
(***************************************************************************)
(* What holds of Scripts for any number of slots, of scripts at a time and *)
(* of runs: the list of slots survives being changed while it is walked.   *)
(***************************************************************************)
EXTENDS Scripts, SequenceTheorems, TLAPS

-----------------------------------------------------------------------------
(* A list without one of its members, and with one more. *)

LEMMA RemovedFromList ==
    ASSUME NEW S, NEW s \in Seq(S), NEW i \in 1..Len(s)
    PROVE  /\ RemoveAt(s, i) \in Seq(S) /\ Len(RemoveAt(s, i)) = Len(s) - 1
           /\ \A j \in 1..Len(s) - 1 : RemoveAt(s, i)[j] = s[IF j < i THEN j ELSE j + 1]
<1> DEFINE a == SubSeq(s, 1, i - 1)
           b == SubSeq(s, i + 1, Len(s))
<1>1. a \in Seq(S) /\ Len(a) = i - 1 /\ \A j \in 1..i - 1 : a[j] = s[j]
  OBVIOUS
<1>2. b \in Seq(S) /\ Len(b) = Len(s) - i /\ \A j \in 1..Len(s) - i : b[j] = s[i + j]
  OBVIOUS
<1> HIDE DEF a, b
<1>3. a \o b \in Seq(S) /\ Len(a \o b) = Len(s) - 1
  <2>1. a \o b \in Seq(S) /\ Len(a \o b) = Len(a) + Len(b)
    BY <1>1, <1>2, ConcatProperties
  <2>2. (i - 1) + (Len(s) - i) = Len(s) - 1
    OBVIOUS
  <2> QED BY <1>1, <1>2, <2>1, <2>2
<1>4. ASSUME NEW j \in 1..Len(s) - 1
      PROVE  (a \o b)[j] = s[IF j < i THEN j ELSE j + 1]
  <2>1. CASE j < i
    BY <1>1, <1>2, <2>1
  <2>2. CASE ~(j < i)
    <3>1. (a \o b)[j] = b[j - (i - 1)] /\ j - (i - 1) \in 1..Len(s) - i
      BY <1>1, <1>2, <2>2
    <3>2. b[j - (i - 1)] = s[i + (j - (i - 1))] /\ i + (j - (i - 1)) = j + 1
      BY <1>2, <3>1
    <3> QED BY <2>2, <3>1, <3>2
  <2> QED BY <2>1, <2>2
<1> QED BY <1>3, <1>4 DEF RemoveAt, a, b

LEMMA InsertedInList ==
    ASSUME NEW S, NEW s \in Seq(S), NEW i \in 1..Len(s) + 1, NEW e \in S
    PROVE  /\ InsertAt(s, i, e) \in Seq(S) /\ Len(InsertAt(s, i, e)) = Len(s) + 1
           /\ \A j \in 1..Len(s) + 1 :
                InsertAt(s, i, e)[j] = IF j < i THEN s[j] ELSE IF j = i THEN e ELSE s[j - 1]
<1> DEFINE a == SubSeq(s, 1, i - 1)
           b == SubSeq(s, i, Len(s))
<1>1. a \in Seq(S) /\ Len(a) = i - 1 /\ \A j \in 1..i - 1 : a[j] = s[j]
  OBVIOUS
<1>2. b \in Seq(S) /\ Len(b) = Len(s) - i + 1 /\ \A j \in 1..Len(s) - i + 1 : b[j] = s[i + j - 1]
  OBVIOUS
<1> HIDE DEF a, b
<1>3. a \o <<e>> \in Seq(S) /\ Len(a \o <<e>>) = i /\ \A j \in 1..i : (a \o <<e>>)[j] = IF j < i THEN a[j] ELSE e
  BY <1>1
<1>4. /\ (a \o <<e>>) \o b \in Seq(S) /\ Len((a \o <<e>>) \o b) = Len(s) + 1
      /\ \A j \in 1..Len(s) + 1 : ((a \o <<e>>) \o b)[j] = IF j <= i THEN (a \o <<e>>)[j] ELSE b[j - i]
  BY <1>2, <1>3
<1>5. \A j \in 1..Len(s) + 1 : ((a \o <<e>>) \o b)[j] = IF j < i THEN s[j] ELSE IF j = i THEN e ELSE s[j - 1]
  BY <1>1, <1>2, <1>3, <1>4
<1> QED BY <1>4, <1>5 DEF InsertAt, a, b

-----------------------------------------------------------------------------
(* Lists of scripts. *)

Bounded(r) == r.iterations_max # NoBound => r.iterations < r.iterations_max

Absent(s, rs) == \A i \in 1..Len(rs) : rs[i].slot # s

\* One script a slot, and none that was given all its runs.
Good(rs) ==
    /\ rs \in Seq(Running)
    /\ \A i, j \in 1..Len(rs) : rs[i].slot = rs[j].slot => i = j
    /\ \A i \in 1..Len(rs) : Bounded(rs[i])

LEMMA RemovedIsGood ==
    ASSUME NEW rs, Good(rs), NEW i \in 1..Len(rs)
    PROVE  /\ Good(RemoveAt(rs, i)) /\ Len(RemoveAt(rs, i)) = Len(rs) - 1
           /\ Absent(rs[i].slot, RemoveAt(rs, i))
           /\ \A s : Absent(s, rs) => Absent(s, RemoveAt(rs, i))
<1> DEFINE t == RemoveAt(rs, i)
<1>1. rs \in Seq(Running) /\ Len(rs) \in Nat
  BY DEF Good
<1>2. /\ t \in Seq(Running) /\ Len(t) = Len(rs) - 1
      /\ \A j \in 1..Len(rs) - 1 : t[j] = rs[IF j < i THEN j ELSE j + 1]
  BY <1>1, RemovedFromList
<1> HIDE DEF t
<1> DEFINE from(j) == IF j < i THEN j ELSE j + 1
<1>3. \A j \in 1..Len(t) : t[j] = rs[from(j)] /\ from(j) \in 1..Len(rs) /\ from(j) # i
  BY <1>1, <1>2
<1>4. \A j, k \in 1..Len(t) : from(j) = from(k) => j = k
  BY <1>1, <1>2
<1> HIDE DEF from
<1>5. \A j, k \in 1..Len(t) : t[j].slot = t[k].slot => j = k
  BY <1>3, <1>4 DEF Good
<1>6. \A j \in 1..Len(t) : Bounded(t[j]) /\ t[j].slot # rs[i].slot
  BY <1>3 DEF Good
<1>7. \A s : Absent(s, rs) => Absent(s, t)
  BY <1>3 DEF Absent
<1> QED BY <1>2, <1>5, <1>6, <1>7 DEF Good, Absent, t

LEMMA InsertedIsGood ==
    ASSUME NEW rs, Good(rs), NEW i \in 1..Len(rs) + 1, NEW r \in Running, Bounded(r),
           Absent(r.slot, rs)
    PROVE  Good(InsertAt(rs, i, r)) /\ Len(InsertAt(rs, i, r)) = Len(rs) + 1
<1> DEFINE t == InsertAt(rs, i, r)
<1>1. rs \in Seq(Running) /\ Len(rs) \in Nat
  BY DEF Good
<1>2. /\ t \in Seq(Running) /\ Len(t) = Len(rs) + 1
      /\ \A j \in 1..Len(rs) + 1 : t[j] = IF j < i THEN rs[j] ELSE IF j = i THEN r ELSE rs[j - 1]
  BY <1>1, InsertedInList, SMTT(60)
<1> HIDE DEF t
<1> DEFINE from(j) == IF j < i THEN j ELSE j - 1
<1>3. \A j \in 1..Len(t) : \/ j = i /\ t[j] = r
                           \/ j # i /\ t[j] = rs[from(j)] /\ from(j) \in 1..Len(rs)
  BY <1>1, <1>2
<1>4. \A j, k \in 1..Len(t) \ {i} : from(j) = from(k) => j = k
  BY <1>1, <1>2
<1> HIDE DEF from
<1>5. \A j, k \in 1..Len(t) : t[j].slot = t[k].slot => j = k
  BY <1>3, <1>4 DEF Good, Absent
<1>6. \A j \in 1..Len(t) : Bounded(t[j])
  BY <1>3 DEF Good
<1> QED BY <1>2, <1>5, <1>6 DEF Good, t

LEMMA AppendedIsGood ==
    ASSUME NEW rs, Good(rs), NEW r \in Running, Bounded(r), Absent(r.slot, rs)
    PROVE  Good(Append(rs, r)) /\ Len(Append(rs, r)) = Len(rs) + 1
<1>1. rs \in Seq(Running) /\ Len(rs) \in Nat
  BY DEF Good
<1>2. /\ Append(rs, r) \in Seq(Running) /\ Len(Append(rs, r)) = Len(rs) + 1
      /\ \A j \in 1..Len(rs) : Append(rs, r)[j] = rs[j]
      /\ Append(rs, r)[Len(rs) + 1] = r
  BY <1>1
<1>3. \A j \in 1..Len(Append(rs, r)) : j \in 1..Len(rs) \/ j = Len(rs) + 1
  BY <1>1, <1>2
<1> QED BY <1>2, <1>3 DEF Good, Absent

\* A change of a script that leaves its slot and its runs alone.
LEMMA ChangedIsGood ==
    ASSUME NEW rs, Good(rs), NEW i \in 1..Len(rs), NEW r \in Running,
           r.slot = rs[i].slot, Bounded(r)
    PROVE  /\ Good([rs EXCEPT ![i] = r]) /\ Len([rs EXCEPT ![i] = r]) = Len(rs)
           /\ \A s : Absent(s, rs) => Absent(s, [rs EXCEPT ![i] = r])
<1>1. rs \in Seq(Running) /\ Len(rs) \in Nat
  BY DEF Good
<1>2. /\ [rs EXCEPT ![i] = r] \in Seq(Running) /\ Len([rs EXCEPT ![i] = r]) = Len(rs)
      /\ \A j \in 1..Len(rs) : [rs EXCEPT ![i] = r][j] = IF j = i THEN r ELSE rs[j]
  BY <1>1
<1> QED BY <1>2 DEF Good, Absent

\* What a script's tick does to the others leaves a list that is good.
LEMMA TouchedIsGood ==
    ASSUME NEW rs, Good(rs), NEW s, Absent(s, rs), NEW t \in Touched(rs)
    PROVE  Good(t) /\ Absent(s, t) /\ Len(t) <= Len(rs)
<1>1. rs \in Seq(Running) /\ Len(rs) \in Nat
  BY DEF Good
<1>2. CASE t = rs
  BY <1>1, <1>2
<1>3. ASSUME NEW i \in 1..Len(rs), t = RemoveAt(rs, i)
      PROVE  Good(t) /\ Absent(s, t) /\ Len(t) <= Len(rs)
  BY <1>1, <1>3, RemovedIsGood
<1>4. ASSUME NEW i \in 1..Len(rs), t = [rs EXCEPT ![i].suspended = ~@]
      PROVE  Good(t) /\ Absent(s, t) /\ Len(t) <= Len(rs)
  <2> DEFINE r == [rs[i] EXCEPT !.suspended = ~@]
  <2>1. rs[i] \in Running
    BY <1>1
  <2>2. r \in Running /\ r.slot = rs[i].slot /\ Bounded(r)
    BY <2>1 DEF Running, Bounded, Good
  <2>3. t = [rs EXCEPT ![i] = r]
    BY <1>4
  <2> HIDE DEF r
  <2>4. Good([rs EXCEPT ![i] = r]) /\ Len([rs EXCEPT ![i] = r]) = Len(rs)
    BY <2>2, ChangedIsGood
  <2>5. Absent(s, [rs EXCEPT ![i] = r])
    BY <2>2, ChangedIsGood
  <2> QED BY <1>1, <2>3, <2>4, <2>5
<1> QED BY <1>2, <1>3, <1>4 DEF Touched

-----------------------------------------------------------------------------
(* The invariant. *)

ListInv ==
    /\ Good(slots) /\ Len(slots) <= SlotsMax
    /\ owed \in Int /\ (Up => owed = Len(slots))

WalkInv ==
    /\ turn \in 0..SlotsMax /\ next \in {"none", "run", "stop"}
    /\ resting \in BOOLEAN /\ fit \in BOOLEAN /\ crashed \in BOOLEAN
    /\ order \in Seq(Slot) /\ inputs \in 0..MaxInputs

IInv == ListInv /\ WalkInv

USE ScriptSizes

LEMMA EmptyIsGood == Good(<<>>) /\ Len(<<>>) = 0
BY DEF Good

LEMMA FreshIsBounded ==
    ASSUME NEW s \in Slot, NEW looping \in BOOLEAN, NEW most \in {NoBound, IterationsMax},
           NEW timed \in BOOLEAN
    PROVE  LET r == Fresh(s, looping, most, timed)
           IN  r \in Running /\ Bounded(r) /\ r.slot = s
BY DEF Fresh, Running, Bounded, NoBound

LEMMA InvAtFirst == Init => IInv
<1> SUFFICES ASSUME Init PROVE IInv
  OBVIOUS
<1>1. ListInv
  BY EmptyIsGood DEF Init, ListInv
<1>2. WalkInv
  <2>1. 0 \in 0..SlotsMax /\ 0 \in 0..MaxInputs /\ <<>> \in Seq(Slot)
    OBVIOUS
  <2> QED BY <2>1 DEF Init, WalkInv
<1> QED BY <1>1, <1>2 DEF IInv

LEMMA CallsKeepInv ==
    ASSUME IInv, RunScript \/ StopScript \/ RunNow
    PROVE  IInv'
<1> USE DEF IInv
<1>0. slots \in Seq(Running) /\ Len(slots) \in Nat /\ Good(slots)
  BY DEF ListInv, Good
<1>1. CASE RunScript
  <2>1. PICK s \in Slot, looping \in BOOLEAN, most \in {NoBound, IterationsMax}, timed \in BOOLEAN :
          /\ MayStart(s)
          /\ slots' = Append(slots, Fresh(s, looping \/ most > 1, most, timed))
    BY <1>1 DEF RunScript
  <2> DEFINE r == Fresh(s, looping \/ most > 1, most, timed)
  <2>2. r \in Running /\ Bounded(r) /\ r.slot = s
    BY FreshIsBounded
  <2> HIDE DEF r
  <2>3. Absent(s, slots) /\ Len(slots) < SlotsMax
    BY <2>1 DEF MayStart, InSlots, Absent
  <2>4. Good(Append(slots, r)) /\ Len(Append(slots, r)) = Len(slots) + 1
    BY <1>0, <2>2, <2>3, AppendedIsGood
  <2>5. slots' = Append(slots, r) /\ owed' = owed + 1 /\ Up /\ crashed' = crashed
    BY <1>1, <2>1 DEF RunScript, BetweenTicks, r
  <2>6. ListInv'
    BY <1>0, <2>3, <2>4, <2>5 DEF ListInv, Up
  <2>7. WalkInv'
    BY <1>1 DEF RunScript, WalkInv, Input
  <2> QED BY <2>6, <2>7
<1>2. CASE StopScript
  <2>1. Good(slots') /\ Len(slots') <= Len(slots) /\ Len(slots') \in Nat
    <3>1. CASE slots' = <<>>
      BY <1>0, <3>1, EmptyIsGood
    <3>2. ASSUME NEW i \in 1..Len(slots), slots' = RemoveAt(slots, i)
          PROVE  Good(slots') /\ Len(slots') <= Len(slots) /\ Len(slots') \in Nat
      BY <1>0, <3>2, RemovedIsGood
    <3> QED BY <1>2, <3>1, <3>2 DEF StopScript
  <2>2. owed' = owed - (Len(slots) - Len(slots')) /\ Up /\ crashed' = crashed
    BY <1>2 DEF StopScript, BetweenTicks
  <2>3. ListInv'
    BY <1>0, <2>1, <2>2 DEF ListInv, Up
  <2>4. WalkInv'
    BY <1>2 DEF StopScript, WalkInv, Input
  <2> QED BY <2>3, <2>4
<1>3. CASE RunNow
  <2>1. Good(slots') /\ Len(slots') = Len(slots)
    <3>1. CASE slots' = slots
      BY <1>0, <3>1
    <3>2. ASSUME NEW i \in 1..Len(slots), NEW held \in BOOLEAN,
                 slots' = [slots EXCEPT ![i].suspended = held]
          PROVE  Good(slots') /\ Len(slots') = Len(slots)
      <4> DEFINE r == [slots[i] EXCEPT !.suspended = held]
      <4>1. slots[i] \in Running
        BY <1>0
      <4>2. r \in Running /\ r.slot = slots[i].slot /\ Bounded(r)
        BY <1>0, <4>1 DEF Running, Bounded, Good
      <4>3. slots' = [slots EXCEPT ![i] = r]
        BY <3>2
      <4> HIDE DEF r
      <4> QED BY <1>0, <4>2, <4>3, ChangedIsGood
    <3> QED BY <1>3, <3>1, <3>2 DEF RunNow
  <2>2. UNCHANGED <<owed, crashed>>
    BY <1>3 DEF RunNow
  <2>3. ListInv'
    BY <1>0, <2>1, <2>2 DEF ListInv, Up
  <2>4. WalkInv'
    <3>1. next' \in {"none", "run", "stop"} /\ inputs' \in 0..MaxInputs
      BY <1>3 DEF RunNow, WalkInv, Input
    <3>2. UNCHANGED <<turn, resting, order, fit, crashed>>
      BY <1>3 DEF RunNow
    <3> QED BY <3>1, <3>2 DEF WalkInv
  <2> QED BY <2>3, <2>4
<1> QED BY <1>1, <1>2, <1>3

LEMMA TimeKeepsInv ==
    ASSUME IInv, GapOver \/ TimeUp \/ DiesOrLives \/ LinkLost
    PROVE  IInv'
<1> USE DEF IInv
<1>0. slots \in Seq(Running) /\ Len(slots) \in Nat /\ Good(slots)
  BY DEF ListInv, Good
<1>1. CASE GapOver \/ DiesOrLives
  <2>1. UNCHANGED <<slots, owed, crashed>>
    BY <1>1 DEF GapOver, DiesOrLives, list
  <2>2. ListInv'
    BY <2>1 DEF ListInv, Up
  <2>3. WalkInv'
    <3>1. inputs' \in 0..MaxInputs
      BY <1>1 DEF GapOver, DiesOrLives, WalkInv, Input
    <3>3. fit' \in BOOLEAN /\ resting' \in BOOLEAN
      <4>1. CASE GapOver
        BY <4>1 DEF GapOver, WalkInv
      <4>2. CASE DiesOrLives
        BY <4>2 DEF DiesOrLives, WalkInv
      <4> QED BY <1>1, <4>1, <4>2
    <3>2. UNCHANGED <<list, order, crashed>>
      BY <1>1 DEF GapOver, DiesOrLives
    <3> QED BY <3>1, <3>2, <3>3 DEF WalkInv, list
  <2> QED BY <2>2, <2>3
<1>2. CASE TimeUp
  <2>1. PICK i \in 1..Len(slots) : slots' = [slots EXCEPT ![i].due = TRUE]
    BY <1>2 DEF TimeUp
  <2> DEFINE r == [slots[i] EXCEPT !.due = TRUE]
  <2>2. slots[i] \in Running
    BY <1>0
  <2>3. r \in Running /\ r.slot = slots[i].slot /\ Bounded(r)
    BY <1>0, <2>2 DEF Running, Bounded, Good
  <2>4. slots' = [slots EXCEPT ![i] = r]
    BY <2>1
  <2> HIDE DEF r
  <2>5. Good(slots') /\ Len(slots') = Len(slots)
    BY <1>0, <2>3, <2>4, ChangedIsGood
  <2>6. ListInv'
    BY <1>2, <2>5 DEF TimeUp, ListInv, Up
  <2>7. WalkInv'
    BY <1>2 DEF TimeUp, WalkInv
  <2> QED BY <2>6, <2>7
<1>3. CASE LinkLost
  <2>1. slots' = <<>> /\ owed' = owed - Len(slots) /\ Up /\ crashed' = crashed
    BY <1>3 DEF LinkLost, BetweenTicks
  <2>2. ListInv'
    BY <1>0, <2>1, EmptyIsGood DEF ListInv, Up
  <2>3. WalkInv'
    <3>1. 0 \in 0..SlotsMax /\ inputs' \in 0..MaxInputs
      BY <1>3 DEF LinkLost, Input, WalkInv
    <3> QED BY <1>3, <3>1 DEF LinkLost, WalkInv
  <2> QED BY <2>2, <2>3
<1> QED BY <1>1, <1>2, <1>3

LEMMA OrderIsOfSlots ==
    ASSUME slots \in Seq(Running), slots # <<>>, turn \in 0..SlotsMax
    PROVE  OrderOfTheTick \in Seq(Slot)
<1>1. Len(slots) \in Nat \ {0}
  OBVIOUS
<1>2. \A k \in 1..Len(slots) : ((turn + k - 1) % Len(slots)) + 1 \in 1..Len(slots)
  BY <1>1
<1>3. \A k \in 1..Len(slots) : slots[((turn + k - 1) % Len(slots)) + 1].slot \in Slot
  <2>1. \A i \in 1..Len(slots) : slots[i] \in Running
    OBVIOUS
  <2>2. \A i \in 1..Len(slots) : slots[i].slot \in Slot
    BY <2>1 DEF Running
  <2> QED BY <1>2, <2>2
<1> QED BY <1>1, <1>3 DEF OrderOfTheTick

LEMMA WalkBegins ==
    ASSUME IInv, PumpBegins \/ PassesOver
    PROVE  IInv'
<1> USE DEF IInv
<1>0. slots \in Seq(Running) /\ Len(slots) \in Nat /\ Good(slots)
  BY DEF ListInv, Good
<1>1. CASE PumpBegins
  <2>1. CASE fit
    <3>1. order' = OrderOfTheTick /\ slots # <<>>
          /\ UNCHANGED <<slots, owed, turn, next, resting, fit, crashed, inputs>>
      BY <1>1, <2>1 DEF PumpBegins
    <3>2. order' \in Seq(Slot)
      BY <1>0, <3>1, OrderIsOfSlots DEF WalkInv
    <3> QED BY <3>1, <3>2 DEF ListInv, WalkInv, Up
  <2>2. CASE ~fit
    <3>1. /\ order' = <<>> /\ slots' = <<>> /\ owed' = owed - Len(slots)
          /\ Up /\ UNCHANGED <<turn, next, resting, fit, crashed, inputs>>
      BY <1>1, <2>2 DEF PumpBegins, BetweenTicks
    <3>2. ListInv'
      BY <1>0, <3>1, EmptyIsGood DEF ListInv, Up
    <3>3. <<>> \in Seq(Slot)
      OBVIOUS
    <3>4. WalkInv'
      BY <3>1, <3>3 DEF WalkInv
    <3> QED BY <3>2, <3>4
  <2> QED BY <2>1, <2>2
<1>2. CASE PassesOver
  <2>1. order # <<>> /\ order' = Tail(order) /\ UNCHANGED <<list, resting, fit, crashed, owed, inputs>>
    BY <1>2 DEF PassesOver
  <2>2. order' \in Seq(Slot)
    BY <2>1 DEF WalkInv
  <2> QED BY <2>1, <2>2 DEF ListInv, WalkInv, Up, list
<1> QED BY <1>1, <1>2

LEMMA PlaceOfSlot ==
    ASSUME NEW rs, NEW s, InSlots(rs, s)
    PROVE  SlotAt(rs, s) \in 1..Len(rs) /\ rs[SlotAt(rs, s)].slot = s
BY DEF InSlots, SlotAt

\* Whatever a script asked for, and however its tick ended, the list is good,
\* and what was started or ended was counted; a place past the end is the one
\* thing that goes wrong, and the task is gone then.
LEMMA SettledIsGood ==
    ASSUME Good(slots), Len(slots) <= SlotsMax, owed = Len(slots),
           NEW at \in 1..Len(slots), ~BoundReached(slots[at]),
           NEW rest \in Touched(RemoveAt(slots, at)), NEW how, NEW asked,
           Settles(rest, at, slots[at], how, asked)
    PROVE  /\ Good(slots') /\ Len(slots') <= SlotsMax /\ owed' \in Int
           /\ crashed' \in BOOLEAN /\ (~crashed' => owed' = Len(slots'))
<1> DEFINE r == slots[at]
<1>0. slots \in Seq(Running) /\ Len(slots) \in Nat /\ r \in Running /\ r.slot \in Slot /\ Bounded(r)
  <2>1. slots \in Seq(Running) /\ r \in Running /\ Bounded(r)
    BY DEF Good
  <2> QED BY <2>1 DEF Running
<1>1. /\ Good(rest) /\ Absent(r.slot, rest)
      /\ Len(rest) \in Nat /\ Len(rest) < Len(slots)
  <2>1. Good(RemoveAt(slots, at)) /\ Absent(r.slot, RemoveAt(slots, at)) /\ Len(RemoveAt(slots, at)) = Len(slots) - 1
    BY RemovedIsGood
  <2>2. Good(rest) /\ Absent(r.slot, rest) /\ Len(rest) <= Len(RemoveAt(slots, at))
    BY <2>1, TouchedIsGood
  <2>3. Len(rest) \in Nat
    BY <2>2 DEF Good
  <2> QED BY <1>0, <2>1, <2>2, <2>3
<1>2. ASSUME NEW q \in Running, q.slot = r.slot, Bounded(q), GoesBack(rest, at, q)
      PROVE  /\ Good(slots') /\ Len(slots') <= SlotsMax /\ crashed' \in BOOLEAN
             /\ Len(slots') \in Nat /\ (~crashed' => Len(slots') = Len(rest) + 1)
  <2>1. CASE at <= Len(rest) + 1
    <3>1. at \in 1..Len(rest) + 1
      BY <1>1, <2>1
    <3>2. Good(InsertAt(rest, at, q)) /\ Len(InsertAt(rest, at, q)) = Len(rest) + 1
      BY <1>1, <1>2, <3>1, InsertedIsGood
    <3>3. slots' = InsertAt(rest, at, q) /\ crashed' = FALSE
      BY <1>2, <2>1 DEF GoesBack
    <3>4. Good(slots') /\ Len(slots') = Len(rest) + 1
      BY <3>2, <3>3
    <3>5. Len(slots') <= SlotsMax /\ Len(slots') \in Nat
      BY <1>0, <1>1, <3>4
    <3> QED BY <3>3, <3>4, <3>5
  <2>2. CASE ~(at <= Len(rest) + 1)
    <3>1. slots' = rest /\ crashed' = TRUE
      BY <1>2, <2>2 DEF GoesBack
    <3> QED BY <1>0, <1>1, <3>1
  <2> QED BY <2>1, <2>2
<1> DEFINE stopped == Len(slots) - 1 - Len(rest)
<1> HIDE DEF r
<1>3. CASE asked = "run"
  <2>1. slots' \in InItsPlace(rest, r.slot) /\ crashed' = FALSE
        /\ owed' = owed - stopped - 1 + (Len(slots') - Len(rest))
    BY <1>3 DEF Settles, Ends, r
  <2>2. Good(slots') /\ Len(slots') \in Nat /\ Len(slots') <= Len(slots)
    <3>1. CASE slots' = rest
      BY <1>0, <1>1, <3>1
    <3>2. CASE slots' = Append(rest, Fresh(r.slot, FALSE, NoBound, FALSE))
      <4>1. /\ Fresh(r.slot, FALSE, NoBound, FALSE) \in Running
            /\ Bounded(Fresh(r.slot, FALSE, NoBound, FALSE))
            /\ Fresh(r.slot, FALSE, NoBound, FALSE).slot = r.slot
        BY <1>0, FreshIsBounded
      <4>2. Good(slots') /\ Len(slots') = Len(rest) + 1
        BY <1>1, <3>2, <4>1, AppendedIsGood
      <4> QED BY <1>0, <1>1, <4>2
    <3> QED BY <2>1, <3>1, <3>2 DEF InItsPlace
  <2>3. owed' \in Int /\ owed' = Len(slots') /\ Len(slots') <= SlotsMax
    BY <1>0, <1>1, <2>1, <2>2
  <2> QED BY <2>1, <2>2, <2>3
<1>4. CASE slots' = rest /\ owed' = owed - stopped - 1 /\ crashed' = FALSE
  <2>1. owed' \in Int /\ owed' = Len(rest) /\ Len(rest) <= SlotsMax
    BY <1>0, <1>1, <1>4
  <2> QED BY <1>1, <1>4, <2>1
<1>5. CASE GoesBack(rest, at, r) /\ owed' = owed - stopped
  <2>1. /\ Good(slots') /\ Len(slots') <= SlotsMax /\ crashed' \in BOOLEAN
        /\ Len(slots') \in Nat /\ (~crashed' => Len(slots') = Len(rest) + 1)
    BY <1>0, <1>2, <1>5
  <2> QED BY <1>0, <1>1, <1>5, <2>1
<1>6. ASSUME StartsAgain(r), owed' = owed - stopped,
             GoesBack(rest, at, [r EXCEPT !.iterations = IF r.iterations_max = NoBound THEN @ ELSE @ + 1])
      PROVE  /\ Good(slots') /\ Len(slots') <= SlotsMax /\ owed' \in Int
             /\ crashed' \in BOOLEAN /\ (~crashed' => owed' = Len(slots'))
  <2> DEFINE q == [r EXCEPT !.iterations = IF r.iterations_max = NoBound THEN @ ELSE @ + 1]
  <2>1. r.iterations_max # NoBound => r.iterations + 1 < r.iterations_max
    BY <1>0, <1>6 DEF StartsAgain, BoundReached, Running
  <2>2. q \in Running /\ q.slot = r.slot /\ Bounded(q)
    BY <1>0, <2>1 DEF Running, Bounded
  <2> HIDE DEF q
  <2>3. GoesBack(rest, at, q)
    BY <1>6 DEF q
  <2>4. /\ Good(slots') /\ Len(slots') <= SlotsMax /\ crashed' \in BOOLEAN
        /\ Len(slots') \in Nat /\ (~crashed' => Len(slots') = Len(rest) + 1)
    BY <1>2, <2>2, <2>3
  <2> QED BY <1>0, <1>1, <1>6, <2>4
<1>7. \/ asked = "run"
      \/ slots' = rest /\ owed' = owed - stopped - 1 /\ crashed' = FALSE
      \/ GoesBack(rest, at, r) /\ owed' = owed - stopped
      \/ /\ StartsAgain(r) /\ owed' = owed - stopped
         /\ GoesBack(rest, at, [r EXCEPT !.iterations = IF r.iterations_max = NoBound THEN @ ELSE @ + 1])
  BY DEF Settles, Ends, r
<1> QED BY <1>3, <1>4, <1>5, <1>6, <1>7

LEMMA TickKeepsInv ==
    ASSUME IInv, TickSlot
    PROVE  IInv'
<1> USE DEF IInv
<1>0. slots \in Seq(Running) /\ Len(slots) \in Nat /\ Good(slots) /\ Len(slots) <= SlotsMax
      /\ ~crashed /\ owed = Len(slots)
  <2>1. Up
    BY DEF TickSlot
  <2> QED BY <2>1 DEF ListInv, Good, Up
<1> DEFINE s == Head(order)
           at == SlotAt(slots, s)
           r == slots[at]
<1>1. at \in 1..Len(slots) /\ r.slot = s
  BY PlaceOfSlot DEF TickSlot
<1>2. order \in Seq(Slot) /\ Tail(order) \in Seq(Slot) /\ <<>> \in Seq(Slot)
  <2>1. order # <<>> /\ order \in Seq(Slot)
    BY DEF TickSlot, WalkInv
  <2> QED BY <2>1
<1>3. UNCHANGED <<fit, inputs>>
  BY DEF TickSlot
<1>4. CASE /\ slots' = RemoveAt(slots, at) /\ owed' = owed - 1 /\ order' = Tail(order)
           /\ UNCHANGED <<turn, next, resting, crashed>>
  <2>1. Good(slots') /\ Len(slots') = Len(slots) - 1
    BY <1>0, <1>1, <1>4, RemovedIsGood
  <2>2. ListInv'
    BY <1>0, <1>4, <2>1 DEF ListInv, Up
  <2>3. WalkInv'
    BY <1>2, <1>3, <1>4 DEF WalkInv
  <2> QED BY <2>2, <2>3
<1>5. CASE order' = Tail(order) /\ UNCHANGED <<list, resting, crashed, owed>>
  BY <1>2, <1>3, <1>5 DEF ListInv, WalkInv, Up, list
<1>6. ASSUME ~BoundReached(r), next' = "none", NEW sent \in BOOLEAN, resting' = sent,
             order' = IF sent THEN <<>> ELSE Tail(order), NEW how,
             NEW rest \in Touched(RemoveAt(slots, at)),
             Settles(rest, at, r, how, IF how \in Ask THEN how ELSE next),
             turn' = IF sent THEN TurnAfter(at, s) ELSE turn
      PROVE  IInv'
  <2>1. /\ Good(slots') /\ Len(slots') <= SlotsMax /\ owed' \in Int
        /\ crashed' \in BOOLEAN /\ (~crashed' => owed' = Len(slots'))
    BY <1>0, <1>1, <1>6, SettledIsGood
  <2>2. TurnAfter(at, s) \in 0..SlotsMax
    <3>1. Len(slots') \in Nat
      BY <2>1 DEF Good
    <3>2. InSlots(slots', s) => SlotAt(slots', s) \in 1..Len(slots')
      BY PlaceOfSlot
    <3> QED BY <1>0, <1>1, <2>1, <3>1, <3>2 DEF TurnAfter
  <2>3. turn' \in 0..SlotsMax /\ order' \in Seq(Slot)
    BY <1>2, <1>6, <2>2 DEF WalkInv
  <2>4. ListInv'
    BY <2>1 DEF ListInv, Up
  <2>5. WalkInv'
    BY <1>3, <1>6, <2>1, <2>3 DEF WalkInv
  <2> QED BY <2>4, <2>5
<1>7. \/ /\ slots' = RemoveAt(slots, at) /\ owed' = owed - 1 /\ order' = Tail(order)
         /\ UNCHANGED <<turn, next, resting, crashed>>
      \/ order' = Tail(order) /\ UNCHANGED <<list, resting, crashed, owed>>
      \/ /\ ~BoundReached(r) /\ next' = "none"
         /\ \E sent \in BOOLEAN :
               /\ resting' = sent
               /\ order' = IF sent THEN <<>> ELSE Tail(order)
               /\ \E how \in IF sent THEN {"goes on", "done"} ELSE Outcome,
                     rest \in Touched(RemoveAt(slots, at)) :
                   Settles(rest, at, r, how, IF how \in Ask THEN how ELSE next)
               /\ turn' = IF sent THEN TurnAfter(at, s) ELSE turn
  BY Zenon DEF TickSlot
<1>8. CASE \E sent \in BOOLEAN :
             /\ ~BoundReached(r) /\ next' = "none" /\ resting' = sent
             /\ order' = IF sent THEN <<>> ELSE Tail(order)
             /\ \E how \in IF sent THEN {"goes on", "done"} ELSE Outcome,
                   rest \in Touched(RemoveAt(slots, at)) :
                 Settles(rest, at, r, how, IF how \in Ask THEN how ELSE next)
             /\ turn' = IF sent THEN TurnAfter(at, s) ELSE turn
  BY <1>6, <1>8
<1> HIDE DEF s, at, r
<1> QED BY <1>4, <1>5, <1>7, <1>8

LEMMA InvStays == IInv /\ [Next]_vars => IInv'
<1> SUFFICES ASSUME IInv, [Next]_vars PROVE IInv'
  OBVIOUS
<1>1. CASE UNCHANGED vars
  BY <1>1 DEF vars, list, IInv, ListInv, WalkInv, Up
<1> QED BY <1>1, CallsKeepInv, TimeKeepsInv, WalkBegins, TickKeepsInv DEF Next, Pump

THEOREM ScriptsInv == Spec => []IInv
BY InvAtFirst, InvStays, PTL DEF Spec

\* The list never holds more than its most scripts, also when one is replaced
\* while the list is walked (scripting.rs, SLOTS_MAX).
THEOREM ScriptsTypeCorrect == Spec => []TypeOK
<1>1. IInv => TypeOK
  BY DEF IInv, ListInv, WalkInv, Good, TypeOK
<1> QED BY <1>1, ScriptsInv, PTL

\* A slot names one script, also while the list is walked and changed.
THEOREM ScriptsOneASlot == Spec => []OneScriptASlot
<1>1. IInv => OneScriptASlot
  BY DEF IInv, ListInv, Good, OneScriptASlot
<1> QED BY <1>1, ScriptsInv, PTL

\* Each script that was started runs, was told of once, or went with the link.
THEOREM ScriptsEachEndIsToldOnce == Spec => []EachEndIsToldOnce
<1>1. IInv => EachEndIsToldOnce
  BY DEF IInv, ListInv, EachEndIsToldOnce
<1> QED BY <1>1, ScriptsInv, PTL

\* No script is given more runs from the top than were asked for.
THEOREM ScriptsNoRunTooMany == Spec => []NoRunTooMany
<1>1. IInv => NoRunTooMany
  BY DEF IInv, ListInv, Good, Bounded, NoRunTooMany
<1> QED BY <1>1, ScriptsInv, PTL
=============================================================================
