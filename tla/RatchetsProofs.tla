---------------------------- MODULE RatchetsProofs ----------------------------
(***************************************************************************)
(* Proofs about Ratchets: the types, what the sender keeps of the ratchets *)
(* it heard, and that no packet is lost to a ratchet that is retained.     *)
(***************************************************************************)
EXTENDS Ratchets, TLAPS, FiniteSetTheorems, WellFoundedInduction, SequenceTheorems

\* What a sender has was announced.
HeardInv ==
  /\ {known, stored} \subseteq announced \cup {0}
  /\ packets \subseteq announced \cup {0}
  /\ jobs \in Seq(announced)
  /\ \A t \in Readers : packet[t] \in announced \cup {0}

\* While threads that store ratchets are under way, the last one of them has the
\* ratchet that is known.
StoreInv ==
  past \cap {"OVERTAKE", "EXPIRY"} = {} =>
    IF jobs = << >> THEN known \in {0, stored} ELSE known = jobs[Len(jobs)]

\* The announced ratchets that a destination promises to have.
Recent == {k \in announced : k + Kept > generated}

\* The lock is held from the writing of the temporary file to its renaming, and
\* threads stop with the program.
LockInv ==
  /\ \A t \in Threads : pc[t] \in {"WRITTEN", "UNLINKED"} => lock = {t}
  /\ \A t \in Threads : pc[t] # "IDLE" => up

AtMostOne(lists) == \A x, y \in lists : x = y

\* Whether the latest ratchet of the list is in the temporary file, or in no file.
NotInBetween ==
  UNION ratchets # {} =>
    Latest(UNION ratchets) \in temp \/ Latest(UNION ratchets) \notin UNION file

\* The list and the file have all recent ratchets; the temporary file has them from
\* the moment on at which it may become the file, since what is announced in the
\* meantime is in both or in none.
FileInv ==
  /\ AtMostOne(ratchets) /\ AtMostOne(file)
  /\ up => ratchets # {}
  /\ \A s \in ratchets \cup file : Recent \subseteq s
  /\ file = {} => (~up /\ announced = {}) \/ \E t \in Threads : pc[t] = "UNLINKED"
  /\ \A t \in Threads : pc[t] = "UNLINKED" => file = {}
  /\ \A t \in Threads : /\ pc[t] \in {"WRITTEN", "UNLINKED"} => Recent \subseteq temp
                        /\ pc[t] = "WRITTEN" => NotInBetween

Undisturbed == past \cap {"GAP", "IO", "UNSAVED"} = {}

KeepInv ==
  /\ LockInv
  /\ Undisturbed => FileInv /\ NothingLost

-----------------------------------------------------------------------------
\* A set of natural numbers has a smallest element.
LEMMA SmallestExists ==
  ASSUME NEW S \in SUBSET Nat, S # {}
  PROVE  \E n \in S : \A k \in S : n <= k
<1> DEFINE R == OpToRel(<, Nat)
<1>1. IsWellFoundedOn(R, Nat)
  BY NatLessThanWellFounded
<1>2. PICK n \in S : \A k \in S : <<k, n>> \notin R
  <2> HIDE DEF R
  <2> QED
    BY <1>1, WFMin
<1>3. \A k \in S : ~(k < n)
  BY <1>2 DEF OpToRel
<1>4. QED
  BY <1>3

\* The latest ratchet of a list is in the list and later than all others.
LEMMA LatestFacts ==
  ASSUME NEW g \in Nat, NEW s \in SUBSET (1 .. g), s # {}
  PROVE  /\ Latest(s) \in s
         /\ \A j \in s : j <= Latest(s)
<1> DEFINE ages == {a \in Nat : g - a \in s}
<1>1. ages # {}
  <2>1. PICK k \in s : TRUE
    OBVIOUS
  <2>2. g - k \in Nat /\ g - (g - k) = k
    OBVIOUS
  <2>3. QED
    BY <2>1, <2>2
<1>2. PICK a \in ages : \A b \in ages : a <= b
  BY <1>1, SmallestExists
<1>3. ASSUME NEW j \in s PROVE j <= g - a
  <2>1. g - j \in Nat /\ g - (g - j) = j
    OBVIOUS
  <2>2. a <= g - j
    BY <1>2, <2>1
  <2>3. QED
    BY <2>2
<1>4. \E k \in s : \A j \in s : j <= k
  BY <1>2, <1>3
<1>5. QED
  BY <1>4 DEF Latest

\* How many numbers there are after k up to g, at most.
LEMMA LaterCount ==
  ASSUME NEW g \in Nat, NEW k \in 1 .. g, NEW later \in SUBSET (k + 1 .. g)
  PROVE  Cardinality(later) \in Nat /\ Cardinality(later) <= g - k
<1> DEFINE first == k + 1
<1>1. first \in Int /\ g \in Int /\ later \subseteq first .. g
  OBVIOUS
<1>2. IsFiniteSet(first .. g) /\ Cardinality(first .. g) = IF first > g THEN 0 ELSE g - first + 1
  <2> HIDE DEF first
  <2> QED
    BY <1>1, FS_Interval
<1>3. /\ IsFiniteSet(later) /\ Cardinality(later) <= Cardinality(first .. g)
      /\ Cardinality(later) \in Nat
  <2> HIDE DEF first
  <2> QED
    BY <1>1, <1>2, FS_Subset, FS_CardinalityType
<1>4. QED
  BY <1>2, <1>3

\* Cleaning a list leaves a part of it, which has the last RATCHET_COUNT numbers of
\* those that were generated, as far as the list had them.
LEMMA CleanedFacts ==
  ASSUME NumbersAssumption, NEW g \in Nat, NEW s \in SUBSET (1 .. g)
  PROVE  /\ Cleaned(s) \subseteq s
         /\ \A k \in s : k + Kept > g => k \in Cleaned(s)
<1>1. Newest(s) \subseteq s
  BY DEF Newest
<1>2. ASSUME NEW k \in s, k + Kept > g PROVE k \in Newest(s)
  <2> DEFINE later == {j \in s : j > k}
  <2>0. k \in 1 .. g /\ \A j \in s : j \in 1 .. g
    OBVIOUS
  <2>1. later \subseteq k + 1 .. g
    <3>1. SUFFICES ASSUME NEW j \in s, j > k PROVE j \in k + 1 .. g
      OBVIOUS
    <3>2. QED
      BY <2>0, <3>1
  <2>2. Cardinality(later) \in Nat /\ Cardinality(later) <= g - k
    <3> HIDE DEF later
    <3> QED
      BY <2>0, <2>1, LaterCount
  <2>4. Cardinality(later) < RATCHET_COUNT
    <3>1. RATCHET_COUNT \in Nat /\ Kept \in Nat /\ Kept <= RATCHET_COUNT
      BY DEF Kept, NumbersAssumption
    <3>2. g - k < Kept
      BY <1>2, <2>0, <3>1
    <3> HIDE DEF later
    <3>3. QED
      BY <2>0, <2>2, <3>1, <3>2
  <2>5. QED
    BY <2>4 DEF Newest
<1>3. QED
  BY <1>1, <1>2 DEF Cleaned

-----------------------------------------------------------------------------
(***************************************************************************)
(* Types.                                                                  *)
(***************************************************************************)

\* There are no ratchets at the start, which are values of the types.
LEMMA InitType == Init => TypeOK
<1> SUFFICES ASSUME Init PROVE TypeOK
  OBVIOUS
<1>1. jobs \in Seq(1 .. generated)
  BY EmptySeq DEF Init
<1>2. {} \in Lists /\ 0 \in 0 .. generated
  BY DEF Init, Lists
<1>3. pc \in [Threads -> Places] /\ packet \in [Readers -> 0 .. generated]
  BY <1>2 DEF Init, Places
<1>4. QED
  BY <1>1, <1>2, <1>3 DEF Init, TypeOK

\* What a mishap adds to the past.
LEMMA MishapFacts ==
  ASSUME NEW kind, Mishap(kind), past \subseteq Faults \cup {"GAP", "UNSAVED"}
  PROVE  past' \subseteq Faults \cup {"GAP", "UNSAVED"} /\ kind \in past' /\ past \subseteq past'
BY DEF Mishap

\* Steps of the destination keep the types.
LEMMA OwnerType ==
  ASSUME NumbersAssumption, TypeOK, NEW t,
         \/ Enable \/ Crash
         \/ t \in Threads /\ Persist(t)
         \/ t \in Announcers /\ (Rotate(t) \/ KeepRatchet(t) \/ Announce(t))
         \/ t \in Readers /\ (Receive(t) \/ Reload(t) \/ ReloadGap(t))
  PROVE  TypeOK'
<1>1. ASSUME generated' = generated, jobs' = jobs, known' = known, stored' = stored,
             heard' = heard, packets' = packets,
             up' \in BOOLEAN, due' \in BOOLEAN, ratchets' \subseteq Lists, file' \subseteq Lists,
             temp' \in Lists, lock' \subseteq Threads, pc' \in [Threads -> Places],
             packet' \in [Readers -> 0 .. generated], announced' \in Lists,
             lost' \subseteq 0 .. generated, past' \subseteq Faults \cup {"GAP", "UNSAVED"}
      PROVE  TypeOK'
  BY <1>1 DEF TypeOK, Lists
<1>2. ASSUME NEW x, t \in Readers PROVE Tried(t) \subseteq 0 .. generated
  BY DEF Tried, TypeOK
<1>3. ASSUME NEW place \in Places, Go(t, place) PROVE pc' \in [Threads -> Places]
  BY <1>3 DEF Go, TypeOK
<1>4. Tried(t) \subseteq 0 .. generated
  BY DEF Tried, TypeOK
<1>5. CASE Enable
  <2>1. ratchets' \subseteq Lists
    BY <1>5 DEF Enable, TypeOK, Lists
  <2>2. QED
    BY <1>1, <1>5, <2>1 DEF Enable, TypeOK, sender
<1>6. CASE Crash
  <2>1. pc' \in [Threads -> Places] /\ packet' \in [Readers -> 0 .. generated]
    BY <1>6 DEF Crash, Places, TypeOK
  <2>2. past' \subseteq Faults \cup {"GAP", "UNSAVED"}
    BY <1>6 DEF Crash, TypeOK
  <2>3. QED
    BY <1>1, <1>6, <2>1, <2>2 DEF Crash, TypeOK, sender
<1>7. CASE t \in Threads /\ WriteTemp(t)
  <2>1. temp' \in Lists
    BY <1>7 DEF WriteTemp, TypeOK
  <2>2. pc' \in [Threads -> Places]
    BY <1>3, <1>7 DEF WriteTemp, Places
  <2>3. lost' \subseteq 0 .. generated /\ lock' \subseteq Threads
    BY <1>4, <1>7 DEF WriteTemp, TypeOK
  <2>4. QED
    BY <1>1, <1>7, <2>1, <2>2, <2>3 DEF WriteTemp, TypeOK, sender
<1>8. CASE t \in Threads /\ Unlink(t)
  <2>1. pc' \in [Threads -> Places]
    BY <1>3, <1>8 DEF Unlink, Places
  <2>2. QED
    BY <1>1, <1>8, <2>1 DEF Unlink, TypeOK, sender
<1>9. CASE t \in Threads /\ Rename(t)
  <2>1. pc' \in [Threads -> Places]
    BY <1>3, <1>9 DEF Rename, Places
  <2>2. QED
    BY <1>1, <1>4, <1>9, <2>1 DEF Rename, TypeOK, sender
<1>10. CASE t \in Threads /\ PersistFails(t)
  <2>1. pc' \in [Threads -> Places]
    BY <1>3, <1>10 DEF PersistFails, Places
  <2>2. lost' \subseteq 0 .. generated
    BY <1>10 DEF PersistFails, TypeOK
  <2>3. past' \subseteq Faults \cup {"GAP", "UNSAVED"}
    BY <1>10 DEF PersistFails, Mishap, TypeOK
  <2>4. QED
    BY <1>1, <1>10, <2>1, <2>2, <2>3 DEF PersistFails, TypeOK, sender
<1>11. CASE t \in Announcers /\ Rotate(t)
  <2>1. generated' = generated + 1 /\ 1 .. generated \subseteq 1 .. generated' /\ generated' \in Nat
    BY <1>11 DEF Rotate, TypeOK
  <2>2. ratchets' \subseteq Lists'
    <3>1. PICK s \in ratchets : ratchets' = {Cleaned(s \cup {generated + 1})}
      BY <1>11 DEF Rotate
    <3>2. s \cup {generated + 1} \in SUBSET (1 .. generated')
      BY <2>1 DEF TypeOK, Lists
    <3>3. QED
      BY <2>1, <3>1, <3>2, CleanedFacts DEF Lists
  <2>3. pc' \in [Threads -> Places]
    BY <1>3, <1>11 DEF Rotate, Places
  <2>4. /\ file' \subseteq Lists' /\ temp' \in Lists' /\ announced' \in Lists'
        /\ packet' \in [Readers -> 0 .. generated']
        /\ {known', stored'} \subseteq 0 .. generated' /\ packets' \subseteq 0 .. generated'
        /\ lost' \subseteq 0 .. generated'
    BY <1>11, <2>1 DEF Rotate, TypeOK, Lists, sender
  <2>5. jobs' \in Seq(1 .. generated')
    BY <1>11, <2>1, SeqMonotonic DEF Rotate, TypeOK, sender
  <2>6. QED
    BY <1>11, <2>1, <2>2, <2>3, <2>4, <2>5 DEF Rotate, TypeOK, sender
<1>12. CASE t \in Announcers /\ KeepRatchet(t)
  <2>1. pc' \in [Threads -> Places]
    BY <1>3, <1>12 DEF KeepRatchet, Places
  <2>2. QED
    BY <1>1, <1>12, <2>1 DEF KeepRatchet, TypeOK, sender
<1>13. CASE t \in Announcers /\ Announce(t)
  <2>1. pc' \in [Threads -> Places]
    BY <1>3, <1>13 DEF Announce, Places
  <2>2. announced' \in Lists
    <3>1. CASE \E s \in ratchets : s # {}
      <4>1. UNION ratchets \in SUBSET (1 .. generated) /\ UNION ratchets # {}
        BY <3>1 DEF TypeOK, Lists
      <4>2. Latest(UNION ratchets) \in 1 .. generated
        BY <4>1, LatestFacts DEF TypeOK
      <4>3. QED
        BY <1>13, <3>1, <4>2 DEF Announce, TypeOK, Lists
    <3>2. CASE ~ \E s \in ratchets : s # {}
      BY <1>13, <3>2 DEF Announce, TypeOK
    <3>3. QED
      BY <3>1, <3>2
  <2>3. past' \subseteq Faults \cup {"GAP", "UNSAVED"}
    BY <1>13 DEF Announce, TypeOK
  <2>4. QED
    BY <1>1, <1>13, <2>1, <2>2, <2>3 DEF Announce, TypeOK, sender
<1>14. CASE t \in Readers /\ Receive(t)
  <2>1. pc' \in [Threads -> Places]
    <3>1. pc' = pc \/ Go(t, "RELOAD")
      BY <1>14 DEF Receive
    <3>2. QED
      BY <1>3, <3>1 DEF Places, TypeOK
  <2>2. packet' \in [Readers -> 0 .. generated] /\ lost' \subseteq 0 .. generated
    <3>1. PICK k \in packets : /\ packet' = [packet EXCEPT ![t] = k]
                               /\ lost' \in {lost, lost \cup {k}}
      BY <1>14 DEF Receive
    <3>2. QED
      BY <3>1 DEF TypeOK
  <2>3. QED
    BY <1>1, <1>14, <2>1, <2>2 DEF Receive, TypeOK, sender
<1>15. CASE t \in Readers /\ Reload(t)
  <2>1. pc' \in [Threads -> Places]
    BY <1>3, <1>15 DEF Reload, Places
  <2>2. lost' \subseteq 0 .. generated
    BY <1>15 DEF Reload, TypeOK
  <2>3. QED
    BY <1>1, <1>15, <2>1, <2>2 DEF Reload, TypeOK, sender
<1>16. CASE t \in Readers /\ ReloadGap(t)
  <2>1. pc' \in [Threads -> Places]
    BY <1>3, <1>16 DEF ReloadGap, Places
  <2>2. ratchets' \subseteq Lists /\ past' \subseteq Faults \cup {"GAP", "UNSAVED"}
    BY <1>16 DEF ReloadGap, TypeOK, Lists
  <2>3. QED
    BY <1>1, <1>16, <2>1, <2>2 DEF ReloadGap, TypeOK, sender
<1>17. QED
  BY <1>5, <1>6, <1>7, <1>8, <1>9, <1>10, <1>11, <1>12, <1>13, <1>14, <1>15, <1>16 DEF Persist

\* Steps of the sender keep the types.
LEMMA SenderType ==
  ASSUME TypeOK, Hear \/ Store \/ Send \/ Restart \/ Expire
  PROVE  TypeOK'
<1>1. ASSUME UNCHANGED owner, {known', stored'} \subseteq 0 .. generated,
             jobs' \in Seq(1 .. generated), heard' \in Nat, packets' \subseteq 0 .. generated,
             past' \subseteq Faults \cup {"GAP", "UNSAVED"}
      PROVE  TypeOK'
  BY <1>1 DEF TypeOK, Lists, owner
<1>2. generated \in Nat /\ 0 \in 0 .. generated /\ 1 .. generated \subseteq 0 .. generated
  BY DEF TypeOK
<1>3. CASE Hear
  <2>1. PICK k \in announced : known' = k /\ jobs' = Append(jobs, k)
    BY <1>3 DEF Hear
  <2>2. k \in 1 .. generated /\ k \in 0 .. generated
    BY <1>2 DEF TypeOK, Lists
  <2>3. jobs' \in Seq(1 .. generated)
    BY <2>1, <2>2, AppendProperties DEF TypeOK
  <2>4. QED
    BY <1>1, <1>3, <2>1, <2>2, <2>3 DEF Hear, TypeOK
<1>4. CASE Store
  <2>1. Head(jobs) \in 1 .. generated /\ Tail(jobs) \in Seq(1 .. generated)
    BY <1>4, HeadTailProperties DEF Store, TypeOK
  <2>2. CASE stored' = Head(jobs) /\ jobs' = Tail(jobs) /\ UNCHANGED past
    BY <1>1, <1>2, <1>4, <2>1, <2>2 DEF Store, TypeOK
  <2>3. CASE /\ Len(jobs) > 1 /\ Mishap("OVERTAKE")
             /\ stored' = jobs[2] /\ jobs' = <<Head(jobs)>> \o Tail(Tail(jobs))
    <3>1. jobs[2] \in 1 .. generated
      BY <2>3 DEF TypeOK
    <3>2. Tail(jobs) # << >>
      <4>1. Len(Tail(jobs)) = Len(jobs) - 1
        BY <1>4, HeadTailProperties DEF Store, TypeOK
      <4>2. Len(jobs) \in Nat /\ Len(<< >>) = 0
        BY LenProperties, EmptySeq DEF TypeOK
      <4>3. Tail(jobs) = << >> => Len(Tail(jobs)) = 0
        BY <4>2, Zenon
      <4>4. QED
        BY <2>3, <4>1, <4>2, <4>3
    <3>3. Tail(Tail(jobs)) \in Seq(1 .. generated)
      BY <2>1, <3>2, HeadTailProperties
    <3>4. jobs' \in Seq(1 .. generated)
      BY <2>1, <2>3, <3>3
    <3>5. QED
      BY <1>1, <1>2, <1>4, <2>3, <3>1, <3>4 DEF Store, TypeOK, Mishap
  <2>4. QED
    BY <1>4, <2>2, <2>3 DEF Store
<1>5. CASE Send
  BY <1>1, <1>5 DEF Send, TypeOK
<1>6. CASE Restart
  <2>1. << >> \in Seq(1 .. generated)
    BY EmptySeq
  <2>2. QED
    BY <1>1, <1>2, <1>6, <2>1 DEF Restart, TypeOK, Mishap
<1>7. CASE Expire
  BY <1>1, <1>2, <1>7 DEF Expire, TypeOK, Mishap
<1>8. QED
  BY <1>3, <1>4, <1>5, <1>6, <1>7

\* Every step has the types.
LEMMA TypeStep == NumbersAssumption /\ TypeOK /\ [Next]_vars => TypeOK'
<1> SUFFICES ASSUME NumbersAssumption, TypeOK, [Next]_vars PROVE TypeOK'
  OBVIOUS
<1>1. CASE UNCHANGED vars
  BY <1>1 DEF vars, owner, sender, TypeOK, Lists
<1>2. CASE Next
  <2>1. \/ Enable \/ Crash
        \/ \E t \in Threads : Persist(t)
        \/ \E t \in Announcers : Rotate(t) \/ KeepRatchet(t) \/ Announce(t)
        \/ \E t \in Readers : Receive(t) \/ Reload(t) \/ ReloadGap(t)
        \/ Hear \/ Store \/ Send \/ Restart \/ Expire
    BY <1>2 DEF Next
  <2>2. QED
    BY <2>1, OwnerType, SenderType
<1>3. QED
  BY <1>1, <1>2

\* In every reachable state all variables have their types, on any number of threads.
THEOREM TypeCorrect == Spec => []TypeOK
<1>1. Init => TypeOK
  BY InitType
<1>2. TypeOK /\ [Next]_vars => TypeOK'
  BY NumbersAssumption, TypeStep
<1>3. QED
  BY <1>1, <1>2, PTL DEF Spec

-----------------------------------------------------------------------------
(***************************************************************************)
(* What the sender has.                                                    *)
(***************************************************************************)

\* What was announced stays announced, and mishaps are not forgotten.
LEMMA Grows ==
  ASSUME Next
  PROVE  announced \subseteq announced' /\ past \subseteq past'
BY DEF Next, Enable, Crash, Persist, WriteTemp, Unlink, Rename, PersistFails, Rotate, KeepRatchet,
       Announce, Receive, Reload, ReloadGap, Hear, Store, Send, Restart, Expire, Mishap, owner, sender

\* The destination has no part in what the sender has; a packet a thread of it
\* receives was sent.
LEMMA OwnerLeaves ==
  ASSUME TypeOK, NEW t,
         \/ Enable \/ Crash
         \/ t \in Threads /\ Persist(t)
         \/ t \in Announcers /\ (Rotate(t) \/ KeepRatchet(t) \/ Announce(t))
         \/ t \in Readers /\ (Receive(t) \/ Reload(t) \/ ReloadGap(t))
  PROVE  /\ UNCHANGED sender
         /\ \A r \in Readers : packet'[r] \in {packet[r], 0} \cup packets
<1>1. CASE t \in Readers /\ Receive(t)
  <2>1. PICK k \in packets : packet' = [packet EXCEPT ![t] = k]
    BY <1>1 DEF Receive
  <2>2. QED
    BY <1>1, <2>1 DEF Receive, TypeOK
<1>2. CASE Crash
  BY <1>2 DEF Crash
<1>3. CASE ~(t \in Readers /\ Receive(t)) /\ ~Crash
  BY <1>3 DEF Enable, Persist, WriteTemp, Unlink, Rename, PersistFails, Rotate, KeepRatchet,
              Announce, Reload, ReloadGap
<1>4. QED
  BY <1>1, <1>2, <1>3

\* What the sender has remains what was announced.
LEMMA HeardStep == TypeOK /\ HeardInv /\ [Next]_vars => HeardInv'
<1> SUFFICES ASSUME TypeOK, HeardInv, [Next]_vars PROVE HeardInv'
  OBVIOUS
<1>1. CASE UNCHANGED vars
  BY <1>1 DEF vars, owner, sender, HeardInv
<1>2. CASE Next
  <2>1. announced \subseteq announced'
    BY <1>2, Grows
  <2>2. ASSUME UNCHANGED sender, \A r \in Readers : packet'[r] \in {packet[r], 0} \cup packets
        PROVE  HeardInv'
    <3>1. jobs' \in Seq(announced')
      BY <2>1, <2>2, SeqMonotonic DEF HeardInv, sender
    <3>2. QED
      BY <2>1, <2>2, <3>1 DEF HeardInv, sender
  <2>3. CASE Hear
    <3>1. PICK k \in announced : known' = k /\ jobs' = Append(jobs, k)
      BY <2>3 DEF Hear
    <3>2. jobs' \in Seq(announced)
      BY <3>1, AppendProperties DEF HeardInv
    <3>3. QED
      BY <2>3, <3>1, <3>2 DEF Hear, HeardInv, owner
  <2>4. CASE Store
    <3>1. Len(jobs) \in Nat /\ jobs \in [1 .. Len(jobs) -> announced] /\ Len(<< >>) = 0
      BY LenProperties, EmptySeq DEF HeardInv
    <3>2. /\ Head(jobs) \in announced /\ Tail(jobs) \in Seq(announced)
          /\ Len(Tail(jobs)) = Len(jobs) - 1
      BY <2>4, HeadTailProperties DEF Store, HeardInv
    <3>3. CASE stored' = Head(jobs) /\ jobs' = Tail(jobs)
      BY <2>4, <3>2, <3>3 DEF Store, HeardInv, owner
    <3>4. CASE Len(jobs) > 1 /\ stored' = jobs[2] /\ jobs' = <<Head(jobs)>> \o Tail(Tail(jobs))
      <4>1. jobs[2] \in announced
        BY <3>1, <3>4
      <4>2. Tail(jobs) = << >> => Len(Tail(jobs)) = 0
        BY <3>1, Zenon
      <4>3. Tail(jobs) # << >>
        BY <3>1, <3>2, <3>4, <4>2
      <4>4. Tail(Tail(jobs)) \in Seq(announced)
        BY <3>2, <4>3, HeadTailProperties
      <4>5. jobs' \in Seq(announced)
        BY <3>2, <3>4, <4>4
      <4>6. QED
        BY <2>4, <3>4, <4>1, <4>5 DEF Store, HeardInv, owner
    <3>5. QED
      BY <2>4, <3>3, <3>4 DEF Store
  <2>5. CASE Send
    BY <2>5 DEF Send, HeardInv, owner
  <2>6. CASE Restart
    <3>1. << >> \in Seq(announced)
      BY EmptySeq
    <3>2. QED
      BY <2>6, <3>1 DEF Restart, HeardInv, owner
  <2>7. CASE Expire
    BY <2>7 DEF Expire, HeardInv, owner
  <2>8. QED
    BY <1>2, <2>2, <2>3, <2>4, <2>5, <2>6, <2>7, OwnerLeaves DEF Next
<1>3. QED
  BY <1>1, <1>2

\* The last thread that stores a ratchet has the known one.
LEMMA StoreStep == TypeOK /\ StoreInv /\ [Next]_vars => StoreInv'
<1> SUFFICES ASSUME TypeOK, StoreInv, [Next]_vars, past' \cap {"OVERTAKE", "EXPIRY"} = {}
             PROVE  IF jobs' = << >> THEN known' \in {0, stored'} ELSE known' = jobs'[Len(jobs')]
  BY DEF StoreInv
<1>1. CASE UNCHANGED vars
  BY <1>1 DEF vars, sender, StoreInv
<1>2. CASE Next
  <2>1. IF jobs = << >> THEN known \in {0, stored} ELSE known = jobs[Len(jobs)]
    BY <1>2, Grows DEF StoreInv
  <2>2. CASE UNCHANGED sender
    BY <2>1, <2>2 DEF sender
  <2>3. Len(jobs) \in Nat /\ Len(<< >>) = 0 /\ jobs \in Seq(1 .. generated)
    BY LenProperties, EmptySeq DEF TypeOK
  <2>4. CASE Hear
    <3>1. PICK k \in announced : known' = k /\ jobs' = Append(jobs, k)
      BY <2>4 DEF Hear
    <3>2. k \in 1 .. generated
      BY DEF TypeOK, Lists
    <3>3. Len(jobs') = Len(jobs) + 1 /\ jobs'[Len(jobs')] = k
      BY <2>3, <3>1, <3>2, AppendProperties
    <3>4. jobs' = << >> => Len(jobs') = 0
      BY <2>3, Zenon
    <3>5. QED
      BY <2>3, <3>1, <3>3, <3>4
  <2>5. CASE Store
    <3>1. jobs # << >> /\ stored' = Head(jobs) /\ jobs' = Tail(jobs) /\ known' = known
      BY <2>5 DEF Store, Mishap
    <3>2. /\ Len(jobs) \in Nat \ {0} /\ Tail(jobs) \in Seq(1 .. generated)
          /\ Len(Tail(jobs)) = Len(jobs) - 1 /\ Head(jobs) = jobs[1]
          /\ \A i \in 1 .. Len(Tail(jobs)) : Tail(jobs)[i] = jobs[i + 1]
      BY <2>3, <3>1, HeadTailProperties, EmptySeq
    <3>3. CASE Tail(jobs) = << >>
      <4>1. Len(jobs) = 1
        <5>1. Tail(jobs) = << >> => Len(Tail(jobs)) = 0
          BY <2>3, Zenon
        <5>2. QED
          BY <3>2, <3>3, <5>1
      <4>2. QED
        BY <2>1, <3>1, <3>2, <3>3, <4>1
    <3>4. CASE Tail(jobs) # << >>
      <4>1. Len(Tail(jobs)) \in Nat \ {0}
        BY <3>2, <3>4, EmptySeq
      <4>2. Tail(jobs)[Len(Tail(jobs))] = jobs[Len(jobs)]
        BY <3>2, <4>1
      <4>3. QED
        BY <2>1, <3>1, <3>4, <4>2
    <3>5. QED
      BY <3>3, <3>4
  <2>6. CASE Send
    <3>1. CASE jobs = << >>
      BY <2>1, <2>6, <3>1 DEF Send
    <3>2. CASE jobs # << >>
      <4>1. Len(jobs) \in Nat \ {0}
        BY <2>3, <3>2, EmptySeq
      <4>2. jobs[Len(jobs)] \in 1 .. generated
        <5>1. Len(jobs) \in 1 .. Len(jobs)
          BY <4>1
        <5>2. QED
          BY <2>3, <5>1, ElementOfSeq
      <4>3. known = jobs[Len(jobs)] /\ known # 0
        BY <2>1, <3>2, <4>2
      <4>4. QED
        BY <2>6, <3>2, <4>3 DEF Send
    <3>3. QED
      BY <3>1, <3>2
  <2>7. CASE Restart
    BY <2>7 DEF Restart
  <2>8. CASE Expire
    <3>1. past' = past \cup {"EXPIRY"}
      BY <2>8 DEF Expire, Mishap
    <3>2. "EXPIRY" \in past' \cap {"OVERTAKE", "EXPIRY"}
      BY <3>1
    <3>3. QED
      BY <3>2
  <2>9. QED
    BY <1>2, <2>2, <2>4, <2>5, <2>6, <2>7, <2>8, OwnerLeaves DEF Next
<1>3. QED
  BY <1>1, <1>2

-----------------------------------------------------------------------------
(***************************************************************************)
(* What the destination keeps.                                             *)
(***************************************************************************)

\* A ratchet that is missing where all recent ones are is none of them.
LEMMA MissingIsOld ==
  ASSUME NumbersAssumption, TypeOK, NEW s, Recent \subseteq s, NEW k \in announced \cup {0}, k \notin s
  PROVE  k = 0 \/ k + Kept <= generated
<1>1. Kept \in Nat
  BY DEF Kept, NumbersAssumption
<1>2. k = 0 \/ (k \in announced /\ k \notin Recent /\ k \in 1 .. generated)
  BY DEF TypeOK, Lists
<1>3. QED
  BY <1>1, <1>2 DEF Recent, TypeOK

\* Without a crash the threads do not lose the lock to each other.
LEMMA LockStep == TypeOK /\ LockInv /\ [Next]_vars => LockInv'
<1> SUFFICES ASSUME TypeOK, LockInv, [Next]_vars PROVE LockInv'
  OBVIOUS
<1>1. pc \in [Threads -> Places]
  BY DEF TypeOK
<1>2. ASSUME NEW t \in Threads, NEW place, Go(t, place), up' = up, up,
             place \notin {"WRITTEN", "UNLINKED"},
             lock' = lock \/ (lock = {t} /\ lock' = {})
      PROVE  LockInv'
  BY <1>1, <1>2 DEF Go, LockInv
<1>3. ASSUME UNCHANGED <<pc, lock>>, up => up' PROVE LockInv'
  BY <1>3 DEF LockInv
<1>4. CASE UNCHANGED vars
  BY <1>3, <1>4 DEF vars, owner
<1>5. CASE Hear \/ Store \/ Send \/ Restart \/ Expire
  BY <1>3, <1>5 DEF Hear, Store, Send, Restart, Expire, owner
<1>6. CASE Enable
  BY <1>3, <1>6 DEF Enable
<1>7. CASE Crash
  BY <1>7 DEF Crash, LockInv
<1>8. ASSUME NEW t \in Threads, WriteTemp(t) PROVE LockInv'
  <2>1. up
    BY <1>8 DEF WriteTemp, LockInv
  <2>2. CASE lock = {} /\ lock' = {t} /\ Go(t, "WRITTEN")
    BY <1>1, <1>8, <2>1, <2>2 DEF WriteTemp, Go, LockInv
  <2>3. CASE Go(t, "IDLE") /\ lock' = lock
    BY <1>2, <1>8, <2>1, <2>3 DEF WriteTemp
  <2>4. QED
    BY <1>8, <2>2, <2>3 DEF WriteTemp
<1>9. ASSUME NEW t \in Threads, Unlink(t) PROVE LockInv'
  BY <1>1, <1>9 DEF Unlink, Go, LockInv
<1>10. ASSUME NEW t \in Threads, Rename(t) \/ PersistFails(t) PROVE LockInv'
  <2>1. lock = {t} /\ lock' = {} /\ up /\ up' = up
    BY <1>10 DEF Rename, PersistFails, LockInv
  <2>2. Go(t, "IDLE") \/ Go(t, "ANNOUNCE")
    BY <1>10 DEF Rename, PersistFails
  <2>3. QED
    BY <1>2, <2>1, <2>2
<1>11. ASSUME NEW t \in Threads, Rotate(t) \/ KeepRatchet(t) \/ Announce(t) PROVE LockInv'
  <2>1. up /\ up' = up /\ lock' = lock
    BY <1>11 DEF Rotate, KeepRatchet, Announce, LockInv
  <2>2. Go(t, "PERSIST") \/ Go(t, "ANNOUNCE") \/ Go(t, "IDLE")
    BY <1>11 DEF Rotate, KeepRatchet, Announce
  <2>3. QED
    BY <1>2, <2>1, <2>2
<1>12. ASSUME NEW t \in Threads, Receive(t) \/ Reload(t) \/ ReloadGap(t) PROVE LockInv'
  <2>1. up /\ up' = up /\ lock' = lock
    BY <1>12 DEF Receive, Reload, ReloadGap, LockInv
  <2>2. Go(t, "RELOAD") \/ Go(t, "PERSIST") \/ Go(t, "IDLE") \/ pc' = pc
    BY <1>12 DEF Receive, Reload, ReloadGap
  <2>3. QED
    BY <1>2, <1>3, <2>1, <2>2
<1>13. QED
  BY <1>4, <1>5, <1>6, <1>7, <1>8, <1>9, <1>10, <1>11, <1>12 DEF Next, Persist, Threads

\* Where nothing new is announced, nothing becomes recent.
LEMMA RecentShrinks ==
  ASSUME TypeOK, NumbersAssumption, generated' \in {generated, generated + 1}, announced' = announced
  PROVE  Recent' \subseteq Recent
<1>1. Kept \in Nat /\ Kept' = Kept
  BY DEF Kept, NumbersAssumption
<1>2. ASSUME NEW k \in announced, k + Kept > generated' PROVE k + Kept > generated
  <2>1. k \in Nat
    BY DEF TypeOK, Lists
  <2>2. QED
    BY <1>1, <1>2, <2>1 DEF TypeOK
<1>3. QED
  BY <1>1, <1>2 DEF Recent

\* A thread announces a ratchet that the list and the file have, and the temporary
\* file if it may become the file.
LEMMA AnnounceKeeps ==
  ASSUME NumbersAssumption, TypeOK, LockInv, FileInv, Undisturbed', NEW t \in Threads, Announce(t)
  PROVE  FileInv'
<1>1. /\ up' = up /\ ratchets' = ratchets /\ file' = file /\ temp' = temp /\ up
      /\ pc \in [Threads -> Places] /\ pc' = [pc EXCEPT ![t] = "IDLE"]
      /\ generated' = generated /\ pc[t] = "ANNOUNCE"
  BY DEF Announce, Go, TypeOK, LockInv
<1>2. /\ AtMostOne(ratchets') /\ AtMostOne(file') /\ (up' => ratchets' # {})
      /\ NotInBetween' = NotInBetween
      /\ file' = {} => \E u \in Threads : pc'[u] = "UNLINKED"
      /\ \A u \in Threads : pc'[u] \in {"WRITTEN", "UNLINKED"} => pc[u] = pc'[u]
  BY <1>1 DEF FileInv, AtMostOne, NotInBetween, Latest
<1>3. ASSUME \A s \in ratchets \cup file : Recent' \subseteq s,
             \A u \in Threads : pc[u] \in {"WRITTEN", "UNLINKED"} => Recent' \subseteq temp
      PROVE  FileInv'
  BY <1>1, <1>2, <1>3 DEF FileInv
<1>4. CASE ~ \E s \in ratchets : s # {}
  <2>1. Recent' = Recent
    BY <1>1, <1>4 DEF Announce, Recent
  <2>2. QED
    BY <1>3, <2>1 DEF FileInv
<1>5. CASE \E s \in ratchets : s # {}
  <2> DEFINE k == Latest(UNION ratchets)
  <2>1. UNION ratchets \in SUBSET (1 .. generated) /\ UNION ratchets # {}
    BY <1>5 DEF TypeOK, Lists
  <2>2. k \in UNION ratchets
    BY <2>1, LatestFacts DEF TypeOK
  <2>3. announced' = announced \cup {k} /\ k \in Saved
    BY <1>5 DEF Announce, Undisturbed
  <2>4. Recent' \subseteq Recent \cup {k}
    BY <1>1, <2>3 DEF Recent
  <2>5. \A s \in ratchets : k \in s
    BY <2>2 DEF FileInv, AtMostOne
  <2>6. CASE file = {}
    <3>1. k \in temp
      BY <2>3, <2>6 DEF Saved
    <3>2. QED
      BY <1>3, <2>4, <2>5, <2>6, <3>1 DEF FileInv
  <2>7. CASE file # {}
    <3>1. \A s \in file : k \in s
      BY <2>3, <2>7 DEF Saved, FileInv, AtMostOne
    <3>2. ASSUME NEW u \in Threads, pc[u] \in {"WRITTEN", "UNLINKED"} PROVE k \in temp
      BY <2>1, <2>3, <2>7, <3>2 DEF Saved, FileInv, NotInBetween
    <3>3. QED
      BY <1>3, <2>4, <2>5, <3>1, <3>2 DEF FileInv
  <2>8. QED
    BY <2>6, <2>7
<1>6. QED
  BY <1>4, <1>5

\* A step that leaves the lists and files alone, and no thread in another place
\* among those where it has the lock.
LEMMA FileFrame ==
  ASSUME FileInv, UNCHANGED <<up, generated, ratchets, file, temp, announced>>,
         \A u \in Threads : \/ pc'[u] = pc[u]
                            \/ {pc[u], pc'[u]} \cap {"WRITTEN", "UNLINKED"} = {}
  PROVE  FileInv'
<1>1. Recent' = Recent /\ NotInBetween' = NotInBetween
  BY DEF Recent, NotInBetween, Latest
<1>2. \A u \in Threads : \A place \in {"WRITTEN", "UNLINKED"} : pc'[u] = place <=> pc[u] = place
  OBVIOUS
<1>3. QED
  BY <1>1, <1>2 DEF FileInv, AtMostOne

\* A new ratchet pushes no recent one out of the list, and is in no file yet.
LEMMA RotateKeeps ==
  ASSUME NumbersAssumption, TypeOK, LockInv, FileInv, NEW t \in Threads, Rotate(t)
  PROVE  FileInv'
<1>1. PICK s \in ratchets : ratchets' = {Cleaned(s \cup {generated + 1})}
  BY DEF Rotate
<1> DEFINE all == s \cup {generated + 1}
           new == Cleaned(all)
<1>2. /\ up' = up /\ up /\ file' = file /\ temp' = temp /\ announced' = announced
      /\ generated' = generated + 1 /\ pc[t] = "IDLE" /\ pc' = [pc EXCEPT ![t] = "PERSIST"]
      /\ generated \in Nat /\ pc \in [Threads -> Places]
  BY DEF Rotate, Go, TypeOK
<1>3. Recent' \subseteq Recent
  BY <1>2, RecentShrinks
<1>4. all \in SUBSET (1 .. generated + 1) /\ generated + 1 \in Nat
  <2>1. s \subseteq 1 .. generated
    BY DEF TypeOK, Lists
  <2>2. QED
    BY <1>2, <2>1
<1>5. new \subseteq all /\ \A k \in all : k + Kept > generated + 1 => k \in new
  BY <1>4, CleanedFacts
<1>6. Recent' \subseteq new
  <2>1. SUFFICES ASSUME NEW k \in Recent' PROVE k \in new
    OBVIOUS
  <2>2. k \in s
    BY <1>3 DEF FileInv
  <2>3. k + Kept > generated + 1
    BY <1>2 DEF Recent, Kept
  <2>4. QED
    BY <1>5, <2>2, <2>3
<1>7. generated + 1 \in new
  <2>1. Kept \in Nat \ {0}
    BY DEF Kept, NumbersAssumption
  <2>2. generated + 1 \in all /\ generated + 1 + Kept > generated + 1
    BY <1>2, <2>1
  <2>3. QED
    BY <1>5, <2>2
<1>8. Latest(new) = generated + 1
  <2>1. new \in SUBSET (1 .. generated + 1) /\ new # {}
    BY <1>4, <1>5, <1>7
  <2>2. /\ Latest(new) \in new
        /\ \A j \in new : j <= Latest(new)
    <3> HIDE DEF new
    <3> QED
      BY <1>4, <2>1, LatestFacts
  <2>3. Latest(new) \in 1 .. generated + 1 /\ generated + 1 <= Latest(new)
    BY <1>7, <2>1, <2>2
  <2>4. QED
    BY <1>2, <2>3
<1>9. NotInBetween'
  <2>1. UNION ratchets' = new
    BY <1>1
  <2>2. generated + 1 \notin UNION file
    BY <1>2 DEF TypeOK, Lists
  <2>3. QED
    BY <1>2, <1>8, <2>1, <2>2 DEF NotInBetween, Latest
<1>10. \A u \in Threads : \A place \in {"WRITTEN", "UNLINKED"} : pc'[u] = place <=> pc[u] = place
  BY <1>2
<1>11. AtMostOne(ratchets') /\ AtMostOne(file') /\ \A x \in ratchets' : Recent' \subseteq x
  BY <1>1, <1>2, <1>6 DEF AtMostOne, FileInv
<1>12. /\ up' => ratchets' # {}
       /\ \A x \in file' : Recent' \subseteq x
       /\ file' = {} => \E u \in Threads : pc'[u] = "UNLINKED"
       /\ \A u \in Threads : pc'[u] = "UNLINKED" => file' = {}
       /\ \A u \in Threads : pc'[u] \in {"WRITTEN", "UNLINKED"} => Recent' \subseteq temp'
  BY <1>1, <1>2, <1>3, <1>10 DEF FileInv
<1>13. QED
  BY <1>9, <1>11, <1>12 DEF FileInv

\* A thread that writes the file has what the list has.
LEMMA PersistKeeps ==
  ASSUME TypeOK, LockInv, FileInv, NEW t \in Threads, WriteTemp(t) \/ Unlink(t) \/ Rename(t)
  PROVE  FileInv'
<1>1. /\ generated' = generated /\ announced' = announced /\ up' = up /\ ratchets' = ratchets
      /\ pc \in [Threads -> Places] /\ pc[t] # "IDLE"
  BY DEF WriteTemp, Unlink, Rename, TypeOK
<1>2. up /\ ratchets # {} /\ Recent' = Recent
  BY <1>1 DEF LockInv, FileInv, Recent
<1>3. CASE WriteTemp(t)
  <2>1. PICK s \in ratchets : temp' = s /\ lock = {} /\ Go(t, "WRITTEN")
    BY <1>2, <1>3 DEF WriteTemp
  <2>2. \A u \in Threads : pc[u] \notin {"WRITTEN", "UNLINKED"}
    BY <2>1 DEF LockInv
  <2>3. file # {} /\ file' = file
    BY <1>2, <1>3, <2>2 DEF WriteTemp, FileInv
  <2>4. NotInBetween'
    <3>1. UNION ratchets = s
      BY <2>1 DEF FileInv, AtMostOne
    <3>2. s \in SUBSET (1 .. generated) /\ generated \in Nat
      BY DEF TypeOK, Lists
    <3>3. s # {} => Latest(s) \in s
      BY <3>2, LatestFacts
    <3>4. UNION ratchets' = s /\ temp' = s
      BY <1>1, <2>1, <3>1
    <3>5. QED
      BY <3>3, <3>4 DEF NotInBetween
  <2>5. \A u \in Threads : pc'[u] # "UNLINKED"
    BY <1>1, <2>1, <2>2 DEF Go
  <2>6. QED
    BY <1>1, <1>2, <2>1, <2>3, <2>4, <2>5 DEF FileInv, AtMostOne
<1>4. CASE Unlink(t)
  <2>1. lock = {t} /\ \A u \in Threads \ {t} : pc[u] \notin {"WRITTEN", "UNLINKED"}
    BY <1>4 DEF Unlink, LockInv
  <2>2. file' = {} /\ temp' = temp /\ pc'[t] = "UNLINKED" /\ Recent \subseteq temp
    BY <1>1, <1>4 DEF Unlink, Go, FileInv
  <2>3. \A u \in Threads : pc'[u] # "WRITTEN"
    BY <1>1, <1>4, <2>1 DEF Unlink, Go
  <2>4. QED
    BY <1>1, <1>2, <2>2, <2>3 DEF FileInv, AtMostOne
<1>5. CASE Rename(t)
  <2>1. lock = {t} /\ \A u \in Threads \ {t} : pc[u] \notin {"WRITTEN", "UNLINKED"}
    BY <1>5 DEF Rename, LockInv
  <2>2. file' = {temp} /\ temp' = temp /\ Recent \subseteq temp
    BY <1>5 DEF Rename, FileInv
  <2>3. \A u \in Threads : pc'[u] \notin {"WRITTEN", "UNLINKED"}
    BY <1>1, <1>5, <2>1 DEF Rename, Go
  <2>4. QED
    BY <1>1, <1>2, <2>2, <2>3 DEF FileInv, AtMostOne
<1>6. QED
  BY <1>3, <1>4, <1>5

\* Start, crash, and what is read from the file.
LEMMA RestartKeeps ==
  ASSUME TypeOK, LockInv, FileInv, Undisturbed',
         Enable \/ Crash \/ \E t \in Readers : Reload(t)
  PROVE  FileInv'
<1>1. generated' = generated /\ announced' = announced /\ temp' = temp
  BY DEF Enable, Crash, Reload
<1>2. Recent' = Recent
  BY <1>1 DEF Recent
<1>3. CASE Enable
  <2>1. ~up /\ \A u \in Threads : pc[u] = "IDLE" /\ pc'[u] = "IDLE"
    BY <1>3 DEF Enable, LockInv
  <2>2. CASE file = {}
    <3>1. Recent = {} /\ ratchets' = {{}} /\ file' = {{}}
      BY <1>3, <2>1, <2>2 DEF Enable, FileInv, Recent
    <3>2. QED
      BY <1>2, <2>1, <3>1 DEF FileInv, AtMostOne
  <2>3. CASE file # {}
    BY <1>2, <1>3, <2>1, <2>3 DEF Enable, FileInv, AtMostOne
  <2>4. QED
    BY <2>2, <2>3
<1>4. CASE Crash
  <2>1. file # {} /\ file' = file /\ ~up' /\ ratchets' = {}
    BY <1>4 DEF Crash, Undisturbed
  <2>2. \A u \in Threads : pc'[u] = "IDLE"
    BY <1>4 DEF Crash
  <2>3. QED
    BY <1>2, <2>1, <2>2 DEF FileInv, AtMostOne
<1>5. ASSUME NEW t \in Readers, Reload(t) PROVE FileInv'
  <2>1. t \in Threads /\ pc \in [Threads -> Places]
    BY DEF Threads, TypeOK
  <2>2. up /\ up' = up /\ \A u \in Threads : pc[u] \notin {"WRITTEN", "UNLINKED"}
    BY <1>5, <2>1 DEF Reload, LockInv
  <2>3. file # {} /\ file' = file /\ ratchets' = file
    BY <1>5, <2>2 DEF Reload, FileInv
  <2>4. \A u \in Threads : pc'[u] \notin {"WRITTEN", "UNLINKED"}
    BY <1>5, <2>1, <2>2 DEF Reload, Go
  <2>5. QED
    BY <1>2, <2>2, <2>3, <2>4 DEF FileInv, AtMostOne
<1>6. QED
  BY <1>3, <1>4, <1>5

\* What is lost in a step is in no list.
LEMMA NewlyLost ==
  ASSUME NumbersAssumption, TypeOK, HeardInv, LockInv, FileInv, Undisturbed', Next,
         NEW k \in lost', k \notin lost
  PROVE  k = 0 \/ k + Kept <= generated
<1>1. ASSUME NEW s \in ratchets \cup file, k \in announced \cup {0}, k \notin s
      PROVE  k = 0 \/ k + Kept <= generated
  BY <1>1, MissingIsOld DEF FileInv
<1>2. ASSUME NEW t \in Threads, k \in Tried(t), up
      PROVE  k = 0 \/ k + Kept <= generated
  <2>1. PICK s \in ratchets : TRUE
    BY <1>2 DEF FileInv
  <2>2. k \notin s /\ k \in announced \cup {0}
    BY <1>2 DEF Tried, HeardInv
  <2>3. QED
    BY <1>1, <2>1, <2>2
<1>3. ASSUME NEW t \in Threads, Persist(t) PROVE k = 0 \/ k + Kept <= generated
  <2>1. up
    BY <1>3 DEF Persist, WriteTemp, Unlink, Rename, PersistFails, LockInv
  <2>2. CASE WriteTemp(t) \/ Rename(t)
    <3>1. k \in Tried(t)
      BY <2>2 DEF WriteTemp, Rename
    <3>2. QED
      BY <1>2, <2>1, <3>1
  <2>3. CASE Unlink(t)
    BY <2>3 DEF Unlink
  <2>4. CASE PersistFails(t)
    <3>1. "IO" \in past' \cap {"GAP", "IO", "UNSAVED"}
      BY <2>4 DEF PersistFails, Mishap
    <3>2. QED
      BY <3>1 DEF Undisturbed
  <2>5. QED
    BY <1>3, <2>2, <2>3, <2>4 DEF Persist
<1>4. ASSUME NEW t \in Readers, Receive(t) PROVE k = 0 \/ k + Kept <= generated
  <2>1. k \in packets /\ k \notin UNION ratchets /\ up
    BY <1>4 DEF Receive, Opens
  <2>2. PICK s \in ratchets : TRUE
    BY <2>1 DEF FileInv
  <2>3. k \notin s /\ k \in announced \cup {0}
    BY <2>1, <2>2 DEF HeardInv
  <2>4. QED
    BY <1>1, <2>2, <2>3
<1>5. ASSUME NEW t \in Readers, Reload(t) PROVE k = 0 \/ k + Kept <= generated
  <2>1. k = packet[t] /\ k \notin UNION file
    BY <1>5 DEF Reload, Opens
  <2>2. t \in Threads /\ up /\ \A u \in Threads : pc[u] # "UNLINKED"
    BY <1>5 DEF Reload, LockInv, Threads
  <2>3. PICK s \in file : TRUE
    BY <2>2 DEF FileInv
  <2>4. k \notin s /\ k \in announced \cup {0}
    BY <2>1, <2>3 DEF HeardInv
  <2>5. QED
    BY <1>1, <2>3, <2>4
<1>6. ASSUME lost' = lost PROVE k = 0 \/ k + Kept <= generated
  BY <1>6
<1>7. QED
  BY <1>3, <1>4, <1>5, <1>6 DEF Next, Enable, Crash, Rotate, KeepRatchet, Announce, ReloadGap,
     Hear, Store, Send, Restart, Expire, owner

\* The invariant of the destination.
LEMMA KeepStep ==
  NumbersAssumption /\ TypeOK /\ HeardInv /\ KeepInv /\ [Next]_vars => KeepInv'
<1> SUFFICES ASSUME NumbersAssumption, TypeOK, HeardInv, KeepInv, [Next]_vars, Undisturbed'
             PROVE  FileInv' /\ \A k \in lost' : k = 0 \/ k + Kept' <= generated'
  BY LockStep DEF KeepInv, NothingLost, Undisturbed
<1>1. CASE UNCHANGED vars
  <2>1. Undisturbed
    BY <1>1 DEF vars, Undisturbed
  <2>2. FileInv'
    BY <1>1, <2>1, FileFrame DEF vars, owner, KeepInv
  <2>3. QED
    BY <1>1, <2>1, <2>2 DEF vars, owner, KeepInv, NothingLost, Undisturbed, Kept
<1>2. CASE Next
  <2>1. Undisturbed
    BY <1>2, Grows DEF Undisturbed
  <2>2. /\ LockInv /\ FileInv
        /\ \A k \in lost : k = 0 \/ k + Kept <= generated
    BY <2>1 DEF KeepInv, NothingLost, Undisturbed
  <2>3. ASSUME NEW k \in lost' PROVE k = 0 \/ k + Kept' <= generated'
    <3>1. k = 0 \/ k + Kept <= generated
      BY <1>2, <2>2, NewlyLost
    <3>2. generated' \in {generated, generated + 1} /\ Kept' = Kept
      BY <1>2 DEF Next, Enable, Crash, Persist, WriteTemp, Unlink, Rename, PersistFails, Rotate,
         KeepRatchet, Announce, Receive, Reload, ReloadGap, Hear, Store, Send, Restart, Expire,
         owner, Kept
    <3>3. Kept \in Nat /\ generated \in Nat /\ k \in Nat
      <4>1. TypeOK'
        BY <1>2, TypeStep
      <4>2. QED
        BY <4>1 DEF Kept, NumbersAssumption, TypeOK
    <3>4. QED
      BY <3>1, <3>2, <3>3
  <2>4. FileInv'
    <3>1. CASE Hear \/ Store \/ Send \/ Restart \/ Expire
      BY <2>2, <3>1, FileFrame DEF Hear, Store, Send, Restart, Expire, owner
    <3>2. CASE Enable \/ Crash \/ \E t \in Readers : Reload(t)
      BY <2>2, <3>2, RestartKeeps
    <3>3. ASSUME NEW t \in Threads, Persist(t) PROVE FileInv'
      <4>1. CASE PersistFails(t)
        <5>1. "IO" \in past' \cap {"GAP", "IO", "UNSAVED"}
          BY <4>1 DEF PersistFails, Mishap
        <5>2. QED
          BY <5>1 DEF Undisturbed
      <4>2. QED
        BY <2>2, <3>3, <4>1, PersistKeeps DEF Persist
    <3>4. ASSUME NEW t \in Announcers, Rotate(t) PROVE FileInv'
      BY <2>2, <3>4, RotateKeeps DEF Threads
    <3>5. ASSUME NEW t \in Announcers, Announce(t) PROVE FileInv'
      BY <2>2, <3>5, AnnounceKeeps DEF Threads
    <3>6. ASSUME NEW t \in Threads, KeepRatchet(t) \/ Receive(t) PROVE FileInv'
      <4>1. UNCHANGED <<up, generated, ratchets, file, temp, announced>>
        BY <3>6 DEF KeepRatchet, Receive
      <4>2. \A u \in Threads : pc'[u] = pc[u] \/ (pc[u] = "IDLE" /\ pc'[u] \in {"ANNOUNCE", "RELOAD"})
        BY <3>6 DEF KeepRatchet, Receive, Go, TypeOK
      <4>3. QED
        BY <2>2, <4>1, <4>2, FileFrame
    <3>7. ASSUME NEW t \in Readers, ReloadGap(t) PROVE FileInv'
      <4>1. "GAP" \in past' \cap {"GAP", "IO", "UNSAVED"}
        BY <3>7 DEF ReloadGap
      <4>2. QED
        BY <4>1 DEF Undisturbed
    <3>8. QED
      BY <1>2, <3>1, <3>2, <3>3, <3>4, <3>5, <3>6, <3>7 DEF Next, Threads
  <2>5. QED
    BY <2>3, <2>4
<1>3. QED
  BY <1>1, <1>2

-----------------------------------------------------------------------------
(***************************************************************************)
(* Theorems.                                                               *)
(***************************************************************************)

\* A packet encrypted to an announced ratchet is decrypted as long as the ratchet is
\* among those the destination promises to retain, through rotations by any number
\* of threads, reloads by any number of others, and crashes, unless one of the
\* mishaps named by NothingLost happened.
THEOREM NothingLostCorrect == Spec => []NothingLost
<1>1. Init => HeardInv /\ KeepInv
  <2>1. << >> \in Seq(announced)
    BY EmptySeq
  <2>2. Init => HeardInv
    BY <2>1 DEF Init, HeardInv
  <2>3. Init => KeepInv
    BY DEF Init, KeepInv, LockInv, FileInv, AtMostOne, NothingLost
  <2>4. QED
    BY <2>2, <2>3
<1>2. TypeOK /\ HeardInv /\ KeepInv /\ [Next]_vars => HeardInv' /\ KeepInv'
  BY NumbersAssumption, HeardStep, KeepStep
<1>3. KeepInv => NothingLost
  BY DEF KeepInv, NothingLost, Undisturbed
<1>4. QED
  BY <1>1, <1>2, <1>3, TypeCorrect, PTL DEF Spec

\* The file of a sender has the latest ratchet heard once the threads that store them
\* are done, unless one was overtaken: however often ratchets are heard and however
\* many threads there are at once.
THEOREM StoresLatestCorrect == Spec => []StoresLatest
<1>1. Init => StoreInv
  BY DEF Init, StoreInv
<1>2. TypeOK /\ StoreInv /\ [Next]_vars => StoreInv'
  BY StoreStep
<1>3. StoreInv => StoresLatest
  BY DEF StoreInv, StoresLatest
<1>4. QED
  BY <1>1, <1>2, <1>3, TypeCorrect, PTL DEF Spec
=============================================================================
