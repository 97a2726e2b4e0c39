------------------------------- MODULE Ratchets -------------------------------
(***************************************************************************)
(* The ratchets of a destination (RNS/Destination.py) and what a sender    *)
(* knows of them (RNS/Identity.py): rotation and announces, the file that  *)
(* is replaced under a lock, packets that cannot be decrypted and make the *)
(* destination read it again, crashes and restarts at both sides.  Several *)
(* threads announce, the application's and those that answer path          *)
(* requests, and several receive.  A ratchet is the number of its          *)
(* generation; a list of ratchets, which is newest first, is a set of      *)
(* them, and a file that may not exist a set of at most one such set.      *)
(***************************************************************************)
EXTENDS Integers, FiniteSets, Sequences

CONSTANTS
  Announcers,     \* threads that call announce()
  Readers,        \* threads that call receive()
  RATCHET_COUNT,
  Retained,       \* retained_ratchets
  Enforced,       \* enforce_ratchets() was called
  MaxRatchets,    \* ratchets that are generated
  MaxHeard,       \* announces the sender hears
  MaxMishaps,     \* mishaps that occur
  Faults          \* the mishaps that may occur:
                  \*   "CRASH"    the destination's program ends at once
                  \*   "IO"       the file cannot be written
                  \*   "RESTART"  the sender's program ends at once and starts
                  \*   "OVERTAKE" a thread that stores a ratchet is overtaken
                  \*   "EXPIRY"   a stored ratchet is too old to be read

Threads == Announcers \cup Readers

ASSUME ThreadsAssumption == Announcers \cap Readers = {}
ASSUME NumbersAssumption ==
  /\ {RATCHET_COUNT, Retained} \subseteq Nat \ {0} /\ {MaxRatchets, MaxHeard, MaxMishaps} \subseteq Nat
  /\ Enforced \in BOOLEAN
ASSUME FaultsAssumption == Faults \subseteq {"CRASH", "IO", "RESTART", "OVERTAKE", "EXPIRY"}

VARIABLES
  up,           \* whether the destination's program runs
  generated,    \* how many ratchets were generated
  due,          \* whether latest_ratchet_time is 0
  ratchets,     \* ratchets, in a set of at most one: none when it is None
  file,         \* the file at ratchets_path
  temp,         \* the ratchets in the temporary file
  lock,         \* ratchet_file_lock: the thread that has it, if any
  pc,           \* where the threads are
  packet,       \* what the packet that a reader has is encrypted to
  announced,    \* the ratchets announced
  known,        \* known_ratchets of the sender, 0 for none
  stored,       \* the sender's file, 0 if there is none
  jobs,         \* threads that store a ratchet, in the order of their start
  heard,        \* how many announces the sender heard
  packets,      \* what packets are encrypted to, 0 for the identity's key
  lost,         \* the same of those that were received and not decrypted
  past          \* the mishaps there were

owner  == <<up, generated, due, ratchets, file, temp, lock, pc, packet, announced, lost>>
sender == <<known, stored, jobs, heard, packets>>
vars   == <<owner, sender, past>>

-----------------------------------------------------------------------------
(***************************************************************************)
(* State.                                                                  *)
(***************************************************************************)

Mishap(kind) ==
  /\ kind \in Faults
  /\ Cardinality(past \cap Faults) < MaxMishaps
  /\ past' = past \cup {kind}

\* Where a thread may be: in announce(), in _persist_ratchets(), in _reload_ratchets().
Places == {"IDLE", "PERSIST", "WRITTEN", "UNLINKED", "ANNOUNCE", "RELOAD"}

Latest(s) == CHOOSE k \in s : \A j \in s : j <= k

Newest(s) == {k \in s : Cardinality({j \in s : j > k}) < RATCHET_COUNT}

\* _clean_ratchets()
Cleaned(s) == IF Cardinality(s) > Retained THEN Newest(s) ELSE s

Init ==
  /\ up = FALSE /\ generated = 0 /\ due = FALSE /\ ratchets = {} /\ file = {} /\ temp = {} /\ lock = {}
  /\ pc = [t \in Threads |-> "IDLE"] /\ packet = [t \in Readers |-> 0]
  /\ announced = {}
  /\ known = 0 /\ stored = 0 /\ jobs = << >> /\ heard = 0 /\ packets = {} /\ lost = {}
  /\ past = {}

\* What the file holds, or will once it is renamed.
Saved == IF file = {} THEN temp ELSE UNION file

Go(t, place) == pc' = [pc EXCEPT ![t] = place]

-----------------------------------------------------------------------------
(***************************************************************************)
(* The destination: announce() and rotate_ratchets().                      *)
(***************************************************************************)

\* enable_ratchets(), when the program starts.  A list that is not found is created.
Enable ==
  /\ ~up /\ up' = TRUE /\ due' = TRUE
  /\ ratchets' = IF file = {} THEN {{}} ELSE file
  /\ file' = ratchets'
  /\ UNCHANGED <<generated, temp, lock, pc, packet, announced, lost, sender, past>>

\* Another interval is over: a new ratchet.
Rotate(t) ==
  /\ up /\ pc[t] = "IDLE" /\ generated < MaxRatchets
  /\ generated' = generated + 1 /\ due' = FALSE
  /\ \E s \in ratchets : ratchets' = {Cleaned(s \cup {generated + 1})}
  /\ Go(t, "PERSIST")
  /\ UNCHANGED <<up, file, temp, lock, packet, announced, lost, sender, past>>

\* The interval is not over.
KeepRatchet(t) ==
  /\ up /\ pc[t] = "IDLE" /\ ~due /\ ratchets # {}
  /\ Go(t, "ANNOUNCE")
  /\ UNCHANGED <<up, generated, due, ratchets, file, temp, lock, packet, announced, lost, sender, past>>

\* The first of the list by now: another thread may have put one there that is not
\* in the file yet.  Without a list, or with an empty one, announce() raises an error.
Announce(t) ==
  /\ pc[t] = "ANNOUNCE" /\ Go(t, "IDLE")
  /\ IF \E s \in ratchets : s # {}
       THEN /\ announced' = announced \cup {Latest(UNION ratchets)}
            /\ past' = IF Latest(UNION ratchets) \in Saved THEN past ELSE past \cup {"UNSAVED"}
       ELSE UNCHANGED <<announced, past>>
  /\ UNCHANGED <<up, generated, due, ratchets, file, temp, lock, packet, lost, sender>>

-----------------------------------------------------------------------------
(***************************************************************************)
(* _persist_ratchets().                                                    *)
(***************************************************************************)

\* What a reader has left to try, with what there is by now.
Tried(t) == IF t \in Readers /\ packet[t] \notin UNION ratchets THEN {packet[t]} ELSE {}

\* With the lock, all ratchets go to a temporary file.  Without a list, an error.
WriteTemp(t) ==
  /\ pc[t] = "PERSIST"
  /\ \/ /\ \E s \in ratchets : temp' = s
        /\ lock = {} /\ lock' = {t}
        /\ Go(t, "WRITTEN")
        /\ UNCHANGED lost
     \/ /\ ratchets = {}
        /\ Go(t, "IDLE") /\ lost' = lost \cup Tried(t)
        /\ UNCHANGED <<lock, temp>>
  /\ UNCHANGED <<up, generated, due, ratchets, file, packet, announced, sender, past>>

Unlink(t) ==
  /\ pc[t] = "WRITTEN" /\ Go(t, "UNLINKED")
  /\ file' = {}
  /\ UNCHANGED <<up, generated, due, ratchets, temp, lock, packet, announced, lost, sender, past>>

\* An announcer goes on, a reader tries once more.
Rename(t) ==
  /\ pc[t] = "UNLINKED"
  /\ file' = {temp} /\ lock' = {}
  /\ IF t \in Announcers THEN Go(t, "ANNOUNCE") ELSE Go(t, "IDLE")
  /\ lost' = lost \cup Tried(t)
  /\ UNCHANGED <<up, generated, due, ratchets, temp, packet, announced, sender, past>>

\* An error: the destination goes on without ratchets.
PersistFails(t) ==
  /\ pc[t] \in {"WRITTEN", "UNLINKED"} /\ Mishap("IO")
  /\ ratchets' = {} /\ lock' = {}
  /\ Go(t, "IDLE")
  /\ lost' = lost \cup IF t \in Readers THEN {packet[t]} ELSE {}
  /\ UNCHANGED <<up, generated, due, file, temp, packet, announced, sender>>

-----------------------------------------------------------------------------
(***************************************************************************)
(* The destination: decrypt() and _reload_ratchets().                      *)
(***************************************************************************)

Opens(k, s) == k \in s \/ (k = 0 /\ ~Enforced)

\* A packet that no ratchet decrypts makes the destination read the file.
Receive(t) ==
  /\ up /\ pc[t] = "IDLE"
  /\ \E k \in packets :
       /\ ~Opens(k, UNION ratchets)
       /\ packet' = [packet EXCEPT ![t] = k]
       /\ IF UNION ratchets # {} THEN Go(t, "RELOAD") /\ UNCHANGED lost
          ELSE lost' = lost \cup {k} /\ UNCHANGED pc
  /\ UNCHANGED <<up, generated, due, ratchets, file, temp, lock, announced, sender, past>>

\* mutant: the file is read without the lock
ReloadUnlocked(t) ==
  /\ pc[t] = "RELOAD" /\ file # {}
  /\ ratchets' = file
  /\ lost' = IF Opens(packet[t], UNION file) THEN lost ELSE lost \cup {packet[t]}
  /\ Go(t, "IDLE")
  /\ UNCHANGED <<up, generated, due, file, temp, lock, packet, announced, sender, past>>

\* What is read replaces the list, with the lock.  A file that was there when it was
\* looked for may be gone since, if it could not be written again.
Reload(t) ==
  /\ pc[t] = "RELOAD" /\ lock = {}
  /\ ratchets' = file
  /\ lost' = IF Opens(packet[t], UNION file) THEN lost ELSE lost \cup {packet[t]}
  /\ Go(t, "IDLE")
  /\ UNCHANGED <<up, generated, due, file, temp, lock, packet, announced, sender, past>>

\* The look for the file, without the lock, comes before it was renamed: an empty
\* list is created.
ReloadGap(t) ==
  /\ pc[t] = "RELOAD" /\ file = {}
  /\ ratchets' = {{}}
  /\ Go(t, "PERSIST")
  /\ past' = past \cup {"GAP"}
  /\ UNCHANGED <<up, generated, due, file, temp, lock, packet, announced, lost, sender>>

Crash ==
  /\ up /\ Cardinality(past \cap Faults) < MaxMishaps /\ "CRASH" \in Faults
  /\ past' = past \cup {"CRASH"} \cup (IF file = {} THEN {"GAP"} ELSE {})
  /\ up' = FALSE /\ ratchets' = {} /\ lock' = {}
  /\ pc' = [t \in Threads |-> "IDLE"] /\ packet' = [t \in Readers |-> 0]
  /\ UNCHANGED <<generated, due, file, temp, announced, lost, sender>>

-----------------------------------------------------------------------------
(***************************************************************************)
(* The sender: _remember_ratchet(), get_ratchet().                         *)
(***************************************************************************)

\* mutant: no thread is started while another one has not ended
HearQuietly ==
  /\ heard < MaxHeard /\ heard' = heard + 1
  /\ \E k \in announced :
       /\ k # known /\ known' = k
       /\ jobs' = IF jobs = << >> THEN <<k>> ELSE jobs
  /\ UNCHANGED <<owner, stored, packets, past>>

\* validate_announce(), of any announce there was, an old one too.
Hear ==
  /\ heard < MaxHeard /\ heard' = heard + 1
  /\ \E k \in announced :
       /\ k # known /\ known' = k
       /\ jobs' = Append(jobs, k)
  /\ UNCHANGED <<owner, stored, packets, past>>

\* persist_job(), with its own lock; the file is replaced at once.
Store ==
  /\ jobs # << >>
  /\ \/ stored' = Head(jobs) /\ jobs' = Tail(jobs) /\ UNCHANGED past
     \/ /\ Len(jobs) > 1 /\ Mishap("OVERTAKE")
        /\ stored' = jobs[2] /\ jobs' = <<Head(jobs)>> \o Tail(Tail(jobs))
  /\ UNCHANGED <<owner, known, heard, packets>>

\* encrypt(), with the ratchet in the file if none is known.
Send ==
  /\ known' = IF known = 0 THEN stored ELSE known
  /\ packets' = packets \cup {known'}
  /\ UNCHANGED <<owner, stored, jobs, heard, past>>

Restart ==
  /\ Mishap("RESTART")
  /\ known' = 0 /\ jobs' = << >>
  /\ UNCHANGED <<owner, stored, heard, packets>>

\* RATCHET_EXPIRY has passed: _clean_ratchets(), get_ratchet().
Expire ==
  /\ stored # 0 /\ stored' = 0
  /\ Mishap("EXPIRY")
  /\ UNCHANGED <<owner, known, jobs, heard, packets>>

-----------------------------------------------------------------------------
Persist(t) == WriteTemp(t) \/ Unlink(t) \/ Rename(t) \/ PersistFails(t)

Next ==
  \/ Enable \/ Crash
  \/ \E t \in Threads : Persist(t)
  \/ \E t \in Announcers : Rotate(t) \/ KeepRatchet(t) \/ Announce(t)
  \/ \E t \in Readers : Receive(t) \/ Reload(t) \/ ReloadGap(t)
  \/ Hear \/ Store \/ Send \/ Restart \/ Expire

Spec == Init /\ [][Next]_vars

-----------------------------------------------------------------------------
(***************************************************************************)
(* Properties.                                                             *)
(***************************************************************************)

Lists == SUBSET (1 .. generated)

TypeOK ==
  /\ up \in BOOLEAN /\ due \in BOOLEAN /\ generated \in Nat
  /\ ratchets \subseteq Lists /\ file \subseteq Lists /\ temp \in Lists
  /\ lock \subseteq Threads /\ pc \in [Threads -> Places]
  /\ packet \in [Readers -> 0 .. generated] /\ announced \in Lists
  /\ {known, stored} \subseteq 0 .. generated /\ jobs \in Seq(1 .. generated) /\ heard \in Nat
  /\ packets \subseteq 0 .. generated /\ lost \subseteq 0 .. generated
  /\ past \subseteq Faults \cup {"GAP", "UNSAVED"}

\* How many ratchets a destination promises to retain.
Kept == IF Retained < RATCHET_COUNT THEN Retained ELSE RATCHET_COUNT

\* A packet encrypted to a ratchet is decrypted as long as the ratchet is retained,
\* also after a crash, unless the file was looked for, or left, between its removal
\* and the renaming, it could not be written, or a thread announced a ratchet that
\* another one had not written yet.
NothingLost ==
  past \cap {"GAP", "IO", "UNSAVED"} = {} => \A k \in lost : k = 0 \/ k + Kept <= generated

\* When no thread is under way, what a sender would know after a restart is what it
\* knows, unless a thread was overtaken.
StoresLatest ==
  jobs = << >> /\ past \cap {"OVERTAKE", "EXPIRY"} = {} => known \in {0, stored}
=============================================================================
