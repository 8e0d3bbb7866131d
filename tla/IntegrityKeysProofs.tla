------------------------- MODULE IntegrityKeysProofs -------------------------
(***************************************************************************)
(* Proofs about the integrity key and its rotation, for every set of keys, *)
(* every combination of faults and any number of records.                  *)
(*                                                                         *)
(* The argument.  A power loss leaves any prefix of a file that is as long *)
(* as what was fsynced, so what has to be kept by every step is not that   *)
(* the two files open, but that every pair of prefixes the disk may still  *)
(* be left with does, with a key the operator was led to use (Survivors).  *)
(* A prefix shorter than what some process has read counts as damage, and  *)
(* that is what makes it inductive: a process that accepted a rotation     *)
(* signs its events with the key the rotation announced.                   *)
(***************************************************************************)
EXTENDS IntegrityKeys, SequenceTheorems, TLAPS

Events == disk["events"].records
Rotations == disk["rotations"].records

EventRecords == [id : Nat, seq : Nat, prev : Nat, key : Keys] \cup {Partial}
RotationRecords == [id : Nat, seq : Nat, prev : Nat, head : Nat, old : Keys, new : Keys] \cup {Partial}
Records(f) == IF f = "events" THEN EventRecords ELSE RotationRecords

Processes ==
  [phase : {"serving", "rotating"}, step : {"idle", "event", "rotation"}, key : Keys, seq : Nat,
   head : Nat, anchor : Nat, rotationSeq : Nat, lastRotation : Nat]

Snapshots ==
  [key : Keys, retired : SUBSET Keys, damaged : BOOLEAN,
   files : {t \in [Files -> Seq(EventRecords) \cup Seq(RotationRecords)] :
              \A f \in Files : t[f] \in Seq(Records(f))}]

Typed ==
  /\ made \in Nat
  /\ disk \in [Files -> [records : Seq(EventRecords) \cup Seq(RotationRecords), durable : Nat]]
  /\ \A f \in Files : disk[f].records \in Seq(Records(f)) /\ disk[f].durable <= Len(disk[f].records)
  /\ read \in [Files -> Nat] /\ \A f \in Files : read[f] <= Len(disk[f].records)
  /\ process \in {Down} \cup Processes
  /\ snapshot \in {NoSnapshot} \cup Snapshots
  /\ offered \subseteq Keys /\ retired \subseteq Keys /\ damaged \in BOOLEAN

-----------------------------------------------------------------------------
\* How much of a file a power loss leaves, unless it counts as damage.
Settled(f) == IF disk[f].durable < read[f] THEN read[f] ELSE disk[f].durable

Survivors ==
  ~damaged =>
    \A e \in Settled("events") .. Len(Events), r \in Settled("rotations") .. Len(Rotations) :
      \E k \in offered : Opens(k, SubSeq(Events, 1, e), SubSeq(Rotations, 1, r))

\* The daemon.  It counts its events right, or is behind a record whose commit failed.
Serving ==
  /\ process.step \in {"idle", "event"}
  /\ process.seq <= Len(Events)
  /\ process.seq = Len(Events) => process.head = HeadOf(Events)
  /\ process.step = "event" => Len(Events) = process.seq + 1
  /\ read["rotations"] = Len(Rotations)
  /\ process.key \in offered
  /\ Opens(process.key, Events, Rotations)

\* The command that rotates.
Rotating ==
  /\ process.step \in {"idle", "rotation"}
  /\ process.head = HeadOf(Events) /\ read["events"] = Len(Events)
  /\ process.step = "idle" =>
       /\ process.rotationSeq = Len(Rotations) /\ process.lastRotation = HeadOf(Rotations)
       /\ read["rotations"] = Len(Rotations)
       /\ process.key \in offered
       /\ Opens(process.key, Events, Rotations)
  /\ process.step = "rotation" => Opens(Latest(Rotations).new, Events, Rotations)

ProcessInv ==
  ~damaged =>
    /\ process.phase = "serving" => Serving
    /\ process.phase = "rotating" => Rotating

\* No file of rotations that a power loss may leave ends with a key that was
\* replaced.
Replaced(rotations, n, keys) ==
  /\ keys # {} => n >= 1
  /\ \A i \in n .. Len(rotations) : i >= 1 => rotations[i].id = 0 \/ rotations[i].new \notin keys

RetiredInv ==
  /\ Replaced(Rotations, disk["rotations"].durable, retired)
  /\ snapshot # NoSnapshot =>
       Replaced(snapshot.files["rotations"], Len(snapshot.files["rotations"]), snapshot.retired)
  /\ process.phase = "rotating" /\ process.step = "rotation" =>
       Rotations # <<>> /\ Latest(Rotations).id # 0 /\ Latest(Rotations).new # process.key

KeysInv == Typed /\ Survivors /\ ProcessInv /\ SnapshotOpens /\ RetiredInv

-----------------------------------------------------------------------------
(***************************************************************************)
(* Sequences of records.                                                   *)
(***************************************************************************)
LEMMA Prefixes ==
  ASSUME NEW S, NEW s \in Seq(S), NEW n \in 0 .. Len(s)
  PROVE  /\ SubSeq(s, 1, n) \in Seq(S) /\ Len(SubSeq(s, 1, n)) = n
         /\ \A i \in 1 .. n : SubSeq(s, 1, n)[i] = s[i]
         /\ n = Len(s) => SubSeq(s, 1, n) = s
<1>1. Len(s) \in Nat /\ \A i \in 1 .. n : s[i] \in S
  OBVIOUS
<1>2. n \in Int /\ 1 \in Int /\ n - 1 + 1 = n /\ (n = 0 \/ 1 <= n)
  BY <1>1
<1>3. SubSeq(s, 1, n) \in Seq(S) /\ Len(SubSeq(s, 1, n)) = n
  BY <1>1, <1>2, SubSeqProperties
<1>4. \A i \in 1 .. n : SubSeq(s, 1, n)[i] = s[i]
  BY <1>1, <1>2, SubSeqProperties
<1>5. n = Len(s) => SubSeq(s, 1, n) = s
  BY SubSeqFull
<1> QED BY <1>3, <1>4, <1>5

LEMMA Appends ==
  ASSUME NEW S, NEW s \in Seq(S), NEW x \in S
  PROVE  /\ Append(s, x) \in Seq(S) /\ Len(Append(s, x)) = Len(s) + 1 /\ Len(s) \in Nat
         /\ Append(s, x)[Len(s) + 1] = x /\ Latest(Append(s, x)) = x
         /\ \A i \in 1 .. Len(s) : Append(s, x)[i] = s[i]
         /\ Append(s, x) # <<>>
BY AppendProperties DEF Latest

LEMMA PrefixOfAppend ==
  ASSUME NEW S, NEW s \in Seq(S), NEW x \in S, NEW n \in 0 .. Len(s)
  PROVE  SubSeq(Append(s, x), 1, n) = SubSeq(s, 1, n)
<1> DEFINE t == SubSeq(Append(s, x), 1, n)
           u == SubSeq(s, 1, n)
<1>1. Len(s) \in Nat /\ n \in 0 .. Len(Append(s, x)) /\ Append(s, x) \in Seq(S)
  BY Appends
<1>2. t \in Seq(S) /\ Len(t) = n /\ \A i \in 1 .. n : t[i] = Append(s, x)[i]
  BY <1>1, Prefixes
<1>3. u \in Seq(S) /\ Len(u) = n /\ \A i \in 1 .. n : u[i] = s[i]
  BY Prefixes
<1>4. \A i \in 1 .. n : t[i] = u[i]
  BY <1>1, <1>2, <1>3, Appends
<1> HIDE DEF t, u
<1>5. t = u
  BY <1>2, <1>3, <1>4, SeqEqual
<1> QED BY <1>5 DEF t, u

LEMMA HeadOfPrefix ==
  ASSUME NEW S, NEW s \in Seq(S), NEW n \in 0 .. Len(s)
  PROVE  HeadOf(SubSeq(s, 1, n)) = IF n = 0 THEN 0 ELSE s[n].id
<1>1. SubSeq(s, 1, n) \in Seq(S) /\ Len(SubSeq(s, 1, n)) = n /\ n \in Nat
      /\ \A i \in 1 .. n : SubSeq(s, 1, n)[i] = s[i]
  BY Prefixes
<1>2. CASE n = 0
  BY <1>1, <1>2, EmptySeq DEF HeadOf
<1>3. CASE n # 0
  <2>1. SubSeq(s, 1, n) # <<>>
    BY <1>1, <1>3, EmptySeq
  <2> QED BY <1>1, <1>3, <2>1 DEF HeadOf, Latest
<1> QED BY <1>2, <1>3

\* A record that follows what its writer knows keeps the chain.
LEMMA ChainedAppend ==
  ASSUME NEW S, NEW s \in Seq(S), NEW x \in S, Chained(s, 0),
         x.id # 0, x.seq = Len(s) + 1, x.prev = HeadOf(s)
  PROVE  Chained(Append(s, x), 0)
<1> DEFINE t == Append(s, x)
<1>1. /\ t \in Seq(S) /\ Len(t) = Len(s) + 1 /\ Len(s) \in Nat /\ t[Len(s) + 1] = x
      /\ \A i \in 1 .. Len(s) : t[i] = s[i]
  BY Appends
<1> SUFFICES ASSUME NEW i \in 1 .. Len(s) + 1
             PROVE  t[i].id # 0 /\ t[i].seq = 0 + i /\ t[i].prev = HeadOf(SubSeq(t, 1, i - 1))
  BY <1>1 DEF Chained
<1>2. i - 1 \in 0 .. Len(s)
  BY <1>1
<1>3. SubSeq(t, 1, i - 1) = SubSeq(s, 1, i - 1)
  BY <1>2, PrefixOfAppend
<1>4. CASE i = Len(s) + 1
  <2>1. SubSeq(t, 1, i - 1) = s
    BY <1>1, <1>2, <1>3, <1>4, Prefixes
  <2>2. t[i] = x /\ 0 + i = Len(s) + 1
    BY <1>1, <1>4
  <2> HIDE DEF t
  <2> QED BY <2>1, <2>2
<1>5. CASE i # Len(s) + 1
  <2>1. i \in DOMAIN s /\ t[i] = s[i]
    BY <1>1, <1>5
  <2>2. s[i].id # 0 /\ s[i].seq = 0 + i /\ s[i].prev = HeadOf(SubSeq(s, 1, i - 1))
    BY <2>1 DEF Chained
  <2> HIDE DEF t
  <2> QED BY <1>3, <2>1, <2>2
<1> QED BY <1>4, <1>5

\* The daemon's next event, signed with the key that opens the store.
LEMMA OpensWithEvent ==
  ASSUME NEW k \in Keys, NEW events \in Seq(EventRecords), NEW rotations, Opens(k, events, rotations),
         NEW x \in EventRecords, x.id # 0, x.seq = Len(events) + 1, x.prev = HeadOf(events), x.key = k
  PROVE  Opens(k, Append(events, x), rotations)
<1> DEFINE t == Append(events, x)
           a == Anchor(rotations)
<1>1. /\ t \in Seq(EventRecords) /\ Len(t) = Len(events) + 1 /\ Len(events) \in Nat /\ t[Len(events) + 1] = x
      /\ \A i \in 1 .. Len(events) : t[i] = events[i]
  BY Appends
<1>2. Chained(t, 0)
  BY ChainedAppend DEF Opens, EventsOpen
<1> DEFINE old == {i \in DOMAIN events : events[i].id = a}
           now == {i \in DOMAIN t : t[i].id = a}
<1>3. Signed(k, events, a)
  BY DEF Opens, EventsOpen
<1>4. (a # 0 => old # {}) /\ \A i \in DOMAIN events : (\A j \in old : j < i) => events[i].key = k
  BY <1>3 DEF Signed
<1> HIDE DEF a
<1>5. old \subseteq now
  BY <1>1
<1>6. \A i \in DOMAIN t : (\A j \in now : j < i) => t[i].key = k
  <2> SUFFICES ASSUME NEW i \in DOMAIN t, \A j \in now : j < i PROVE t[i].key = k
    OBVIOUS
  <2>1. \A j \in old : j < i
    BY <1>5
  <2>2. CASE i \in DOMAIN events
    <3>1. events[i].key = k
      BY <1>4, <2>1, <2>2
    <3>2. t[i] = events[i]
      BY <1>1, <2>2
    <3> QED BY <3>1, <3>2
  <2>3. CASE i \notin DOMAIN events
    <3>1. i = Len(events) + 1
      BY <1>1, <2>3
    <3> QED BY <1>1, <3>1
  <2> QED BY <2>2, <2>3
<1>7. a # 0 => now # {}
  BY <1>4, <1>5
<1>8. Signed(k, t, a)
  BY <1>6, <1>7 DEF Signed
<1> QED BY <1>2, <1>8 DEF Opens, EventsOpen, a

\* A rotation anchored at the last event: the chain is trusted up to it, and the
\* new key opens the store.
LEMMA OpensWithRotation ==
  ASSUME NEW k \in Keys, NEW n \in Keys, NEW events \in Seq(EventRecords), NEW rotations \in Seq(RotationRecords),
         Opens(k, events, rotations),
         NEW x \in RotationRecords, x.id # 0, x.seq = Len(rotations) + 1, x.prev = HeadOf(rotations),
         x.new = n, x.head = HeadOf(events)
  PROVE  Opens(n, events, Append(rotations, x))
<1> DEFINE t == Append(rotations, x)
<1>1. t # <<>> /\ Latest(t) = x
  BY Appends
<1>2. Chained(t, 0)
  BY ChainedAppend DEF Opens, RotationsOpen
<1>3. RotationsOpen(n, t, 0)
  BY <1>1, <1>2 DEF RotationsOpen
<1>4. Anchor(t) = HeadOf(events)
  BY <1>1 DEF Anchor
<1>5. Signed(n, events, HeadOf(events))
  <2>1. CASE events = <<>>
    BY <2>1 DEF Signed, HeadOf
  <2>2. CASE events # <<>>
    <3>1. Len(events) \in DOMAIN events /\ DOMAIN events = 1 .. Len(events) /\ Len(events) \in Nat
      BY <2>2, EmptySeq
    <3>2. events[Len(events)].id = HeadOf(events)
      BY <2>2 DEF HeadOf, Latest
    <3> QED BY <3>1, <3>2 DEF Signed
  <2> QED BY <2>1, <2>2
<1> QED BY <1>3, <1>4, <1>5 DEF Opens, EventsOpen

\* Nothing is signed and nothing anchored in an empty store.
LEMMA EmptyOpens == \A k : Opens(k, <<>>, <<>>)
BY DEF Opens, RotationsOpen, EventsOpen, Chained, Signed, Anchor

\* The key of a store that opens is the one its last rotation announced.
LEMMA OpensFor ==
  ASSUME NEW k, NEW events, NEW rotations \in Seq(RotationRecords), Opens(k, events, rotations), rotations # <<>>
  PROVE  Latest(rotations) \in RotationRecords \ {Partial} /\ Latest(rotations).id # 0 /\ Latest(rotations).new = k
<1>1. Len(rotations) \in DOMAIN rotations /\ rotations[Len(rotations)] \in RotationRecords
  BY EmptySeq
<1>2. rotations[Len(rotations)].id # 0 /\ Latest(rotations).new = k
  BY <1>1 DEF Opens, RotationsOpen, Chained
<1>3. Partial.id = 0
  BY DEF Partial
<1> QED BY <1>1, <1>2, <1>3 DEF Latest

-----------------------------------------------------------------------------
(***************************************************************************)
(* The types, and what the operations make of the files.                   *)
(***************************************************************************)
LEMMA Running ==
  ASSUME Typed, process.phase # "down"
  PROVE  process \in Processes
BY DEF Typed, Down

LEMMA FileTypes ==
  ASSUME Typed
  PROVE  /\ Events \in Seq(EventRecords) /\ Rotations \in Seq(RotationRecords)
         /\ \A f \in Files : /\ Len(disk[f].records) \in Nat /\ disk[f].durable \in Nat /\ read[f] \in Nat
                             /\ disk[f].durable <= Len(disk[f].records) /\ read[f] <= Len(disk[f].records)
                             /\ Settled(f) \in 0 .. Len(disk[f].records)
                             /\ read[f] <= Settled(f) /\ disk[f].durable <= Settled(f)
         /\ "events" \in Files /\ "rotations" \in Files
<1>1. "events" \in Files /\ "rotations" \in Files
  BY DEF Files
<1>2. Events \in Seq(EventRecords) /\ Rotations \in Seq(RotationRecords)
  BY <1>1 DEF Typed, Records, Events, Rotations
<1>3. \A f \in Files : /\ Len(disk[f].records) \in Nat /\ disk[f].durable \in Nat /\ read[f] \in Nat
                       /\ disk[f].durable <= Len(disk[f].records) /\ read[f] <= Len(disk[f].records)
  BY DEF Typed
<1>4. \A f \in Files : /\ Settled(f) \in 0 .. Len(disk[f].records)
                       /\ read[f] <= Settled(f) /\ disk[f].durable <= Settled(f)
  BY <1>3 DEF Settled
<1> QED BY <1>1, <1>2, <1>3, <1>4

LEMMA AppendedIs ==
  ASSUME Typed, NEW f \in Files, NEW x \in Records(f), disk' = Appended(f, x)
  PROVE  /\ disk' \in [Files -> [records : Seq(EventRecords) \cup Seq(RotationRecords), durable : Nat]]
         /\ disk'[f].records = Append(disk[f].records, x) /\ disk'[f].durable = disk[f].durable
         /\ \A g \in Files \ {f} : disk'[g] = disk[g]
         /\ \A g \in Files : /\ disk'[g].records \in Seq(Records(g))
                             /\ disk'[g].durable <= Len(disk'[g].records)
                             /\ read[g] <= Len(disk'[g].records)
<1>1. /\ disk[f] \in [records : Seq(EventRecords) \cup Seq(RotationRecords), durable : Nat]
      /\ disk[f].records \in Seq(Records(f)) /\ disk[f].durable <= Len(disk[f].records)
      /\ read[f] \in Nat /\ read[f] <= Len(disk[f].records)
  BY DEF Typed
<1>2. Append(disk[f].records, x) \in Seq(Records(f)) /\ Len(Append(disk[f].records, x)) = Len(disk[f].records) + 1
      /\ Len(disk[f].records) \in Nat
  BY <1>1, Appends
<1>3. disk'[f] = [disk[f] EXCEPT !.records = Append(@, x)] /\ \A g \in Files \ {f} : disk'[g] = disk[g]
  BY DEF Appended, Typed
<1>4. disk'[f].records = Append(disk[f].records, x) /\ disk'[f].durable = disk[f].durable
  BY <1>1, <1>3
<1>5. disk'[f] \in [records : Seq(EventRecords) \cup Seq(RotationRecords), durable : Nat]
  BY <1>1, <1>2, <1>3 DEF Records
<1>6. disk' \in [Files -> [records : Seq(EventRecords) \cup Seq(RotationRecords), durable : Nat]]
  BY <1>5 DEF Appended, Typed
<1>7. \A g \in Files : /\ disk'[g].records \in Seq(Records(g))
                       /\ disk'[g].durable <= Len(disk'[g].records)
                       /\ read[g] <= Len(disk'[g].records)
  <2> SUFFICES ASSUME NEW g \in Files
               PROVE  /\ disk'[g].records \in Seq(Records(g))
                      /\ disk'[g].durable <= Len(disk'[g].records)
                      /\ read[g] <= Len(disk'[g].records)
    OBVIOUS
  <2>1. CASE g = f
    <3>1. disk'[g].records = Append(disk[f].records, x) /\ disk'[g].durable = disk[f].durable
      BY <1>4, <2>1
    <3>2. Len(disk'[g].records) = Len(disk[f].records) + 1 /\ disk'[g].records \in Seq(Records(f))
      BY <1>2, <3>1
    <3>3. disk[f].durable \in Nat
      BY <1>1
    <3> QED BY <1>1, <1>2, <2>1, <3>1, <3>2, <3>3
  <2>2. CASE g # f
    BY <1>3, <2>2 DEF Typed
  <2> QED BY <2>1, <2>2
<1> QED BY <1>3, <1>4, <1>6, <1>7

LEMMA SyncedIs ==
  ASSUME Typed, NEW f \in Files, disk' = Synced(f)
  PROVE  /\ disk' \in [Files -> [records : Seq(EventRecords) \cup Seq(RotationRecords), durable : Nat]]
         /\ disk'[f].durable = Len(disk[f].records)
         /\ \A g \in Files \ {f} : disk'[g] = disk[g]
         /\ \A g \in Files : /\ disk'[g].records = disk[g].records
                             /\ disk'[g].durable <= Len(disk'[g].records)
<1>1. /\ disk[f] \in [records : Seq(EventRecords) \cup Seq(RotationRecords), durable : Nat]
      /\ Len(disk[f].records) \in Nat
  BY DEF Typed
<1>2. disk'[f] = [disk[f] EXCEPT !.durable = Len(disk[f].records)] /\ \A g \in Files \ {f} : disk'[g] = disk[g]
  BY DEF Synced, Typed
<1>3. disk'[f].records = disk[f].records /\ disk'[f].durable = Len(disk[f].records)
      /\ disk'[f] \in [records : Seq(EventRecords) \cup Seq(RotationRecords), durable : Nat]
  BY <1>1, <1>2
<1>4. disk' \in [Files -> [records : Seq(EventRecords) \cup Seq(RotationRecords), durable : Nat]]
  BY <1>3 DEF Synced, Typed
<1>5. \A g \in Files : /\ disk'[g].records = disk[g].records
                       /\ disk'[g].durable <= Len(disk'[g].records)
  <2> SUFFICES ASSUME NEW g \in Files
               PROVE  /\ disk'[g].records = disk[g].records
                      /\ disk'[g].durable <= Len(disk'[g].records)
    OBVIOUS
  <2>1. CASE g = f
    BY <1>1, <1>3, <2>1
  <2>2. CASE g # f
    BY <1>2, <2>2 DEF Typed
  <2> QED BY <2>1, <2>2
<1> QED BY <1>2, <1>3, <1>4, <1>5

\* A process that has read a store which opens.
LEMMA LoadedType ==
  ASSUME Typed, NEW k \in Keys, NEW phase \in {"serving", "rotating"}, Readable(k)
  PROVE  Loaded(k, phase) \in Processes
<1>1. /\ Events \in Seq(EventRecords) /\ Rotations \in Seq(RotationRecords)
  BY FileTypes
<1>2. HeadOf(Events) \in Nat /\ HeadOf(Rotations) \in Nat
  <2>1. \A r \in EventRecords \cup RotationRecords : r.id \in Nat
    BY DEF EventRecords, RotationRecords, Partial
  <2>2. \A s \in {Events, Rotations} : s # <<>> => Latest(s) \in EventRecords \cup RotationRecords
    BY <1>1, EmptySeq DEF Latest
  <2> QED BY <2>1, <2>2 DEF HeadOf
<1>3. Anchor(Rotations) \in Nat
  BY <1>1, OpensFor DEF Anchor, Readable, Events, Rotations, RotationRecords
<1>4. Len(Events) \in Nat /\ Len(Rotations) \in Nat
  BY <1>1
<1> QED BY <1>2, <1>3, <1>4 DEF Loaded, Processes, Events, Rotations

\* What a power loss leaves of a file.
LEMMA SurvivalIs ==
  ASSUME Typed, NEW f \in Files, NEW left \in Survivals(f)
  PROVE  /\ left \in [records : Seq(EventRecords) \cup Seq(RotationRecords), durable : Nat]
         /\ left.records \in Seq(Records(f))
         /\ left.durable = Len(left.records)
         /\ Len(left.records) \in disk[f].durable .. Len(disk[f].records)
         /\ Len(left.records) > 0 =>
              left.records[Len(left.records)] \in {Partial, disk[f].records[Len(left.records)]}
<1> DEFINE s == disk[f].records
<1>1. /\ s \in Seq(Records(f)) /\ Len(s) \in Nat /\ disk[f].durable \in Nat /\ disk[f].durable <= Len(s)
      /\ Partial \in Records(f)
  BY FileTypes DEF Typed, Records, EventRecords, RotationRecords
<1>2. \/ \E n \in disk[f].durable .. Len(s) : left = [records |-> SubSeq(s, 1, n), durable |-> n]
      \/ \E n \in disk[f].durable .. (Len(s) - 1) :
           left = [records |-> Append(SubSeq(s, 1, n), Partial), durable |-> n + 1]
  BY DEF Survivals
<1> HIDE DEF s
<1>3. ASSUME NEW n \in disk[f].durable .. Len(s), left = [records |-> SubSeq(s, 1, n), durable |-> n]
      PROVE  /\ left.records \in Seq(Records(f)) /\ left.durable = Len(left.records) /\ left.durable \in Nat
             /\ Len(left.records) \in disk[f].durable .. Len(s)
             /\ Len(left.records) > 0 => left.records[Len(left.records)] = s[Len(left.records)]
  <2>1. n \in 0 .. Len(s)
    BY <1>1
  <2>2. SubSeq(s, 1, n) \in Seq(Records(f)) /\ Len(SubSeq(s, 1, n)) = n
        /\ \A i \in 1 .. n : SubSeq(s, 1, n)[i] = s[i]
    BY <1>1, <2>1, Prefixes
  <2>3. left.records = SubSeq(s, 1, n) /\ left.durable = n
    BY <1>3
  <2> QED BY <1>1, <2>1, <2>2, <2>3
<1>4. ASSUME NEW n \in disk[f].durable .. (Len(s) - 1),
             left = [records |-> Append(SubSeq(s, 1, n), Partial), durable |-> n + 1]
      PROVE  /\ left.records \in Seq(Records(f)) /\ left.durable = Len(left.records) /\ left.durable \in Nat
             /\ Len(left.records) \in disk[f].durable .. Len(s)
             /\ left.records[Len(left.records)] = Partial
  <2>1. n \in 0 .. Len(s) /\ n + 1 <= Len(s)
    BY <1>1
  <2>2. SubSeq(s, 1, n) \in Seq(Records(f)) /\ Len(SubSeq(s, 1, n)) = n
    BY <1>1, <2>1, Prefixes
  <2>3. /\ Append(SubSeq(s, 1, n), Partial) \in Seq(Records(f))
        /\ Len(Append(SubSeq(s, 1, n), Partial)) = n + 1
        /\ Append(SubSeq(s, 1, n), Partial)[n + 1] = Partial
    BY <1>1, <2>2, Appends
  <2>4. left.records = Append(SubSeq(s, 1, n), Partial) /\ left.durable = n + 1
    BY <1>4
  <2> QED BY <1>1, <2>1, <2>3, <2>4
<1>5. /\ left.records \in Seq(Records(f)) /\ left.durable = Len(left.records) /\ left.durable \in Nat
      /\ Len(left.records) \in disk[f].durable .. Len(s)
      /\ Len(left.records) > 0 => left.records[Len(left.records)] \in {Partial, s[Len(left.records)]}
  BY <1>2, <1>3, <1>4
<1>6. left \in [records : Seq(EventRecords) \cup Seq(RotationRecords), durable : Nat]
  BY <1>2, <1>5 DEF Records
<1> QED BY <1>5, <1>6 DEF s

LEMMA InitTyped == Init => Typed
<1>1. NoFile \in [records : Seq(EventRecords) \cup Seq(RotationRecords), durable : Nat]
      /\ NoFile.records = <<>> /\ NoFile.durable = 0
  BY DEF NoFile
<1>2. \A f \in Files : <<>> \in Seq(Records(f))
  BY DEF Records
<1>3. ASSUME Init
      PROVE  /\ disk \in [Files -> [records : Seq(EventRecords) \cup Seq(RotationRecords), durable : Nat]]
             /\ \A f \in Files : /\ disk[f].records \in Seq(Records(f)) /\ Len(disk[f].records) = 0
                                  /\ disk[f].durable = 0 /\ read[f] = 0
             /\ read \in [Files -> Nat]
  BY <1>1, <1>2, <1>3 DEF Init
<1>4. Init => /\ made \in Nat /\ process = Down /\ snapshot = NoSnapshot
              /\ offered \subseteq Keys /\ retired \subseteq Keys
  BY DEF Init
<1>5. Init => damaged \in BOOLEAN
  BY Zenon DEF Init
<1> QED BY <1>3, <1>4, <1>5 DEF Typed

LEMMA ProcessTyped ==
  ASSUME Typed, Exit \/ Kill \/ SyncEventFails \/ SyncRotationFails
  PROVE  Typed'
<1>1. UNCHANGED <<disk, made, snapshot, offered, retired, read, damaged>>
  BY DEF Exit, Kill, SyncEventFails, SyncRotationFails
<1>2. process' \in {Down} \cup Processes
  <2>1. CASE process' = Down
    BY <2>1
  <2>2. CASE SyncEventFails
    <3>1. process \in Processes
      BY <2>2, Running DEF SyncEventFails, At
    <3>2. [process EXCEPT !.step = "idle"] \in Processes
      BY <3>1 DEF Processes
    <3> QED BY <2>2, <3>2 DEF SyncEventFails
  <2> QED BY <2>1, <2>2 DEF Exit, Kill, SyncRotationFails
<1> QED BY <1>1, <1>2 DEF Typed

LEMMA OpenTyped ==
  ASSUME Typed, NEW k \in Keys, NEW phase \in {"serving", "rotating"}, Open(k, phase)
  PROVE  Typed'
<1>1. process' \in {Down} \cup Processes
  BY LoadedType DEF Open
<1>2. read' \in [Files -> Nat] /\ \A f \in Files : read'[f] = Len(disk[f].records) /\ Len(disk[f].records) \in Nat
  BY FileTypes DEF Open
<1> QED BY <1>1, <1>2 DEF Open, Typed

LEMMA NewTypes ==
  ASSUME Typed, process.phase # "down", NEW n \in Keys
  PROVE  /\ NewEvent \in EventRecords /\ NewRotation(n) \in RotationRecords
         /\ NewEvent.id # 0 /\ NewRotation(n).id # 0
<1>1. /\ process.key \in Keys /\ process.seq \in Nat /\ process.head \in Nat
      /\ process.rotationSeq \in Nat /\ process.lastRotation \in Nat
  BY Running DEF Processes
<1>2. made + 1 \in Nat /\ made + 1 # 0
  BY DEF Typed
<1> QED BY <1>1, <1>2 DEF NewEvent, NewRotation, EventRecords, RotationRecords

LEMMA WriteTyped ==
  ASSUME Typed, WriteEvent \/ EventShort \/ RotationShort \/ \E n \in Keys : WriteRotation(n)
  PROVE  Typed'
<1>1. process \in Processes /\ process.phase # "down" /\ made + 1 \in Nat
  <2>1. process.phase # "down"
    BY DEF WriteEvent, EventShort, RotationShort, WriteRotation, At
  <2> QED BY <2>1, Running DEF Typed
<1>2. \E f \in Files : \E x \in Records(f) : disk' = Appended(f, x)
  <2>1. /\ "events" \in Files /\ "rotations" \in Files
        /\ Partial \in Records("events") /\ Partial \in Records("rotations")
    BY DEF Files, Records, EventRecords, RotationRecords
  <2>2. CASE WriteEvent
    <3>1. Keys # {} /\ NewEvent \in Records("events")
      BY <1>1, KeysAssumption, NewTypes DEF Records
    <3> QED BY <2>1, <2>2, <3>1 DEF WriteEvent
  <2>3. CASE EventShort \/ RotationShort
    BY <2>1, <2>3 DEF EventShort, RotationShort
  <2>4. ASSUME NEW n \in Keys, WriteRotation(n)
        PROVE  \E x \in Records("rotations") : disk' = Appended("rotations", x)
    <3>1. NewRotation(n) \in Records("rotations")
      BY <1>1, NewTypes DEF Records
    <3> QED BY <2>4, <3>1 DEF WriteRotation
  <2> QED BY <2>1, <2>2, <2>3, <2>4
<1>3. process' \in {Down} \cup Processes
  <2>1. \A s \in {"idle", "event", "rotation"} : [process EXCEPT !.step = s] \in Processes
    BY <1>1 DEF Processes
  <2> QED BY <1>1, <2>1 DEF WriteEvent, EventShort, RotationShort, WriteRotation
<1>4. made' \in Nat /\ UNCHANGED <<snapshot, read>> /\ offered' \subseteq Keys /\ retired' \subseteq Keys
      /\ damaged' \in BOOLEAN
  BY <1>1 DEF WriteEvent, EventShort, RotationShort, WriteRotation, Typed
<1>5. /\ disk' \in [Files -> [records : Seq(EventRecords) \cup Seq(RotationRecords), durable : Nat]]
      /\ \A g \in Files : /\ disk'[g].records \in Seq(Records(g))
                          /\ disk'[g].durable <= Len(disk'[g].records)
                          /\ read[g] <= Len(disk'[g].records)
  BY <1>2, AppendedIs
<1> QED BY <1>3, <1>4, <1>5 DEF Typed

LEMMA SyncTyped ==
  ASSUME Typed, RetiredInv, SyncEvent \/ SyncRotation
  PROVE  Typed'
<1>1. process \in Processes
  BY Running DEF SyncEvent, SyncRotation, At
<1>2. /\ disk' \in [Files -> [records : Seq(EventRecords) \cup Seq(RotationRecords), durable : Nat]]
      /\ \A g \in Files : /\ disk'[g].records = disk[g].records
                          /\ disk'[g].durable <= Len(disk'[g].records)
  BY SyncedIs DEF SyncEvent, SyncRotation, Files
<1>3. UNCHANGED <<made, snapshot, read, damaged>>
  BY DEF SyncEvent, SyncRotation
<1>4. /\ Events \in Seq(EventRecords) /\ Rotations \in Seq(RotationRecords)
  BY FileTypes
<1>5. CASE SyncEvent
  <2>1. Events # <<>> => Latest(Events) \in EventRecords
    BY <1>4, EmptySeq DEF Latest
  <2>2. HeadOf(Events) \in Nat
    BY <2>1 DEF HeadOf, EventRecords, Partial
  <2>3. process' = [process EXCEPT !.step = "idle", !.seq = @ + 1, !.head = HeadOf(Events)]
    BY <1>5 DEF SyncEvent, Events
  <2>4. \A p \in Processes : /\ [p EXCEPT !.step = "idle"] \in Processes
                             /\ [p EXCEPT !.seq = @ + 1] \in Processes
                             /\ [p EXCEPT !.head = HeadOf(Events)] \in Processes
    BY <2>2 DEF Processes
  <2>5. process' = [[[process EXCEPT !.step = "idle"] EXCEPT !.seq = @ + 1] EXCEPT !.head = HeadOf(Events)]
    BY <2>3
  <2>6. process' \in Processes
    BY <1>1, <2>4, <2>5
  <2> QED BY <1>2, <1>3, <1>5, <2>6 DEF SyncEvent, Typed
<1>6. CASE SyncRotation
  <2>1. process' = Down /\ offered' = {Latest(Rotations).new} /\ retired' = retired \cup {process.key}
        /\ process.key \in Keys
    BY <1>1, <1>6 DEF SyncRotation, Rotations, Processes
  <2>2. Latest(Rotations).new \in Keys
    <3>1. Rotations # <<>> /\ Latest(Rotations).id # 0
      BY <1>6 DEF RetiredInv, SyncRotation, At
    <3>2. Latest(Rotations) \in RotationRecords /\ Latest(Rotations) # Partial
      BY <1>4, <3>1, EmptySeq DEF Latest, Partial
    <3> QED BY <3>2 DEF RotationRecords
  <2> QED BY <1>2, <1>3, <2>1, <2>2 DEF Typed
<1> QED BY <1>5, <1>6

LEMMA SnapshotTyped ==
  ASSUME Typed, CreateSnapshot
  PROVE  Typed' /\ snapshot' \in Snapshots
         /\ \A f \in Files : snapshot'.files[f] = disk[f].records
<1>1. process \in Processes
  BY Running DEF CreateSnapshot, At
<1> DEFINE files == [f \in Files |-> disk[f].records]
<1>2. snapshot' = [key |-> process.key, retired |-> retired, damaged |-> damaged, files |-> files]
  BY DEF CreateSnapshot, SnapshotFiles
<1>3. files \in [Files -> Seq(EventRecords) \cup Seq(RotationRecords)]
      /\ \A f \in Files : files[f] \in Seq(Records(f)) /\ files[f] = disk[f].records
  BY DEF Typed
<1>4. process.key \in Keys /\ retired \in SUBSET Keys /\ damaged \in BOOLEAN
  BY <1>1 DEF Processes, Typed
<1> HIDE DEF files
<1>5. snapshot' \in Snapshots
  BY <1>2, <1>3, <1>4 DEF Snapshots
<1> QED BY <1>2, <1>3, <1>5 DEF CreateSnapshot, Typed

LEMMA RestoreTyped ==
  ASSUME Typed, Restore
  PROVE  /\ Typed' /\ snapshot \in Snapshots
         /\ \A f \in Files : /\ disk'[f].records = snapshot.files[f] /\ disk'[f].durable = Len(snapshot.files[f])
                             /\ read'[f] = Len(snapshot.files[f]) /\ Len(snapshot.files[f]) \in Nat
<1>1. snapshot \in Snapshots
  BY DEF Restore, Typed
<1>2. /\ snapshot.files \in [Files -> Seq(EventRecords) \cup Seq(RotationRecords)]
      /\ \A f \in Files : snapshot.files[f] \in Seq(Records(f))
      /\ snapshot.key \in Keys /\ snapshot.retired \in SUBSET Keys /\ snapshot.damaged \in BOOLEAN
  BY <1>1 DEF Snapshots
<1>3. \A f \in Files : /\ disk'[f] = [records |-> snapshot.files[f], durable |-> Len(snapshot.files[f])]
                       /\ read'[f] = Len(snapshot.files[f])
  BY DEF Restore
<1>4. \A f \in Files : Len(snapshot.files[f]) \in Nat
  BY <1>2
<1>5. \A f \in Files : /\ disk'[f].records = snapshot.files[f] /\ disk'[f].durable = Len(snapshot.files[f])
                       /\ disk'[f] \in [records : Seq(EventRecords) \cup Seq(RotationRecords), durable : Nat]
  <2> SUFFICES ASSUME NEW f \in Files
               PROVE  /\ disk'[f].records = snapshot.files[f] /\ disk'[f].durable = Len(snapshot.files[f])
                      /\ disk'[f] \in [records : Seq(EventRecords) \cup Seq(RotationRecords), durable : Nat]
    OBVIOUS
  <2>1. snapshot.files[f] \in Seq(EventRecords) \cup Seq(RotationRecords) /\ Len(snapshot.files[f]) \in Nat
    BY <1>2, <1>4
  <2>2. disk'[f] = [records |-> snapshot.files[f], durable |-> Len(snapshot.files[f])]
    BY <1>3
  <2> QED BY <2>1, <2>2
<1>6. /\ disk' \in [Files -> [records : Seq(EventRecords) \cup Seq(RotationRecords), durable : Nat]]
      /\ read' \in [Files -> Nat]
  BY <1>4, <1>5 DEF Restore
<1>7. \A f \in Files : disk'[f].records \in Seq(Records(f)) /\ disk'[f].durable <= Len(disk'[f].records)
                       /\ read'[f] <= Len(disk'[f].records)
  BY <1>2, <1>3, <1>4, <1>5
<1>8. /\ UNCHANGED <<process, made, snapshot>>
      /\ offered' = {snapshot.key} /\ retired' = snapshot.retired /\ damaged' = snapshot.damaged
  BY DEF Restore
<1> QED BY <1>1, <1>2, <1>3, <1>4, <1>5, <1>6, <1>7, <1>8 DEF Typed

LEMMA PowerTyped ==
  ASSUME Typed, PowerLoss
  PROVE  Typed'
<1>1. PICK events \in Survivals("events"), rotations \in Survivals("rotations") :
        disk' = [f \in Files |-> IF f = "events" THEN events ELSE rotations]
  BY DEF PowerLoss
<1>2. "events" \in Files /\ "rotations" \in Files /\ \A f \in Files : f = "events" \/ f = "rotations"
  BY DEF Files
<1>3. \A f \in Files : disk'[f] \in Survivals(f)
  BY <1>1, <1>2
<1>4. \A f \in Files : /\ disk'[f] \in [records : Seq(EventRecords) \cup Seq(RotationRecords), durable : Nat]
                       /\ disk'[f].records \in Seq(Records(f)) /\ disk'[f].durable = Len(disk'[f].records)
                       /\ read'[f] = Len(disk'[f].records)
  BY <1>3, SurvivalIs DEF PowerLoss
<1>5. \A f \in Files : Len(disk'[f].records) \in Nat
  BY <1>4
<1>6. disk' \in [Files -> [records : Seq(EventRecords) \cup Seq(RotationRecords), durable : Nat]]
  BY <1>1, <1>4
<1>7. read' \in [Files -> Nat]
  BY <1>4, <1>5 DEF PowerLoss
<1>8. process' = Down /\ UNCHANGED <<made, snapshot, offered, retired>>
  BY DEF PowerLoss
<1>9. damaged' \in BOOLEAN
  BY DEF PowerLoss
<1> QED BY <1>4, <1>5, <1>6, <1>7, <1>8, <1>9 DEF Typed

-----------------------------------------------------------------------------
(***************************************************************************)
(* Keys that were replaced.                                                *)
(***************************************************************************)
LEMMA ReplacedLater ==
  ASSUME NEW rotations \in Seq(RotationRecords), NEW keys, NEW n \in Nat, NEW m \in Nat,
         n <= m, Replaced(rotations, n, keys)
  PROVE  Replaced(rotations, m, keys)
<1>1. Len(rotations) \in Nat
  OBVIOUS
<1>2. \A i \in m .. Len(rotations) : i \in n .. Len(rotations)
  BY <1>1
<1> QED BY <1>1, <1>2 DEF Replaced

LEMMA ReplacedAppend ==
  ASSUME NEW rotations \in Seq(RotationRecords), NEW keys, NEW fewer \in SUBSET keys, NEW n \in Nat,
         Replaced(rotations, n, keys), NEW x \in RotationRecords, x.id = 0 \/ x.new \notin fewer
  PROVE  Replaced(Append(rotations, x), n, fewer)
<1>1. /\ Len(rotations) \in Nat /\ Len(Append(rotations, x)) = Len(rotations) + 1
      /\ Append(rotations, x)[Len(rotations) + 1] = x
      /\ \A i \in 1 .. Len(rotations) : Append(rotations, x)[i] = rotations[i]
  BY Appends
<1>2. fewer # {} => n >= 1
  BY DEF Replaced
<1> SUFFICES ASSUME NEW i \in n .. Len(rotations) + 1, i >= 1
             PROVE  Append(rotations, x)[i].id = 0 \/ Append(rotations, x)[i].new \notin fewer
  BY <1>1, <1>2 DEF Replaced
<1>3. CASE i = Len(rotations) + 1
  BY <1>1, <1>3
<1>4. CASE i # Len(rotations) + 1
  <2>1. i \in n .. Len(rotations) /\ i \in 1 .. Len(rotations)
    BY <1>1, <1>4
  <2>2. rotations[i].id = 0 \/ rotations[i].new \notin keys
    BY <2>1 DEF Replaced
  <2>3. Append(rotations, x)[i] = rotations[i]
    BY <1>1, <2>1
  <2> QED BY <2>2, <2>3
<1> QED BY <1>3, <1>4

LEMMA RetiredKept ==
  ASSUME RetiredInv, disk'["rotations"] = disk["rotations"], UNCHANGED <<snapshot, retired>>,
         ~(process'.phase = "rotating" /\ process'.step = "rotation") \/ UNCHANGED process
  PROVE  RetiredInv'
BY DEF RetiredInv, Rotations

LEMMA RetiredWrite ==
  ASSUME Typed, RetiredInv, RotationShort \/ \E n \in Keys : WriteRotation(n)
  PROVE  RetiredInv'
<1>1. /\ Rotations \in Seq(RotationRecords) /\ disk["rotations"].durable \in Nat
      /\ "rotations" \in Files /\ Partial \in RotationRecords /\ Partial.id = 0
  BY FileTypes DEF RotationRecords, Partial
<1>2. PICK x \in RotationRecords :
        /\ disk' = Appended("rotations", x) /\ retired' \in SUBSET retired
        /\ x.id = 0 \/ x.new \notin retired'
        /\ process'.phase = "rotating" => x.id # 0 /\ x.new # process'.key
  <2>1. CASE RotationShort
    BY <1>1, <2>1 DEF RotationShort, Down
  <2>2. ASSUME NEW n \in Keys, WriteRotation(n)
        PROVE  /\ NewRotation(n) \in RotationRecords
               /\ disk' = Appended("rotations", NewRotation(n)) /\ retired' \in SUBSET retired
               /\ NewRotation(n).new \notin retired'
               /\ NewRotation(n).id # 0 /\ NewRotation(n).new # process'.key
    <3>1. process \in Processes /\ process.phase # "down"
      BY <2>2, Running DEF WriteRotation, At
    <3>2. NewRotation(n) \in RotationRecords /\ NewRotation(n).id # 0
      BY <3>1, NewTypes
    <3>3. process'.key = process.key
      BY <2>2, <3>1 DEF WriteRotation, Processes
    <3>4. NewRotation(n).new = n
      BY DEF NewRotation
    <3> QED BY <2>2, <3>2, <3>3, <3>4 DEF WriteRotation
  <2> QED BY <2>1, <2>2
<1>3. Rotations' = Append(Rotations, x) /\ disk'["rotations"].durable = disk["rotations"].durable
  <2>1. x \in Records("rotations")
    BY DEF Records
  <2> QED BY <1>1, <1>2, <2>1, AppendedIs DEF Rotations
<1>4. Latest(Rotations') = x /\ Rotations' # <<>>
  BY <1>1, <1>3, Appends
<1>5. Replaced(Rotations', disk'["rotations"].durable, retired')
  BY <1>1, <1>2, <1>3, ReplacedAppend DEF RetiredInv
<1>6. UNCHANGED snapshot
  BY DEF RotationShort, WriteRotation
<1> QED BY <1>2, <1>4, <1>5, <1>6 DEF RetiredInv

LEMMA RetiredSync ==
  ASSUME Typed, RetiredInv, SyncRotation
  PROVE  RetiredInv'
<1>1. /\ Rotations \in Seq(RotationRecords) /\ disk["rotations"].durable \in Nat
      /\ disk["rotations"].durable <= Len(Rotations) /\ Len(Rotations) \in Nat /\ "rotations" \in Files
  BY FileTypes DEF Rotations
<1>2. Rotations' = Rotations /\ disk'["rotations"].durable = Len(Rotations)
  BY <1>1, SyncedIs DEF SyncRotation, Rotations
<1>3. Rotations # <<>> /\ Latest(Rotations).new # process.key
  BY DEF RetiredInv, SyncRotation, At
<1>4. Len(Rotations) >= 1
  BY <1>1, <1>3, EmptySeq
<1>5. Replaced(Rotations, Len(Rotations), retired)
  BY <1>1, ReplacedLater DEF RetiredInv
<1>6. Replaced(Rotations, Len(Rotations), retired \cup {process.key})
  BY <1>1, <1>3, <1>4, <1>5 DEF Replaced, Latest
<1> QED BY <1>2, <1>6 DEF RetiredInv, SyncRotation, Down

LEMMA RetiredSnapshot ==
  ASSUME Typed, RetiredInv, CreateSnapshot \/ Restore
  PROVE  RetiredInv'
<1>1. /\ Rotations \in Seq(RotationRecords) /\ disk["rotations"].durable \in Nat
      /\ disk["rotations"].durable <= Len(Rotations) /\ Len(Rotations) \in Nat /\ "rotations" \in Files
  BY FileTypes DEF Rotations
<1>2. CASE CreateSnapshot
  <2>1. snapshot'.files["rotations"] = Rotations /\ snapshot'.retired = retired
    BY <1>1, <1>2, SnapshotTyped DEF CreateSnapshot, Rotations
  <2>2. Replaced(Rotations, Len(Rotations), retired)
    BY <1>1, ReplacedLater DEF RetiredInv
  <2>3. UNCHANGED <<disk, process, retired>>
    BY <1>2 DEF CreateSnapshot
  <2> QED BY <2>1, <2>2, <2>3 DEF RetiredInv, Rotations
<1>3. CASE Restore
  <2>1. disk'["rotations"].records = snapshot.files["rotations"]
        /\ disk'["rotations"].durable = Len(snapshot.files["rotations"])
    BY <1>1, <1>3, RestoreTyped
  <2> QED BY <1>3, <2>1 DEF RetiredInv, Rotations, Restore
<1> QED BY <1>2, <1>3

LEMMA RetiredPower ==
  ASSUME Typed, RetiredInv, PowerLoss
  PROVE  RetiredInv'
<1>1. /\ Rotations \in Seq(RotationRecords) /\ disk["rotations"].durable \in Nat
      /\ disk["rotations"].durable <= Len(Rotations) /\ Len(Rotations) \in Nat /\ "rotations" \in Files
      /\ Partial.id = 0
  BY FileTypes DEF Rotations, Partial
<1>2. PICK left \in Survivals("rotations") : disk'["rotations"] = left
  BY <1>1 DEF PowerLoss
<1>3. /\ left.durable = Len(left.records) /\ Len(left.records) \in disk["rotations"].durable .. Len(Rotations)
      /\ Len(left.records) > 0 => left.records[Len(left.records)] \in {Partial, Rotations[Len(left.records)]}
  BY <1>1, SurvivalIs DEF Rotations
<1>4. Replaced(left.records, Len(left.records), retired)
  <2>1. retired # {} => Len(left.records) >= 1
    BY <1>1, <1>3 DEF RetiredInv, Replaced
  <2>2. ASSUME Len(left.records) >= 1
        PROVE  \/ left.records[Len(left.records)].id = 0
               \/ left.records[Len(left.records)].new \notin retired
    BY <1>1, <1>3, <2>2 DEF RetiredInv, Replaced
  <2>3. \A i \in Len(left.records) .. Len(left.records) : i = Len(left.records)
    BY <1>1, <1>3
  <2> QED BY <2>1, <2>2, <2>3 DEF Replaced
<1>5. process' = Down /\ UNCHANGED <<snapshot, retired>>
  BY DEF PowerLoss
<1> QED BY <1>2, <1>3, <1>4, <1>5 DEF RetiredInv, Rotations, Down

-----------------------------------------------------------------------------
(***************************************************************************)
(* Stores that open.                                                       *)
(***************************************************************************)
LEMMA OnlyWhole ==
  ASSUME NEW events \in Seq(EventRecords), NEW rotations \in Seq(RotationRecords), NEW k,
         Opens(k, events, rotations),
         NEW e \in Len(events) .. Len(events), NEW r \in Len(rotations) .. Len(rotations)
  PROVE  Opens(k, SubSeq(events, 1, e), SubSeq(rotations, 1, r))
<1>1. e = Len(events) /\ r = Len(rotations) /\ e \in 0 .. Len(events) /\ r \in 0 .. Len(rotations)
  OBVIOUS
<1>2. SubSeq(events, 1, e) = events /\ SubSeq(rotations, 1, r) = rotations
  BY <1>1, Prefixes
<1> QED BY <1>2

\* Less can be lost than before.
LEMMA SurvivorsFewer ==
  ASSUME Typed, Typed', Survivors, damaged' = damaged, offered \subseteq offered',
         \A f \in Files : disk'[f].records = disk[f].records /\ Settled(f) <= Settled(f)'
  PROVE  Survivors'
<1>1. "events" \in Files /\ "rotations" \in Files
  BY FileTypes
<1>2. Events' = Events /\ Rotations' = Rotations
  BY <1>1 DEF Events, Rotations
<1>3. \A f \in Files : Settled(f) \in Nat /\ Settled(f)' \in Nat /\ Len(disk[f].records) \in Nat
  BY DEF Typed, Settled
<1>4. \A e \in Settled("events")' .. Len(Events') : e \in Settled("events") .. Len(Events)
  BY <1>1, <1>2, <1>3
<1>5. \A r \in Settled("rotations")' .. Len(Rotations') : r \in Settled("rotations") .. Len(Rotations)
  BY <1>1, <1>2, <1>3
<1> QED BY <1>2, <1>4, <1>5 DEF Survivors

LEMMA HealthProcess ==
  ASSUME Typed, Typed', Survivors, ProcessInv, SnapshotOpens,
         Exit \/ Kill \/ SyncEventFails \/ SyncRotationFails
  PROVE  Survivors' /\ ProcessInv' /\ SnapshotOpens'
<1>1. UNCHANGED <<disk, snapshot, offered, read, damaged>>
  BY DEF Exit, Kill, SyncEventFails, SyncRotationFails
<1>2. Survivors' /\ SnapshotOpens'
  BY <1>1 DEF Survivors, Settled, Events, Rotations, SnapshotOpens
<1>3. CASE process' = Down
  BY <1>2, <1>3 DEF ProcessInv, Down
<1>4. CASE SyncEventFails
  <2>1. process \in Processes /\ process.phase = "serving" /\ process' = [process EXCEPT !.step = "idle"]
    BY <1>4, Running DEF SyncEventFails, At
  <2>2. /\ process'.phase = "serving" /\ process'.step = "idle" /\ process'.seq = process.seq
        /\ process'.head = process.head /\ process'.key = process.key
    BY <2>1 DEF Processes
  <2>3. ProcessInv'
    BY <1>1, <2>1, <2>2 DEF ProcessInv, Serving, Events, Rotations
  <2> QED BY <1>2, <2>3
<1> QED BY <1>3, <1>4 DEF Exit, Kill, SyncRotationFails

LEMMA HealthOpen ==
  ASSUME Typed, SnapshotOpens, NEW k \in Keys, NEW phase \in {"serving", "rotating"}, Open(k, phase)
  PROVE  Survivors' /\ ProcessInv' /\ SnapshotOpens'
<1>1. /\ UNCHANGED <<disk, snapshot, damaged>> /\ offered' = {k} /\ Opens(k, Events, Rotations)
      /\ \A f \in Files : read'[f] = Len(disk[f].records)
      /\ process' \in {Down, Loaded(k, phase)}
  BY DEF Open, Readable, Events, Rotations
<1>2. /\ Events \in Seq(EventRecords) /\ Rotations \in Seq(RotationRecords)
      /\ "events" \in Files /\ "rotations" \in Files
      /\ \A f \in Files : /\ Len(disk[f].records) \in Nat /\ disk[f].durable \in Nat
                          /\ disk[f].durable <= Len(disk[f].records)
  BY FileTypes
<1>3. Events' = Events /\ Rotations' = Rotations
  BY <1>1 DEF Events, Rotations
<1>4. Settled("events")' = Len(Events) /\ Settled("rotations")' = Len(Rotations)
  BY <1>1, <1>2 DEF Settled, Events, Rotations
<1>5. \A e \in Len(Events) .. Len(Events), r \in Len(Rotations) .. Len(Rotations) :
        Opens(k, SubSeq(Events, 1, e), SubSeq(Rotations, 1, r))
  BY <1>1, <1>2, OnlyWhole
<1>6. Survivors'
  BY <1>1, <1>3, <1>4, <1>5 DEF Survivors
<1>7. ProcessInv'
  <2>1. CASE process' = Down
    BY <2>1 DEF ProcessInv, Down
  <2>2. CASE process' = Loaded(k, phase)
    <3>1. /\ process'.phase = phase /\ process'.step = "idle" /\ process'.key = k
          /\ process'.seq = Len(Events) /\ process'.head = HeadOf(Events)
          /\ process'.rotationSeq = Len(Rotations) /\ process'.lastRotation = HeadOf(Rotations)
      BY <2>2 DEF Loaded, Events, Rotations
    <3>2. read'["events"] = Len(Events) /\ read'["rotations"] = Len(Rotations) /\ Len(Events) \in Nat
      BY <1>1, <1>2 DEF Events, Rotations
    <3>3. Serving'
      BY <1>1, <1>3, <3>1, <3>2 DEF Serving
    <3>4. Rotating'
      BY <1>1, <1>3, <3>1, <3>2 DEF Rotating
    <3> QED BY <3>3, <3>4 DEF ProcessInv
  <2> QED BY <1>1, <2>1, <2>2
<1>8. SnapshotOpens'
  BY <1>1 DEF SnapshotOpens
<1> QED BY <1>6, <1>7, <1>8

LEMMA HealthShort ==
  ASSUME SnapshotOpens, EventShort \/ RotationShort
  PROVE  Survivors' /\ ProcessInv' /\ SnapshotOpens'
<1>1. damaged' = TRUE /\ UNCHANGED snapshot
  BY DEF EventShort, RotationShort
<1>2. Survivors' /\ ProcessInv'
  BY <1>1 DEF Survivors, ProcessInv
<1>3. SnapshotOpens'
  BY <1>1 DEF SnapshotOpens
<1> QED BY <1>2, <1>3

LEMMA HealthWrite ==
  ASSUME Typed, Survivors, ProcessInv, SnapshotOpens, WriteEvent
  PROVE  Survivors' /\ ProcessInv' /\ SnapshotOpens'
<1>1. /\ process.phase = "serving" /\ process.step = "idle"
      /\ disk' = Appended("events", NewEvent) /\ process' = [process EXCEPT !.step = "event"]
      /\ UNCHANGED <<snapshot, offered, read>>
      /\ damaged' = (damaged \/ Collides("events", process.seq))
  BY DEF WriteEvent, At
<1>2. process \in Processes /\ NewEvent \in EventRecords /\ NewEvent.id # 0
  BY <1>1, Running, NewTypes, KeysAssumption
<1>3. SnapshotOpens'
  BY <1>1 DEF SnapshotOpens
<1>4. CASE damaged \/ Collides("events", process.seq)
  <2>1. damaged' = TRUE
    BY <1>1, <1>4, Zenon
  <2> QED BY <1>3, <2>1 DEF Survivors, ProcessInv
<1>5. CASE ~damaged /\ ~Collides("events", process.seq)
  <2>1. Serving
    BY <1>1, <1>5 DEF ProcessInv
  <2>2. /\ Events \in Seq(EventRecords) /\ Rotations \in Seq(RotationRecords) /\ "events" \in Files
        /\ "rotations" \in Files /\ Len(Events) \in Nat /\ Len(Rotations) \in Nat
        /\ Settled("events") \in Nat /\ Settled("rotations") \in 0 .. Len(Rotations)
        /\ read["rotations"] <= Settled("rotations") /\ process.seq \in Nat /\ process.key \in Keys
    BY <1>2, FileTypes DEF Events, Rotations, Processes
  <2>3. process.seq = Len(Events)
    BY <1>5, <2>1, <2>2 DEF Serving, Collides, Events
  <2>4. NewEvent.seq = Len(Events) + 1 /\ NewEvent.prev = HeadOf(Events) /\ NewEvent.key = process.key
    BY <2>1, <2>3 DEF NewEvent, Serving
  <2>5. Opens(process.key, Append(Events, NewEvent), Rotations)
    BY <1>2, <2>1, <2>2, <2>4, OpensWithEvent DEF Serving
  <2>6. /\ Events' = Append(Events, NewEvent) /\ Rotations' = Rotations
        /\ disk'["events"].durable = disk["events"].durable
        /\ disk'["rotations"].durable = disk["rotations"].durable
    <3>1. NewEvent \in Records("events")
      BY <1>2 DEF Records
    <3>2. disk'["events"].records = Append(Events, NewEvent) /\ disk'["events"].durable = disk["events"].durable
          /\ disk'["rotations"] = disk["rotations"]
      BY <1>1, <2>2, <3>1, AppendedIs DEF Events
    <3> QED BY <3>2 DEF Events, Rotations
  <2>7. Settled("events")' = Settled("events") /\ Settled("rotations")' = Settled("rotations")
    BY <1>1, <2>6 DEF Settled
  <2>8. Len(Events') = Len(Events) + 1 /\ Events' \in Seq(EventRecords)
    BY <1>2, <2>2, <2>6, Appends
  <2>9. ASSUME NEW e \in Settled("events") .. Len(Events) + 1, NEW r \in Settled("rotations") .. Len(Rotations)
        PROVE  \E k \in offered : Opens(k, SubSeq(Events', 1, e), SubSeq(Rotations, 1, r))
    <3>1. CASE e = Len(Events) + 1
      <4>1. r = Len(Rotations) /\ r \in 0 .. Len(Rotations)
        BY <2>1, <2>2 DEF Serving
      <4>2. SubSeq(Events', 1, e) = Events' /\ SubSeq(Rotations, 1, r) = Rotations
        BY <2>2, <2>8, <3>1, <4>1, Prefixes
      <4> QED BY <2>1, <2>5, <2>6, <4>2 DEF Serving
    <3>2. CASE e # Len(Events) + 1
      <4>1. e \in Settled("events") .. Len(Events) /\ e \in 0 .. Len(Events)
        BY <2>2, <3>2
      <4>2. SubSeq(Events', 1, e) = SubSeq(Events, 1, e)
        BY <1>2, <2>2, <2>6, <4>1, PrefixOfAppend
      <4> QED BY <1>5, <4>1, <4>2 DEF Survivors
    <3> QED BY <3>1, <3>2
  <2>10. Survivors'
    BY <1>1, <2>6, <2>7, <2>8, <2>9 DEF Survivors
  <2>11. /\ process'.phase = "serving" /\ process'.step = "event" /\ process'.seq = process.seq
         /\ process'.head = process.head /\ process'.key = process.key
    BY <1>1, <1>2 DEF Processes
  <2>12. Serving'
    BY <1>1, <2>1, <2>2, <2>3, <2>5, <2>6, <2>8, <2>11 DEF Serving
  <2>13. ProcessInv'
    BY <2>11, <2>12 DEF ProcessInv
  <2> QED BY <1>3, <2>10, <2>13
<1> QED BY <1>4, <1>5

LEMMA HealthSync ==
  ASSUME Typed, Typed', Survivors, ProcessInv, SnapshotOpens, SyncEvent
  PROVE  Survivors' /\ ProcessInv' /\ SnapshotOpens'
<1>1. /\ process.phase = "serving" /\ process.step = "event" /\ disk' = Synced("events")
      /\ process' = [process EXCEPT !.step = "idle", !.seq = @ + 1, !.head = HeadOf(Events)]
      /\ UNCHANGED <<snapshot, offered, read, damaged>>
  BY DEF SyncEvent, At, Events
<1>2. process \in Processes /\ process.seq \in Nat
  BY <1>1, Running DEF Processes
<1>3. SnapshotOpens'
  BY <1>1 DEF SnapshotOpens
<1>4. "events" \in Files /\ \A f \in Files : /\ disk[f].durable \in Nat /\ read[f] \in Nat
                                             /\ disk[f].durable <= Len(disk[f].records)
                                             /\ read[f] <= Len(disk[f].records)
                                             /\ Len(disk[f].records) \in Nat
  BY FileTypes
<1>5. /\ disk'["events"].durable = Len(disk["events"].records)
      /\ \A g \in Files \ {"events"} : disk'[g] = disk[g]
      /\ \A g \in Files : disk'[g].records = disk[g].records
  BY <1>1, <1>4, SyncedIs
<1>6. \A f \in Files : Settled(f) <= Settled(f)'
  BY <1>1, <1>4, <1>5 DEF Settled
<1>7. Survivors'
  BY <1>1, <1>5, <1>6, SurvivorsFewer
<1>8. /\ process'.phase = "serving" /\ process'.step = "idle" /\ process'.seq = process.seq + 1
      /\ process'.head = HeadOf(Events) /\ process'.key = process.key
  BY <1>1, <1>2 DEF Processes
<1>9. ASSUME ~damaged PROVE Serving'
  <2>1. Serving
    BY <1>1, <1>9 DEF ProcessInv
  <2>2. Events' = Events /\ Rotations' = Rotations /\ Len(Events) \in Nat
    BY <1>4, <1>5 DEF Events, Rotations, Files
  <2> QED BY <1>1, <1>2, <1>8, <2>1, <2>2 DEF Serving
<1>10. ProcessInv'
  BY <1>1, <1>8, <1>9 DEF ProcessInv
<1> QED BY <1>3, <1>7, <1>10

LEMMA HealthWriteRotation ==
  ASSUME Typed, Survivors, ProcessInv, SnapshotOpens, NEW n \in Keys, WriteRotation(n)
  PROVE  Survivors' /\ ProcessInv' /\ SnapshotOpens'
<1>1. /\ process.phase = "rotating" /\ process.step = "idle"
      /\ disk' = Appended("rotations", NewRotation(n)) /\ process' = [process EXCEPT !.step = "rotation"]
      /\ offered' = offered \cup {n} /\ UNCHANGED <<snapshot, read, damaged>>
  BY DEF WriteRotation, At
<1>2. process \in Processes /\ NewRotation(n) \in RotationRecords /\ NewRotation(n).id # 0
  BY <1>1, Running, NewTypes
<1>3. SnapshotOpens'
  BY <1>1 DEF SnapshotOpens
<1>4. /\ process'.phase = "rotating" /\ process'.step = "rotation" /\ process'.head = process.head
  BY <1>1, <1>2 DEF Processes
<1>5. CASE damaged
  BY <1>1, <1>3, <1>5 DEF Survivors, ProcessInv
<1>6. CASE ~damaged
  <2>1. Rotating
    BY <1>1, <1>6 DEF ProcessInv
  <2>2. /\ Events \in Seq(EventRecords) /\ Rotations \in Seq(RotationRecords) /\ "events" \in Files
        /\ "rotations" \in Files /\ Len(Events) \in Nat /\ Len(Rotations) \in Nat
        /\ Settled("events") \in 0 .. Len(Events) /\ Settled("rotations") \in 0 .. Len(Rotations)
        /\ read["events"] <= Settled("events") /\ process.key \in Keys
    BY <1>2, FileTypes DEF Events, Rotations, Processes
  <2>3. /\ NewRotation(n).seq = Len(Rotations) + 1 /\ NewRotation(n).prev = HeadOf(Rotations)
        /\ NewRotation(n).new = n /\ NewRotation(n).head = HeadOf(Events)
        /\ Opens(process.key, Events, Rotations)
    BY <1>1, <2>1 DEF NewRotation, Rotating
  <2>4. Opens(n, Events, Append(Rotations, NewRotation(n)))
    BY <1>2, <2>2, <2>3, OpensWithRotation
  <2>5. /\ Rotations' = Append(Rotations, NewRotation(n)) /\ Events' = Events
        /\ disk'["events"].durable = disk["events"].durable
        /\ disk'["rotations"].durable = disk["rotations"].durable
    <3>1. NewRotation(n) \in Records("rotations")
      BY <1>2 DEF Records
    <3>2. disk'["rotations"].records = Append(Rotations, NewRotation(n))
          /\ disk'["rotations"].durable = disk["rotations"].durable
          /\ disk'["events"] = disk["events"]
      BY <1>1, <2>2, <3>1, AppendedIs DEF Rotations
    <3> QED BY <3>2 DEF Events, Rotations
  <2>6. Settled("events")' = Settled("events") /\ Settled("rotations")' = Settled("rotations")
    BY <1>1, <2>5 DEF Settled
  <2>7. Len(Rotations') = Len(Rotations) + 1 /\ Rotations' \in Seq(RotationRecords)
        /\ Latest(Rotations') = NewRotation(n)
    BY <1>2, <2>2, <2>5, Appends
  <2>8. ASSUME NEW e \in Settled("events") .. Len(Events), NEW r \in Settled("rotations") .. Len(Rotations) + 1
        PROVE  \E k \in offered' : Opens(k, SubSeq(Events, 1, e), SubSeq(Rotations', 1, r))
    <3>1. CASE r = Len(Rotations) + 1
      <4>1. e = Len(Events) /\ e \in 0 .. Len(Events)
        BY <2>1, <2>2 DEF Rotating
      <4>2. SubSeq(Events, 1, e) = Events /\ SubSeq(Rotations', 1, r) = Rotations'
        BY <2>2, <2>7, <3>1, <4>1, Prefixes
      <4> QED BY <1>1, <2>4, <2>5, <4>2
    <3>2. CASE r # Len(Rotations) + 1
      <4>1. r \in Settled("rotations") .. Len(Rotations) /\ r \in 0 .. Len(Rotations)
        BY <2>2, <3>2
      <4>2. SubSeq(Rotations', 1, r) = SubSeq(Rotations, 1, r)
        BY <1>2, <2>2, <2>5, <4>1, PrefixOfAppend
      <4> QED BY <1>1, <1>6, <4>1, <4>2 DEF Survivors
    <3> QED BY <3>1, <3>2
  <2>9. Survivors'
    BY <2>5, <2>6, <2>7, <2>8 DEF Survivors
  <2>10. Rotating'
    BY <1>1, <1>4, <2>1, <2>3, <2>4, <2>5, <2>7 DEF Rotating
  <2>11. ProcessInv'
    BY <1>4, <2>10 DEF ProcessInv
  <2> QED BY <1>3, <2>9, <2>11
<1> QED BY <1>5, <1>6

LEMMA HealthSyncRotation ==
  ASSUME Typed, Survivors, ProcessInv, SnapshotOpens, SyncRotation
  PROVE  Survivors' /\ ProcessInv' /\ SnapshotOpens'
<1>1. /\ process.phase = "rotating" /\ process.step = "rotation" /\ disk' = Synced("rotations")
      /\ process' = Down /\ offered' = {Latest(Rotations).new} /\ UNCHANGED <<snapshot, read, damaged>>
  BY DEF SyncRotation, At, Rotations
<1>2. SnapshotOpens' /\ ProcessInv'
  BY <1>1 DEF SnapshotOpens, ProcessInv, Down
<1>3. ASSUME ~damaged PROVE Survivors'
  <2>1. Rotating
    BY <1>1, <1>3 DEF ProcessInv
  <2>2. /\ Events \in Seq(EventRecords) /\ Rotations \in Seq(RotationRecords)
        /\ "events" \in Files /\ "rotations" \in Files
        /\ \A f \in Files : /\ disk[f].durable \in Nat /\ read[f] \in Nat
                            /\ disk[f].durable <= Len(disk[f].records)
                            /\ read[f] <= Len(disk[f].records)
                            /\ Len(disk[f].records) \in Nat
    BY FileTypes
  <2>3. /\ disk'["rotations"].durable = Len(disk["rotations"].records)
        /\ disk'["events"] = disk["events"]
        /\ Events' = Events /\ Rotations' = Rotations
    BY <1>1, <2>2, SyncedIs DEF Events, Rotations
  <2>4. Settled("events")' = Len(Events) /\ Settled("rotations")' = Len(Rotations)
    BY <1>1, <2>1, <2>2, <2>3 DEF Settled, Rotating, Events, Rotations
  <2>5. Opens(Latest(Rotations).new, Events, Rotations)
    BY <1>1, <2>1 DEF Rotating
  <2>6. \A e \in Len(Events) .. Len(Events), r \in Len(Rotations) .. Len(Rotations) :
          Opens(Latest(Rotations).new, SubSeq(Events, 1, e), SubSeq(Rotations, 1, r))
    BY <2>2, <2>5, OnlyWhole
  <2> QED BY <1>1, <2>3, <2>4, <2>6 DEF Survivors
<1>4. damaged => Survivors'
  BY <1>1 DEF Survivors
<1> QED BY <1>2, <1>3, <1>4

LEMMA HealthSnapshot ==
  ASSUME Typed, Survivors, ProcessInv, CreateSnapshot
  PROVE  Survivors' /\ ProcessInv' /\ SnapshotOpens'
<1>1. /\ UNCHANGED <<disk, process, offered, read, damaged>> /\ process.phase = "serving"
      /\ snapshot'.key = process.key /\ snapshot'.damaged = damaged
  BY DEF CreateSnapshot, At
<1>2. Survivors' /\ ProcessInv'
  BY <1>1 DEF Survivors, ProcessInv, Settled, Events, Rotations, Serving, Rotating
<1>3. snapshot'.files["events"] = Events /\ snapshot'.files["rotations"] = Rotations
  BY SnapshotTyped DEF Events, Rotations, Files
<1>4. ~damaged => Opens(process.key, Events, Rotations)
  BY <1>1 DEF ProcessInv, Serving
<1>5. SnapshotOpens'
  BY <1>1, <1>3, <1>4 DEF SnapshotOpens
<1> QED BY <1>2, <1>5

LEMMA HealthRestore ==
  ASSUME Typed, SnapshotOpens, Restore
  PROVE  Survivors' /\ ProcessInv' /\ SnapshotOpens'
<1>1. /\ process'.phase = "down" /\ UNCHANGED snapshot /\ offered' = {snapshot.key}
      /\ damaged' = snapshot.damaged /\ snapshot # NoSnapshot
  BY DEF Restore
<1>2. SnapshotOpens' /\ ProcessInv'
  BY <1>1 DEF SnapshotOpens, ProcessInv
<1>3. /\ Events' = snapshot.files["events"] /\ Rotations' = snapshot.files["rotations"]
      /\ Settled("events")' = Len(Events') /\ Settled("rotations")' = Len(Rotations')
  BY RestoreTyped DEF Events, Rotations, Settled, Files
<1>4. Events' \in Seq(EventRecords) /\ Rotations' \in Seq(RotationRecords)
  BY RestoreTyped DEF Typed, Events, Rotations, Records, Files
<1>5. ASSUME ~snapshot.damaged PROVE Survivors'
  <2>1. Opens(snapshot.key, Events', Rotations')
    BY <1>1, <1>3, <1>5 DEF SnapshotOpens
  <2>2. \A e \in Len(Events') .. Len(Events'), r \in Len(Rotations') .. Len(Rotations') :
          Opens(snapshot.key, SubSeq(Events', 1, e), SubSeq(Rotations', 1, r))
    BY <1>4, <2>1, OnlyWhole
  <2> QED BY <1>1, <1>3, <2>2 DEF Survivors
<1>6. snapshot.damaged => Survivors'
  BY <1>1 DEF Survivors
<1> QED BY <1>2, <1>5, <1>6

\* What is left is one of the pairs of prefixes that were known to open.
LEMMA HealthPower ==
  ASSUME Typed, Typed', Survivors, SnapshotOpens, PowerLoss
  PROVE  Survivors' /\ ProcessInv' /\ SnapshotOpens'
<1>1. process' = Down /\ UNCHANGED <<snapshot, offered>> /\ \A f \in Files : read'[f] = Len(disk'[f].records)
  BY DEF PowerLoss
<1>2. SnapshotOpens' /\ ProcessInv'
  BY <1>1 DEF SnapshotOpens, ProcessInv, Down
<1>3. CASE damaged'
  BY <1>2, <1>3 DEF Survivors
<1>4. CASE ~damaged'
  <2>1. PICK events \in Survivals("events"), rotations \in Survivals("rotations") :
          /\ disk' = [f \in Files |-> IF f = "events" THEN events ELSE rotations]
          /\ damaged' = (damaged \/ Harmed("events", events) \/ Harmed("rotations", rotations))
    BY DEF PowerLoss
  <2>2. ~damaged /\ ~Harmed("events", events) /\ ~Harmed("rotations", rotations)
    BY <1>4, <2>1, Zenon
  <2>3. disk'["events"] = events /\ disk'["rotations"] = rotations /\ "events" \in Files /\ "rotations" \in Files
    BY <2>1 DEF Files
  <2> DEFINE e == Len(events.records)
             r == Len(rotations.records)
  <2>4. /\ e \in disk["events"].durable .. Len(Events) /\ r \in disk["rotations"].durable .. Len(Rotations)
        /\ events.durable = e /\ rotations.durable = r
        /\ events.records \in Seq(EventRecords) /\ rotations.records \in Seq(RotationRecords)
    BY <2>3, SurvivalIs DEF Events, Rotations, Records
  <2>5. /\ ~(e < read["events"]) /\ ~(r < read["rotations"])
        /\ events.records = SubSeq(Events, 1, e) /\ rotations.records = SubSeq(Rotations, 1, r)
    BY <2>2 DEF Harmed, Events, Rotations
  <2>6. e \in Settled("events") .. Len(Events) /\ r \in Settled("rotations") .. Len(Rotations)
    BY <2>3, <2>4, <2>5, FileTypes DEF Settled
  <2>7. PICK k \in offered : Opens(k, events.records, rotations.records)
    BY <2>2, <2>5, <2>6 DEF Survivors
  <2>8. Events' = events.records /\ Rotations' = rotations.records
        /\ Settled("events")' = e /\ Settled("rotations")' = r
    BY <1>1, <2>3, <2>4 DEF Events, Rotations, Settled
  <2>9. \A i \in e .. e, j \in r .. r : Opens(k, SubSeq(events.records, 1, i), SubSeq(rotations.records, 1, j))
    BY <2>4, <2>7, OnlyWhole
  <2> HIDE DEF e, r
  <2>10. Len(Events') = e /\ Len(Rotations') = r
    BY <2>8 DEF e, r
  <2>11. Survivors'
    BY <1>1, <2>8, <2>9, <2>10 DEF Survivors
  <2> QED BY <1>2, <2>11
<1> QED BY <1>3, <1>4

-----------------------------------------------------------------------------
LEMMA InitInv == Init => KeysInv
<1> SUFFICES ASSUME Init PROVE KeysInv
  OBVIOUS
<1>1. Typed
  BY InitTyped
<1>2. Events = <<>> /\ Rotations = <<>> /\ disk["rotations"].durable = 0
  BY DEF Init, Events, Rotations, NoFile, Files
<1>3. Survivors
  <2>1. PICK k : k \in offered
    BY KeysAssumption DEF Init
  <2>2. \A e \in 0 .. 0, r \in 0 .. 0 : SubSeq(Events, 1, e) = <<>> /\ SubSeq(Rotations, 1, r) = <<>>
    BY <1>2, SubSeqEmpty
  <2>3. Settled("events") = 0 /\ Settled("rotations") = 0 /\ Len(Events) = 0 /\ Len(Rotations) = 0
    BY <1>2 DEF Settled, Init, NoFile, Files
  <2> QED BY <2>1, <2>2, <2>3, EmptyOpens DEF Survivors
<1>4. ProcessInv /\ SnapshotOpens
  BY DEF Init, ProcessInv, SnapshotOpens, Down
<1>5. RetiredInv
  BY <1>2 DEF Init, RetiredInv, Replaced, Down
<1> QED BY <1>1, <1>3, <1>4, <1>5 DEF KeysInv

LEMMA KeysNext == KeysInv /\ [Next]_vars => KeysInv'
<1> SUFFICES ASSUME Typed, Survivors, ProcessInv, SnapshotOpens, RetiredInv, [Next]_vars PROVE KeysInv'
  BY DEF KeysInv
<1>1. ASSUME NEW k \in Keys, NEW phase \in {"serving", "rotating"}, Open(k, phase) PROVE KeysInv'
  <2>1. RetiredInv'
    BY <1>1, RetiredKept DEF Open, Loaded, Down
  <2> QED BY <1>1, <2>1, OpenTyped, HealthOpen DEF KeysInv
<1>2. CASE Exit \/ Kill \/ SyncEventFails \/ SyncRotationFails
  <2>1. Typed'
    BY <1>2, ProcessTyped
  <2>2. Survivors' /\ ProcessInv' /\ SnapshotOpens'
    BY <1>2, <2>1, HealthProcess
  <2>3. UNCHANGED <<disk, snapshot, retired>>
    BY <1>2 DEF Exit, Kill, SyncEventFails, SyncRotationFails
  <2>4. ~(process'.phase = "rotating" /\ process'.step = "rotation")
    <3>1. CASE SyncEventFails
      BY <3>1, Running DEF SyncEventFails, At, Processes
    <3>2. CASE process' = Down
      BY <3>2 DEF Down
    <3> QED BY <1>2, <3>1, <3>2 DEF Exit, Kill, SyncRotationFails
  <2> QED BY <2>1, <2>2, <2>3, <2>4, RetiredKept DEF KeysInv
<1>3. CASE WriteEvent \/ EventShort
  <2>1. Typed'
    BY <1>3, WriteTyped
  <2>2. Survivors' /\ ProcessInv' /\ SnapshotOpens'
    BY <1>3, HealthWrite, HealthShort
  <2>3. disk'["rotations"] = disk["rotations"]
    <3>1. NewEvent \in Records("events") /\ Partial \in Records("events")
          /\ "events" \in Files /\ "rotations" \in Files
      BY <1>3, KeysAssumption, NewTypes DEF WriteEvent, EventShort, At, Records, EventRecords, Files
    <3> QED BY <1>3, <3>1, AppendedIs DEF WriteEvent, EventShort
  <2>4. process'.phase = "serving" /\ UNCHANGED <<snapshot, retired>>
    BY <1>3, Running DEF WriteEvent, EventShort, At, Processes
  <2> QED BY <2>1, <2>2, <2>3, <2>4, RetiredKept DEF KeysInv
<1>4. CASE SyncEvent
  <2>1. Typed'
    BY <1>4, SyncTyped
  <2>2. Survivors' /\ ProcessInv' /\ SnapshotOpens'
    BY <1>4, <2>1, HealthSync
  <2>3. disk'["rotations"] = disk["rotations"]
    BY <1>4, SyncedIs DEF SyncEvent, Files
  <2>4. process'.phase = "serving" /\ UNCHANGED <<snapshot, retired>>
    BY <1>4, Running DEF SyncEvent, At, Processes
  <2> QED BY <2>1, <2>2, <2>3, <2>4, RetiredKept DEF KeysInv
<1>5. CASE RotationShort \/ \E n \in Keys : WriteRotation(n)
  BY <1>5, WriteTyped, HealthShort, HealthWriteRotation, RetiredWrite DEF KeysInv
<1>6. CASE SyncRotation
  BY <1>6, SyncTyped, HealthSyncRotation, RetiredSync DEF KeysInv
<1>7. CASE CreateSnapshot \/ Restore
  BY <1>7, SnapshotTyped, RestoreTyped, HealthSnapshot, HealthRestore, RetiredSnapshot DEF KeysInv
<1>8. CASE PowerLoss
  <2>1. Typed'
    BY <1>8, PowerTyped
  <2> QED BY <1>8, <2>1, HealthPower, RetiredPower DEF KeysInv
<1>9. CASE UNCHANGED vars
  <2>1. UNCHANGED <<disk, process, made, snapshot, offered, retired, read, damaged>>
    BY <1>9 DEF vars
  <2>2. Typed'
    BY <2>1 DEF Typed
  <2>3. Survivors' /\ ProcessInv' /\ SnapshotOpens' /\ RetiredInv'
    BY <2>1 DEF Survivors, ProcessInv, SnapshotOpens, RetiredInv, Settled, Events, Rotations, Serving, Rotating
  <2> QED BY <2>2, <2>3 DEF KeysInv
<1> QED BY <1>1, <1>2, <1>3, <1>4, <1>5, <1>6, <1>7, <1>8, <1>9 DEF Next

LEMMA KeysInvariant == Spec => []KeysInv
BY InitInv, KeysNext, PTL DEF Spec

-----------------------------------------------------------------------------
(***************************************************************************)
(* For every set of keys, every combination of kill, power loss, failed    *)
(* fsync and short write, and any number of rotations: unless a file was   *)
(* harmed, one of the keys the operator was led to use opens the store     *)
(* (RotateIntegrityKey, loadKeyRotations, loadJournal).                    *)
(***************************************************************************)
THEOREM OfferedKeyOpens == Spec => []ToldKeyOpens
<1>1. ASSUME KeysInv, ~damaged PROVE \E k \in offered : Readable(k)
  <2>1. /\ Events \in Seq(EventRecords) /\ Rotations \in Seq(RotationRecords)
        /\ Len(Events) \in Settled("events") .. Len(Events)
        /\ Len(Rotations) \in Settled("rotations") .. Len(Rotations)
        /\ Len(Events) \in 0 .. Len(Events) /\ Len(Rotations) \in 0 .. Len(Rotations)
    BY <1>1, FileTypes DEF KeysInv, Events, Rotations
  <2>2. PICK k \in offered : Opens(k, SubSeq(Events, 1, Len(Events)), SubSeq(Rotations, 1, Len(Rotations)))
    BY <1>1, <2>1 DEF KeysInv, Survivors
  <2>3. SubSeq(Events, 1, Len(Events)) = Events /\ SubSeq(Rotations, 1, Len(Rotations)) = Rotations
    BY <2>1, Prefixes
  <2> QED BY <2>2, <2>3 DEF Readable, Events, Rotations
<1>2. KeysInv => ToldKeyOpens
  BY <1>1 DEF ToldKeyOpens
<1> QED BY KeysInvariant, <1>2, PTL

(***************************************************************************)
(* A key that an acknowledged rotation replaced never opens the store      *)
(* again, harmed or not, until a later rotation or an older snapshot       *)
(* brings it back (loadKeyRotations).                                      *)
(***************************************************************************)
THEOREM RetiredForGood == Spec => []RetiredStaysOut
<1>1. ASSUME KeysInv, NEW k \in retired PROVE ~Readable(k)
  <2>1. /\ Rotations \in Seq(RotationRecords) /\ Len(Rotations) \in Nat
        /\ disk["rotations"].durable \in Nat /\ disk["rotations"].durable <= Len(Rotations)
    BY <1>1, FileTypes DEF KeysInv, Rotations
  <2>2. Len(Rotations) >= 1 /\ Len(Rotations) \in disk["rotations"].durable .. Len(Rotations)
    BY <1>1, <2>1 DEF KeysInv, RetiredInv, Replaced
  <2>3. Latest(Rotations).id = 0 \/ Latest(Rotations).new # k
    BY <1>1, <2>2 DEF KeysInv, RetiredInv, Replaced, Latest
  <2> QED BY <2>1, <2>2, <2>3, OpensFor DEF Readable, Rotations
<1>2. KeysInv => RetiredStaysOut
  BY <1>1 DEF RetiredStaysOut
<1> QED BY KeysInvariant, <1>2, PTL

(***************************************************************************)
(* A snapshot opens with the key it was taken under, whatever the file of  *)
(* rotations went through before or since (CreateSnapshot).                *)
(***************************************************************************)
THEOREM SnapshotUsable == Spec => []SnapshotOpens
BY KeysInvariant, PTL DEF KeysInv

(***************************************************************************)
(* In every state, of any files whatever: a key that openStore accepts     *)
(* passes the second verification NewServer makes over the state the first *)
(* one left (SetIntegrityKey, which zeroes what the rotations set).        *)
(***************************************************************************)
THEOREM NewServerAgrees == Spec => []SecondReadingAgrees
<1>1. ASSUME NEW k \in Keys, Readable(k) PROVE SecondReading(Loaded(k, "serving"), k)
  <2> DEFINE p == Loaded(k, "serving")
  <2>1. Reset(p).rotationSeq = 0 /\ Reset(p).anchor = 0
    BY DEF Reset, Loaded
  <2>2. (IF Rotations = <<>> THEN Reset(p).anchor ELSE Anchor(Rotations)) = Anchor(Rotations)
    BY <2>1 DEF Anchor
  <2>3. RotationsOpen(k, Rotations, 0) /\ EventsOpen(k, Events, Anchor(Rotations))
    BY <1>1 DEF Readable, Opens, Events, Rotations
  <2> HIDE DEF p
  <2> QED BY <2>1, <2>2, <2>3 DEF SecondReading, Events, Rotations, p
<1>2. SecondReadingAgrees
  BY <1>1 DEF SecondReadingAgrees
<1> QED BY <1>2, PTL
=============================================================================
