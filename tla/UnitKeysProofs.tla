--------------------------- MODULE UnitKeysProofs ---------------------------
(***************************************************************************)
(* What replacing the unit's key achieves, for every unit, every number of *)
(* generations, tickets, files and crashes, and one removal.               *)
(*                                                                         *)
(* The argument is about the moment a Master wraps a generation (basis):   *)
(* whoever it had read to be removed gets no copy, has no ticket open, and *)
(* was given its own package before, when the generation was not there.    *)
(* Nothing that happens later changes what was known then, since the log   *)
(* only grows and the package of a device that joined stays (SameThen).    *)
(* The second theorem adds the order of the history: the generation that   *)
(* ends a removal has a later clock than all its maker had read.           *)
(***************************************************************************)
EXTENDS UnitKeys, SequenceTheorems, WellFoundedInduction, TLAPS

Places == 1 .. Len(log)
Rotations == RecordsOf(Places, "rotate")
Logged == {log[n].epoch : n \in Rotations}

Written == [type : {"remove", "rotate", "ticket", "recoveryKey", "redeemed", "introduced"},
            author : Device, who : Person, under : Nat, clock : Nat, epoch : Nat, grants : SUBSET Int]
Packages == [kind : {"none", "ticket", "recoveryKey"}, keys : SUBSET Nat, current : Nat]
CallStates ==
  {Idle} \cup [at : {"removed", "ticket", "recoveryKey"}, who : Person]
    \cup [at : {"wrapped", "announced"}, epoch : Nat, under : Nat, grants : SUBSET Int, who : Person]

Shape ==
  /\ setup.rotations \in Nat
  /\ log \in Seq(Written)
  /\ arrived \in [Device -> SUBSET Places]
  /\ keys \in [Device -> SUBSET Nat]
  /\ current \in [Device -> Nat]
  /\ call \in [Device -> CallStates]
  /\ package \in [Newcomer -> Packages]
  /\ joined \subseteq Newcomer \cap Device
  /\ basis \in [Epoch -> SUBSET (Places \cup {0})]
  /\ finished \subseteq [by : Device, who : Person, epoch : Nat]

\* A device that is not in has nothing.
Outsiders == \A d \in Device : ~Joined(d) => arrived[d] = {} /\ keys[d] = {} /\ call[d] = Idle

\* A device reads what it wrote, and only who is in writes; of removals there is one.
Present(n) ==
  /\ n \in arrived[log[n].author] /\ log[n].under \in keys[log[n].author] /\ Joined(log[n].author)
  /\ log[n].type = "rotate" \/ log[n].epoch = First
WrittenTruly ==
  /\ \A n \in Places : Present(n)
  /\ \A m, n \in RecordsOf(Places, "remove") : m = n

\* Keys come from the history, or from the founding.
Stored(d) == keys[d] \subseteq {First} \cup Logged /\ (Joined(d) => current[d] \in keys[d])
Stocked(p) ==
  /\ package[p].keys \subseteq {First} \cup Logged
  /\ package[p].kind # "none" => package[p].current \in package[p].keys
KeysAreLogged == (\A d \in Device : Stored(d)) /\ \A p \in Newcomer : Stocked(p)

\* A newcomer's package is made once, by one device, and stays when it was handed over.
Packing(d, p) == call[d].at \in {"ticket", "recoveryKey"} /\ call[d].who = p
HandedOver(p) == package[p].kind # "none" /\ \A d \in Device : ~Packing(d, p)
PackedOnce ==
  /\ \A d \in Device : call[d].at \in {"ticket", "recoveryKey"} =>
       call[d].who \in Newcomer /\ package[call[d].who].kind # "none"
  /\ \A p \in Newcomer : \A d, e \in Device : Packing(d, p) /\ Packing(e, p) => d = e
  /\ \A n \in Places : log[n].type \in {"ticket", "recoveryKey"} =>
       log[n].who \in Newcomer /\ HandedOver(log[n].who)
  /\ \A p \in joined : HandedOver(p)

\* Whoever was read to be removed gets no copy of a generation, and was not given it before.
KeptFrom(e, copies) ==
  \A p \in RemovedIn(Knew(e)) :
    /\ p \notin copies
    /\ p \in Newcomer => TicketOf(p) \notin copies /\ e \notin package[p].keys

\* A generation is made once, by a Master who had read what its basis says.
Sound(n) ==
  /\ log[n].epoch \in Epoch \ {First} /\ basis[log[n].epoch] # {}
  /\ IsMaster(log[n].author)
  /\ \A k \in Knew(log[n].epoch) : log[k].clock < log[n].clock
  /\ KeptFrom(log[n].epoch, log[n].grants)
Going(d) ==
  /\ call[d].at \in {"removed", "wrapped", "announced"} => IsMaster(d) /\ Joined(d)
  /\ call[d].at = "wrapped" =>
       /\ call[d].epoch \in Epoch \ {First} /\ basis[call[d].epoch] # {} /\ call[d].epoch \notin Logged
       /\ Knew(call[d].epoch) \subseteq Read(d) /\ call[d].under \in keys[d]
       /\ KeptFrom(call[d].epoch, call[d].grants)
  /\ call[d].at = "announced" =>
       \E n \in Rotations : log[n].author = d /\ log[n].epoch = call[d].epoch
Wrapping(d, e) == call[d].at = "wrapped" /\ call[d].epoch = e
MadeOnce ==
  /\ \A n \in Rotations : Sound(n)
  /\ \A m, n \in Rotations : log[m].epoch = log[n].epoch => m = n
  /\ \A d \in Device : Going(d)
  /\ \A e \in Epoch : \A c, d \in Device : Wrapping(c, e) /\ Wrapping(d, e) => c = d

KeysInv == Shape /\ Outsiders /\ WrittenTruly /\ KeysAreLogged /\ PackedOnce /\ MadeOnce

\* A call of revoke knows of its removal all along.
Remembers(d) ==
  /\ call[d].at = "removed" => call[d].who # d /\ call[d].who \in RemovedIn(Read(d))
  /\ call[d].at \in {"wrapped", "announced"} /\ call[d].who # d =>
       call[d].who \in RemovedIn(Knew(call[d].epoch))

\* One that ended left a generation made with that knowledge, and its device writes with that
\* one or with one that comes after it in the history, and so will it with one it is making.
WritesAfter(d, n) == \E c \in Rotations : log[c].epoch = current[d] /\ (c = n \/ Before(log, n, c))
MakesAfter(d, n) ==
  call[d].at = "announced" => \E a \in Rotations : log[a].epoch = call[d].epoch /\ Before(log, n, a)
EndedWell(r) ==
  /\ r.who # r.by /\ r.who \in RemovedIn(Knew(r.epoch)) /\ r.epoch \in keys[r.by]
  /\ \E n \in Rotations : log[n].author = r.by /\ log[n].epoch = r.epoch
  /\ \A n \in Rotations : log[n].author = r.by /\ log[n].epoch = r.epoch =>
       WritesAfter(r.by, n) /\ MakesAfter(r.by, n)

RemovalInv == KeysInv /\ (\A d \in Device : Remembers(d)) /\ \A r \in finished : EndedWell(r)


-----------------------------------------------------------------------------
(* The order of the history. *)

\* Of the records that are there, one comes last: the order is total.
LEMMA LastExists ==
  ASSUME NEW N \in Nat, NEW L,
         \A n \in 1 .. N : L[n].clock \in Nat /\ L[n].author \in Nat,
         NEW S, S \subseteq 1 .. N, S # {}
  PROVE  LastOf(L, S) \in S /\ \A m \in S \ {LastOf(L, S)} : Before(L, m, LastOf(L, S))
<1> DEFINE IsLast(x, T) == x \in T /\ \A m \in T \ {x} : Before(L, m, x)
           To(k) == {n \in S : n <= k}
           Bad == {k \in 0 .. N : To(k) # {} /\ ~ \E x : IsLast(x, To(k))}
<1>1. ASSUME NEW x \in 1 .. N, NEW y \in 1 .. N, x # y
      PROVE  Before(L, x, y) \/ Before(L, y, x)
  BY <1>1 DEF Before
<1>2. ASSUME NEW x \in 1 .. N, NEW y \in 1 .. N, NEW z \in 1 .. N, Before(L, x, y), Before(L, y, z)
      PROVE  Before(L, x, z)
  BY <1>2 DEF Before
<1>3. Bad = {}
  <2> SUFFICES ASSUME Bad # {} PROVE FALSE
    OBVIOUS
  <2> DEFINE R == OpToRel(<, Nat)
  <2>1. IsWellFoundedOn(R, Nat)
    BY NatLessThanWellFounded, Zenon
  <2>2. \A x, y \in Nat : y < x => <<y, x>> \in R
    BY DEF OpToRel
  <2>3. Bad \subseteq Nat
    OBVIOUS
  <2> HIDE DEF R, Bad
  <2>4. PICK k \in Bad : \A l \in Bad : ~ (<<l, k>> \in R)
    BY <2>1, <2>3, WFMin
  <2>5. k \in 0 .. N /\ To(k) # {} /\ ~ \E x : IsLast(x, To(k))
    BY <2>4 DEF Bad
  <2>6. k # 0
    BY <2>5
  <2>a. k \in 0 .. N
    BY <2>5
  <2>b. k - 1 \in 0 .. N /\ k - 1 < k /\ \A n \in 1 .. N : n <= k <=> n <= k - 1 \/ n = k
    BY <2>6, <2>a
  <2>7. k - 1 \in 0 .. N /\ k - 1 < k /\ To(k) = To(k - 1) \cup {n \in S : n = k}
    BY <2>b
  <2>8. k - 1 \notin Bad
    <3>1. k \in Nat /\ k - 1 \in Nat
      BY <2>a, <2>b
    <3> QED BY <2>2, <2>4, <2>7, <3>1
  <2>9. CASE To(k - 1) = {}
    <3>1. IsLast(k, To(k))
      BY <2>5, <2>7, <2>9
    <3> QED BY <2>5, <3>1
  <2>10. CASE To(k - 1) # {}
    <3>1. PICK x : IsLast(x, To(k - 1))
      BY <2>7, <2>8, <2>10 DEF Bad
    <3>2. CASE k \notin S
      <4>1. To(k) = To(k - 1)
        BY <2>7, <3>2
      <4> QED BY <2>5, <3>1, <4>1
    <3>3. CASE k \in S
      <4>1. To(k) = To(k - 1) \cup {k} /\ x # k /\ x \in 1 .. N /\ k \in 1 .. N
        BY <2>5, <2>7, <3>1, <3>3
      <4>2. CASE Before(L, k, x)
        <5>1. IsLast(x, To(k))
          BY <3>1, <4>1, <4>2
        <5> QED BY <2>5, <5>1
      <4>3. CASE Before(L, x, k)
        <5>1. ASSUME NEW m \in To(k) \ {k} PROVE Before(L, m, k)
          <6>1. m \in To(k - 1) /\ m \in 1 .. N
            BY <4>1, <5>1
          <6>2. m = x \/ Before(L, m, x)
            BY <3>1, <6>1
          <6> QED BY <1>2, <4>1, <4>3, <6>1, <6>2
        <5>2. k \in To(k)
          BY <4>1
        <5>3. IsLast(k, To(k))
          BY <5>1, <5>2
        <5> QED BY <2>5, <5>3
      <4> QED BY <1>1, <4>1, <4>2, <4>3
    <3> QED BY <3>2, <3>3
  <2> QED BY <2>9, <2>10
<1>4. N \in 0 .. N /\ To(N) = S
  <2>1. \A n \in S : n <= N
    OBVIOUS
  <2>2. To(N) = S
    BY ONLY <2>1
  <2>3. N \in 0 .. N
    OBVIOUS
  <2> QED BY <2>2, <2>3
<1>5. PICK x : IsLast(x, S)
  <2>1. N \notin Bad /\ To(N) # {}
    BY <1>3, <1>4
  <2> QED BY <1>4, <2>1 DEF Bad
<1>6. x \in S /\ \A m \in S \ {x} : Before(L, m, x)
  BY <1>5
<1> QED BY <1>6 DEF LastOf

\* The clock of a device is no less than what it has read.
LEMMA ClockAbove ==
  ASSUME Shape, NEW R, R \subseteq Places
  PROVE  ClockIn(R) \in Nat /\ \A n \in R : log[n].clock <= ClockIn(R)
<1>1. Len(log) \in Nat /\ \A n \in Places : log[n].clock \in Nat /\ log[n].author \in Nat
  <2>1. log \in Seq(Written) /\ \A d \in Device : d \in Nat
    BY KeysAssumption DEF Shape, KeysAssumption
  <2>2. Len(log) \in Nat /\ \A n \in Places : log[n] \in Written
    BY <2>1 DEF Places
  <2> QED BY <2>1, <2>2 DEF Written
<1>2. CASE R = {}
  BY <1>2 DEF ClockIn
<1>3. CASE R # {}
  <2>1. LastOf(log, R) \in R /\ \A m \in R \ {LastOf(log, R)} : Before(log, m, LastOf(log, R))
    BY <1>1, <1>3, LastExists DEF Places
  <2>2. ClockIn(R) = log[LastOf(log, R)].clock
    BY <1>3 DEF ClockIn
  <2>3. ASSUME NEW n \in R PROVE log[n].clock <= log[LastOf(log, R)].clock
    <3>1. CASE n = LastOf(log, R)
      BY <1>1, <2>1, <3>1
    <3>2. CASE n # LastOf(log, R)
      <4>1. Before(log, n, LastOf(log, R)) /\ n \in Places /\ LastOf(log, R) \in Places
        BY <2>1, <3>2
      <4> QED BY <1>1, <4>1 DEF Before
    <3> QED BY <3>1, <3>2
  <2> QED BY <1>1, <2>1, <2>2, <2>3
<1> QED BY <1>2, <1>3

-----------------------------------------------------------------------------
(* What was known then is known now. *)

\* What every step leaves as it was: the log grows, a device forgets nothing, and the package of
\* who joined stays.
Grows ==
  /\ UNCHANGED setup
  /\ Len(log) \in Nat /\ Len(log)' \in Nat /\ Len(log) <= Len(log)'
  /\ \A n \in Places : log'[n] = log[n]
  /\ \A d \in Device : arrived[d] \subseteq arrived'[d] /\ keys[d] \subseteq keys'[d]
  /\ joined \subseteq joined' /\ \A p \in joined : package'[p] = package[p]

\* Who holds the authority does not change once in.
LEMMA SameAuthority ==
  ASSUME Shape, Grows, NEW d, Joined(d)
  PROVE  (HoldsAuthority(d)' <=> HoldsAuthority(d)) /\ (IsMaster(d)' <=> IsMaster(d)) /\ Joined(d)'
<1>1. d \in joined \/ d \notin Newcomer
  BY KeysAssumption DEF Joined, KeysAssumption
<1>2. d \in Newcomer => package'[d] = package[d]
  BY <1>1 DEF Grows
<1>3. HoldsAuthority(d)' <=> HoldsAuthority(d)
  BY <1>2 DEF HoldsAuthority
<1> QED BY <1>3 DEF IsMaster, Joined, Grows

\* What a set of records says of people is the same for ever.
LEMMA SameThen ==
  ASSUME Shape, WrittenTruly, Grows, NEW R, R \subseteq Places
  PROVE  /\ \A kind : RecordsOf(R, kind)' = RecordsOf(R, kind)
         /\ JoinedIn(R)' = JoinedIn(R) /\ Removals(R)' = Removals(R) /\ RemovedIn(R)' = RemovedIn(R)
<1>1. \A n \in R : log'[n] = log[n] /\ Joined(log[n].author)
  BY DEF Grows, WrittenTruly, Present
<1>2. \A n \in R : HoldsAuthority(log[n].author)' <=> HoldsAuthority(log[n].author)
  <2> SUFFICES ASSUME NEW n \in R PROVE HoldsAuthority(log[n].author)' <=> HoldsAuthority(log[n].author)
    OBVIOUS
  <2> DEFINE d == log[n].author
  <2>1. d \in Newcomer => package'[d] = package[d]
    BY <1>1, KeysAssumption DEF Joined, KeysAssumption, Grows
  <2>2. log'[n].author = d
    BY <1>1
  <2> QED BY <2>1, <2>2 DEF HoldsAuthority
<1>3. \A kind : RecordsOf(R, kind)' = RecordsOf(R, kind)
  BY <1>1 DEF RecordsOf
<1>4. \A n \in R : Proven(R, n)' <=> Proven(R, n)
  <2> SUFFICES ASSUME NEW n \in R PROVE Proven(R, n)' <=> Proven(R, n)
    OBVIOUS
  <2>1. \A t \in RecordsOf(R, "ticket") : t \in R
    BY DEF RecordsOf
  <2>2. \A m \in RecordsOf(R, "remove") : m \in R
    BY DEF RecordsOf
  <2> QED BY <1>1, <1>2, <1>3, <2>1, <2>2 DEF Proven
<1>5. JoinedIn(R)' = JoinedIn(R)
  <2>1. \A kind : RecordsOf(R, kind) \subseteq R
    BY DEF RecordsOf
  <2> DEFINE J == RecordsOf(R, "introduced") \cup {k \in RecordsOf(R, "redeemed") : Proven(R, k)}
  <2>2. J' = J /\ J \subseteq R
    BY <1>3, <1>4, <2>1
  <2>3. JoinedIn(R) = {log[n].author : n \in J} /\ JoinedIn(R)' = {log'[n].author : n \in J'}
    BY DEF JoinedIn
  <2> HIDE DEF J
  <2> QED BY <1>1, <2>2, <2>3
<1>6. Removals(R)' = Removals(R)
  <2>1. \A n \in RecordsOf(R, "remove") : n \in R
    BY DEF RecordsOf
  <2> QED BY <1>1, <1>3, <1>5, <2>1 DEF Removals
<1>7. RemovedIn(R)' = RemovedIn(R)
  <2>1. \A n \in Removals(R) : n \in R
    BY DEF Removals, RecordsOf
  <2> QED BY <1>1, <1>6, <2>1 DEF RemovedIn
<1> QED BY <1>3, <1>5, <1>6, <1>7

-----------------------------------------------------------------------------
(* What the parts of a step do. *)

\* What a call under way holds.
LEMMA CallFields ==
  ASSUME NEW c \in CallStates
  PROVE  /\ c.at \in {"idle", "removed", "ticket", "recoveryKey", "wrapped", "announced"}
         /\ c.at \in {"removed", "ticket", "recoveryKey"} => c.who \in Person
         /\ c.at \in {"wrapped", "announced"} =>
              /\ c.epoch \in Nat /\ c.under \in Nat /\ c.grants \subseteq Int /\ c.who \in Person
              /\ LET k == [c EXCEPT !.at = "announced"] IN
                 k \in CallStates /\ k.at = "announced" /\ k.epoch = c.epoch /\ k.who = c.who
<1>1. CASE c = Idle
  BY <1>1 DEF Idle
<1>2. CASE c \in [at : {"removed", "ticket", "recoveryKey"}, who : Person]
  BY <1>2
<1>3. CASE c \in [at : {"wrapped", "announced"}, epoch : Nat, under : Nat, grants : SUBSET Int, who : Person]
  <2> DEFINE k == [c EXCEPT !.at = "announced"]
  <2>1. /\ c.at \in {"wrapped", "announced"} /\ c.epoch \in Nat /\ c.under \in Nat /\ c.grants \subseteq Int
        /\ c.who \in Person
    BY <1>3
  <2>2. k \in [at : {"wrapped", "announced"}, epoch : Nat, under : Nat, grants : SUBSET Int, who : Person]
        /\ k.at = "announced" /\ k.epoch = c.epoch /\ k.who = c.who
    BY <1>3
  <2>3. k \in CallStates
    BY <2>2 DEF CallStates
  <2> QED BY <2>1, <2>2, <2>3
<1> QED BY <1>1, <1>2, <1>3 DEF CallStates

\* A new call, of any kind.
LEMMA CallMade ==
  ASSUME NEW who \in Person, NEW e \in Nat, NEW under \in Nat, NEW g, g \subseteq Int
  PROVE  /\ Idle \in CallStates /\ Idle.at = "idle"
         /\ \A at \in {"removed", "ticket", "recoveryKey"} : [at |-> at, who |-> who] \in CallStates
         /\ [at |-> "wrapped", epoch |-> e, under |-> under, grants |-> g, who |-> who] \in CallStates
BY DEF CallStates, Idle

\* The records that are there.
LEMMA Recorded ==
  ASSUME Shape
  PROVE  /\ Len(log) \in Nat /\ \A n \in Places : log[n] \in Written
         /\ \A kind, R : RecordsOf(R, kind) \subseteq R
         /\ Logged \subseteq Nat
         /\ \A d \in Device : d \in Nat \ {0} /\ d \in Person
         /\ \A p \in Newcomer : p \notin Members
<1>1. Len(log) \in Nat /\ \A n \in Places : log[n] \in Written
  BY DEF Shape, Places
<1>2. \A kind, R : RecordsOf(R, kind) \subseteq R
  BY DEF RecordsOf
<1>3. Logged \subseteq Nat
  BY <1>1, <1>2 DEF Logged, Rotations, Written
<1> QED BY <1>1, <1>2, <1>3, KeysAssumption DEF KeysAssumption

\* What a record that a call writes says.
LEMMA RecordMade ==
  ASSUME Shape, NEW d \in Device, NEW who \in Person, NEW under \in Nat, NEW R, R \subseteq Places,
         NEW kind \in {"remove", "rotate", "ticket", "recoveryKey", "redeemed", "introduced"}
  PROVE  LET r == Record(kind, d, who, under, R) IN
         /\ r \in Written /\ r.type = kind /\ r.author = d /\ r.who = who /\ r.under = under
         /\ r.clock = ClockIn(R) + 1 /\ r.epoch = First
<1>1. ClockIn(R) + 1 \in Nat
  BY ClockAbove
<1> QED BY <1>1 DEF Record, Written, First

\* A committed record is last in the log, has arrived at its author, and changes no other.
LEMMA Commits ==
  ASSUME Shape, NEW d \in Device, NEW r \in Written, Commit(d, r)
  PROVE  /\ log' \in Seq(Written) /\ arrived' \in [Device -> SUBSET Places']
         /\ Len(log)' = Len(log) + 1 /\ Len(log) \in Nat
         /\ log'[Len(log) + 1] = r /\ \A n \in Places : log'[n] = log[n]
         /\ Places' = Places \cup {Len(log) + 1} /\ Len(log) + 1 \notin Places
         /\ arrived'[d] = arrived[d] \cup {Len(log) + 1}
         /\ \A e \in Device : arrived[e] \subseteq arrived'[e]
<1>1. log \in Seq(Written) /\ arrived \in [Device -> SUBSET Places]
  BY DEF Shape
<1>2. log' = Append(log, r)
  BY DEF Commit
<1>3. /\ log' \in Seq(Written) /\ Len(log)' = Len(log) + 1 /\ Len(log) \in Nat
      /\ log'[Len(log) + 1] = r /\ \A n \in 1 .. Len(log) : log'[n] = log[n]
  BY <1>1, <1>2
<1>4. Places' = Places \cup {Len(log) + 1} /\ Len(log) + 1 \notin Places
  BY <1>3 DEF Places
<1>5. arrived' = [arrived EXCEPT ![d] = arrived[d] \cup {Len(log) + 1}]
  BY DEF Commit
<1>6. \A e \in Device : arrived'[e] = IF e = d THEN arrived[d] \cup {Len(log) + 1} ELSE arrived[e]
  BY <1>1, <1>5
<1>7. arrived' \in [Device -> SUBSET Places']
  BY <1>1, <1>4, <1>5
<1> QED BY <1>3, <1>4, <1>6, <1>7 DEF Places

\* What a round installs comes from the history, and so does what four do.
LEMMA InstalledFromLog ==
  ASSUME Shape, NEW p, NEW S, S \subseteq Places, NEW held
  PROVE  held \subseteq KeysAfter(p, S, held) /\ KeysAfter(p, S, held) \subseteq held \cup Logged
<1>1. ASSUME NEW h PROVE h \subseteq Installed(p, S, h) /\ Installed(p, S, h) \subseteq h \cup Logged
  <2>1. EpochsIn(Readable(S, h)) \subseteq Rotations
    BY DEF EpochsIn, Accepted, RecordsOf, Readable, Rotations
  <2> QED BY <2>1 DEF Installed, GrantedTo, Logged
<1> HIDE DEF Installed
<1> DEFINE a == Installed(p, S, held)
           b == Installed(p, S, a)
           c == Installed(p, S, b)
<1>2. held \subseteq a /\ a \subseteq held \cup Logged
  BY <1>1
<1>3. a \subseteq b /\ b \subseteq a \cup Logged
  BY <1>1
<1>4. b \subseteq c /\ c \subseteq b \cup Logged
  BY <1>1
<1>5. c \subseteq Installed(p, S, c) /\ Installed(p, S, c) \subseteq c \cup Logged
  BY <1>1
<1>6. KeysAfter(p, S, held) = Installed(p, S, c)
  BY DEF KeysAfter
<1> HIDE DEF a, b, c
<1> QED BY <1>2, <1>3, <1>4, <1>5, <1>6

\* A device adopts the last of the generations it holds in the readable history.
LEMMA AdoptsLast ==
  ASSUME Shape, NEW R, R \subseteq Places, NEW held, NEW now
  PROVE  LET S == {n \in EpochsIn(R) : log[n].epoch \in held} IN
         \/ S = {} /\ Adopted(R, held, now) = now
         \/ \E c \in S : /\ Adopted(R, held, now) = log[c].epoch
                         /\ \A m \in S \ {c} : Before(log, m, c)
<1> DEFINE S == {n \in EpochsIn(R) : log[n].epoch \in held}
<1>1. S \subseteq 1 .. Len(log) /\ Len(log) \in Nat
  BY Recorded DEF EpochsIn, Accepted, RecordsOf, Places
<1>2. \A n \in 1 .. Len(log) : log[n].clock \in Nat /\ log[n].author \in Nat
  BY Recorded DEF Places, Written
<1>3. CASE S = {}
  BY <1>3 DEF Adopted
<1>4. CASE S # {}
  <2> HIDE DEF S
  <2>1. LastOf(log, S) \in S /\ \A m \in S \ {LastOf(log, S)} : Before(log, m, LastOf(log, S))
    BY <1>1, <1>2, <1>4, LastExists
  <2>2. Adopted(R, held, now) = log[LastOf(log, S)].epoch
    BY <1>4 DEF Adopted, S
  <2> QED BY <2>1, <2>2 DEF S
<1> QED BY <1>3, <1>4

\* What settling does to the keys of a device and to the one it writes with.
LEMMA Settles ==
  ASSUME Shape, NEW d \in Device, NEW S, S \subseteq Places, NEW held, held \subseteq Nat, NEW now \in Nat,
         Settle(d, S, held, now)
  PROVE  /\ keys' \in [Device -> SUBSET Nat] /\ current' \in [Device -> Nat]
         /\ held \subseteq keys'[d] /\ keys'[d] \subseteq held \cup Logged
         /\ \A e \in Device : e # d => keys'[e] = keys[e] /\ current'[e] = current[e]
         /\ now \in held => current'[d] \in keys'[d]
         /\ current'[d] = Adopted(Readable(S, keys'[d]), keys'[d], now)
<1> DEFINE after == KeysAfter(d, S, held)
<1>0. keys \in [Device -> SUBSET Nat] /\ current \in [Device -> Nat] /\ Logged \subseteq Nat
  BY Recorded DEF Shape
<1>1. held \subseteq after /\ after \subseteq held \cup Logged
  BY InstalledFromLog
<1>2. keys' = [keys EXCEPT ![d] = after] /\ current' = [current EXCEPT ![d] = Adopted(Readable(S, after), after, now)]
  BY DEF Settle
<1> HIDE DEF after
<1>3. after \subseteq Nat
  BY <1>0, <1>1
<1>4. keys' \in [Device -> SUBSET Nat] /\ keys'[d] = after /\ \A e \in Device : e # d => keys'[e] = keys[e]
  BY <1>0, <1>2, <1>3
<1> DEFINE R == Readable(S, after)
           a == Adopted(R, after, now)
<1>5. R \subseteq Places
  BY DEF Readable
<1>6. a = now \/ a \in after
  BY <1>5, AdoptsLast
<1> HIDE DEF a
<1>7. a \in Nat
  BY <1>3, <1>6
<1>8. current' = [current EXCEPT ![d] = a]
  BY <1>2 DEF a
<1>9. current' \in [Device -> Nat] /\ current'[d] = a /\ \A e \in Device : e # d => current'[e] = current[e]
  BY <1>0, <1>7, <1>8
<1>10. now \in held => a \in after
  BY <1>1, <1>6
<1>11. current'[d] = Adopted(Readable(S, keys'[d]), keys'[d], now)
  BY <1>4, <1>9 DEF a
<1> QED BY <1>1, <1>4, <1>9, <1>10, <1>11

\* A device that settles what it has.
LEMMA SettlesOwn ==
  ASSUME Shape, NEW d \in Device, NEW S, S \subseteq Places, current[d] \in keys[d],
         Settle(d, S, keys[d], current[d])
  PROVE  /\ keys'[d] \subseteq keys[d] \cup Logged /\ current'[d] \in keys'[d] /\ keys[d] \subseteq keys'[d]
         /\ \A e \in Device : e # d => keys'[e] = keys[e] /\ current'[e] = current[e]
         /\ current'[d] = Adopted(Readable(S, keys'[d]), keys'[d], current[d])
<1> DEFINE after == KeysAfter(d, S, keys[d])
           now == Adopted(Readable(S, after), after, current[d])
<1>0. keys \in [Device -> SUBSET Nat] /\ current \in [Device -> Nat]
  BY DEF Shape
<1>1. keys[d] \subseteq after /\ after \subseteq keys[d] \cup Logged
  BY InstalledFromLog
<1>2. Readable(S, after) \subseteq Places
  BY DEF Readable
<1>3. now = current[d] \/ now \in after
  BY <1>2, AdoptsLast
<1>4. keys' = [keys EXCEPT ![d] = after] /\ current' = [current EXCEPT ![d] = now]
  BY DEF Settle
<1> HIDE DEF now, after
<1>5. keys'[d] = after /\ current'[d] = now /\ \A e \in Device : e # d => keys'[e] = keys[e] /\ current'[e] = current[e]
  BY <1>0, <1>4
<1>6. now = Adopted(Readable(S, keys'[d]), keys'[d], current[d])
  BY <1>5 DEF now
<1> QED BY <1>1, <1>3, <1>5, <1>6

\* Copies are wrapped for people, tickets and the recovery key.
LEMMA RecipientsAre ==
  ASSUME Shape, NEW d \in Device, NEW R, R \subseteq Places
  PROVE  Recipients(d, R) \subseteq Int
<1>1. \A n \in R : log[n].author \in Nat /\ log[n].who \in Nat
  BY Recorded, KeysAssumption DEF Written, KeysAssumption
<1>2. JoinedIn(R) \subseteq Nat /\ Members \subseteq Nat
  BY <1>1, KeysAssumption DEF JoinedIn, RecordsOf, KeysAssumption, Person
<1>3. OpenTickets(R) \subseteq Nat
  BY <1>1 DEF OpenTickets, RecordsOf, Accepted
<1>4. TicketCopies(R) \subseteq Int
  BY <1>3 DEF TicketCopies, TicketOf
<1>5. ActiveIn(R) \subseteq Int
  <2>1. ActiveIn(R) \subseteq Members \cup JoinedIn(R)
    BY DEF ActiveIn
  <2>2. ActiveIn(R) \subseteq Nat
    BY <1>2, <2>1
  <2> HIDE DEF ActiveIn
  <2> QED BY <2>2
<1>6. RecoveryCopy(R) \subseteq Int
  BY DEF RecoveryCopy, RecoveryKey
<1>7. d \in Int
  <2>1. d \in Nat
    BY Recorded
  <2> QED BY <2>1
<1> QED BY <1>4, <1>5, <1>6, <1>7 DEF Recipients

\* What a call that ends too early takes back.
LEMMA Abandons ==
  ASSUME Shape, NEW d \in Device, Abandon(d)
  PROVE  /\ call' \in [Device -> CallStates] /\ call'[d] = Idle
         /\ \A e \in Device : e # d => call'[e] = call[e]
         /\ package' \in [Newcomer -> Packages]
         /\ \A p \in Newcomer : package'[p] = IF Packing(d, p) THEN NoPackage ELSE package[p]
         /\ basis' \in [Epoch -> SUBSET (Places \cup {0})]
         /\ \A e \in Epoch : basis'[e] = IF call[d].at = "wrapped" /\ call[d].epoch = e THEN {} ELSE basis[e]
<1>1. call' = [call EXCEPT ![d] = Idle] /\ Idle \in CallStates
  BY DEF Abandon, CallStates
<1>2. call \in [Device -> CallStates] /\ package \in [Newcomer -> Packages] /\ basis \in [Epoch -> SUBSET (Places \cup {0})]
  BY DEF Shape
<1>3. package' = [p \in Newcomer |-> IF Packing(d, p) THEN NoPackage ELSE package[p]]
  BY DEF Abandon, Packing
<1>4. NoPackage \in Packages
  BY DEF NoPackage, Packages, First
<1>5. basis' = [e \in Epoch |-> IF call[d].at = "wrapped" /\ call[d].epoch = e THEN {} ELSE basis[e]]
  BY DEF Abandon
<1>6. package' \in [Newcomer -> Packages]
  BY <1>2, <1>3, <1>4
<1>7. basis' \in [Epoch -> SUBSET (Places \cup {0})]
  BY <1>2, <1>5
<1>8. call' \in [Device -> CallStates] /\ call'[d] = Idle /\ \A e \in Device : e # d => call'[e] = call[e]
  BY <1>1, <1>2
<1> QED BY <1>3, <1>5, <1>6, <1>7, <1>8

\* A record is committed: the rest of the shape is what the step says of calls and finished ones.
LEMMA CommitGrows ==
  ASSUME Shape, NEW d \in Device, NEW r \in Written, Commit(d, r),
         UNCHANGED <<setup, keys, current, package, joined, basis, finished>>,
         call' \in [Device -> CallStates]
  PROVE  Shape' /\ Grows
<1>1. /\ log' \in Seq(Written) /\ arrived' \in [Device -> SUBSET Places']
      /\ Len(log)' = Len(log) + 1 /\ Len(log) \in Nat
      /\ \A n \in Places : log'[n] = log[n]
      /\ Places \subseteq Places'
      /\ \A e \in Device : arrived[e] \subseteq arrived'[e]
  BY Commits
<1>2. Epoch' = Epoch
  BY DEF Epoch
<1>3. basis' \in [Epoch' -> SUBSET (Places' \cup {0})]
  BY <1>1, <1>2 DEF Shape
<1>4. /\ setup.rotations \in Nat /\ keys \in [Device -> SUBSET Nat] /\ current \in [Device -> Nat]
      /\ package \in [Newcomer -> Packages] /\ joined \subseteq Newcomer \cap Device
      /\ finished \subseteq [by : Device, who : Person, epoch : Nat]
  BY DEF Shape
<1>5. Shape'
  BY <1>1, <1>3, <1>4 DEF Shape
<1>6. Grows
  BY <1>1 DEF Grows
<1> QED BY <1>5, <1>6

\* Nothing is forgotten, and everything keeps its shape.
LEMMA StepGrows ==
  ASSUME KeysInv, Next
  PROVE  Shape' /\ Grows
<1>0. /\ setup.rotations \in Nat /\ log \in Seq(Written) /\ arrived \in [Device -> SUBSET Places]
      /\ keys \in [Device -> SUBSET Nat] /\ current \in [Device -> Nat] /\ call \in [Device -> CallStates]
      /\ package \in [Newcomer -> Packages] /\ joined \subseteq Newcomer \cap Device
      /\ basis \in [Epoch -> SUBSET (Places \cup {0})]
      /\ finished \subseteq [by : Device, who : Person, epoch : Nat]
      /\ Shape
  BY DEF KeysInv, Shape
<1>1. Len(log) \in Nat
  BY Recorded, <1>0
<1>2. \A d \in Device : Read(d) \subseteq Places
  BY <1>0 DEF Read, Readable
\* What leaves log and joined alone.
<1>3. ASSUME UNCHANGED <<setup, log, joined>>, arrived' \in [Device -> SUBSET Places],
             keys' \in [Device -> SUBSET Nat], current' \in [Device -> Nat], call' \in [Device -> CallStates],
             package' \in [Newcomer -> Packages], basis' \in [Epoch -> SUBSET (Places \cup {0})],
             finished' \subseteq [by : Device, who : Person, epoch : Nat],
             \A d \in Device : arrived[d] \subseteq arrived'[d] /\ keys[d] \subseteq keys'[d],
             \A p \in joined : package'[p] = package[p]
      PROVE  Shape' /\ Grows
  <2>1. Epoch' = Epoch /\ Places' = Places
    BY <1>3 DEF Epoch, Places
  <2>2. Shape'
    BY <1>0, <1>3, <2>1 DEF Shape
  <2>3. Grows
    BY <1>1, <1>3 DEF Grows
  <2> QED BY <2>2, <2>3
<1>4. ASSUME NEW d \in Device, NEW p \in Person, Remove(d, p) PROVE Shape' /\ Grows
  <2> DEFINE r == Record("remove", d, p, current[d], Read(d))
             k == [at |-> "removed", who |-> p]
  <2>1. Commit(d, r) /\ call' = [call EXCEPT ![d] = k]
        /\ UNCHANGED <<setup, keys, current, package, joined, basis, finished>>
    BY <1>4 DEF Remove
  <2>2. r \in Written /\ k \in CallStates
    BY <1>0, <1>2, RecordMade DEF CallStates
  <2> HIDE DEF r, k
  <2>3. call' \in [Device -> CallStates]
    BY <1>0, <2>1, <2>2
  <2> QED BY <1>0, <2>1, <2>2, <2>3, CommitGrows
<1>5. ASSUME NEW d \in Device, Wrap(d) PROVE Shape' /\ Grows
  <2>1. PICK e \in Epoch \ {First} :
          /\ basis' = [basis EXCEPT ![e] = Read(d) \cup {0}]
          /\ call' = [call EXCEPT ![d] =
               [at |-> "wrapped", epoch |-> e, under |-> current[d], grants |-> Recipients(d, Read(d)),
                who |-> IF call[d].at = "removed" THEN call[d].who ELSE d]]
    BY <1>5 DEF Wrap
  <2> DEFINE w == IF call[d].at = "removed" THEN call[d].who ELSE d
             g == Recipients(d, Read(d))
             k == [at |-> "wrapped", epoch |-> e, under |-> current[d], grants |-> g, who |-> w]
  <2>2. w \in Person
    BY <1>0, CallFields, Recorded
  <2>3. g \subseteq Int
    BY <1>0, <1>2, RecipientsAre
  <2>4. e \in Nat
    BY <1>0 DEF Epoch, First
  <2>5. call' = [call EXCEPT ![d] = k]
    BY <2>1
  <2> HIDE DEF w, g
  <2>6. k \in CallStates
    BY <1>0, <2>2, <2>3, <2>4, CallMade
  <2> HIDE DEF k
  <2>7. call' \in [Device -> CallStates]
    BY <1>0, <2>5, <2>6
  <2>8. basis' \in [Epoch -> SUBSET (Places \cup {0})]
    BY <1>0, <1>2, <2>1
  <2>9. UNCHANGED <<setup, log, joined, arrived, keys, current, package, finished>>
    BY <1>5 DEF Wrap
  <2> QED BY <1>0, <1>3, <2>7, <2>8, <2>9
<1>6. ASSUME NEW d \in Device, Announce(d) PROVE Shape' /\ Grows
  <2> DEFINE q == Record("rotate", d, d, call[d].under, Read(d))
             r == [q EXCEPT !.epoch = call[d].epoch, !.grants = call[d].grants]
             k == [call[d] EXCEPT !.at = "announced"]
  <2>1. /\ Commit(d, r) /\ call' = [call EXCEPT ![d] = k] /\ call[d].at = "wrapped"
        /\ UNCHANGED <<setup, keys, current, package, joined, basis, finished>>
    BY <1>6 DEF Announce
  <2>2. call[d].epoch \in Nat /\ call[d].under \in Nat /\ call[d].grants \subseteq Int /\ k \in CallStates
    BY <1>0, <2>1, CallFields
  <2>3. q \in Written
    BY <1>0, <1>2, <2>2, RecordMade, Recorded
  <2> HIDE DEF q, k
  <2>4. r \in Written
    BY <2>2, <2>3 DEF Written
  <2>5. call' \in [Device -> CallStates]
    BY <1>0, <2>1, <2>2
  <2> HIDE DEF r
  <2> QED BY <1>0, <2>1, <2>4, <2>5, CommitGrows
<1>7. ASSUME NEW d \in Device, Install(d) PROVE Shape' /\ Grows
  <2>1. /\ call[d].at = "announced" /\ call' = [call EXCEPT ![d] = Idle]
        /\ UNCHANGED <<setup, log, joined, arrived, package, basis>>
    BY <1>7 DEF Install
  <2>2. call[d].epoch \in Nat /\ call[d].who \in Person /\ Idle \in CallStates
    BY <1>0, <2>1, CallFields DEF CallStates
  <2>3. call' \in [Device -> CallStates]
    BY <1>0, <2>1, <2>2
  <2> DEFINE held == keys[d] \cup {call[d].epoch}
  <2>4. held \subseteq Nat
    BY <1>0, <2>2
  <2>5. CASE /\ Settle(d, arrived[d], held, call[d].epoch)
             /\ finished' = finished \cup {[by |-> d, who |-> call[d].who, epoch |-> call[d].epoch]}
    <3> HIDE DEF held
    <3>1. /\ keys' \in [Device -> SUBSET Nat] /\ current' \in [Device -> Nat]
          /\ held \subseteq keys'[d] /\ \A e \in Device : e # d => keys'[e] = keys[e]
      BY <1>0, <2>2, <2>4, <2>5, Settles
    <3>2. \A e \in Device : keys[e] \subseteq keys'[e]
      BY <3>1 DEF held
    <3>3. finished' \subseteq [by : Device, who : Person, epoch : Nat]
      BY <1>0, <2>2, <2>5
    <3> QED BY <1>0, <1>3, <2>1, <2>3, <3>1, <3>2, <3>3
  <2>6. CASE keys' = [keys EXCEPT ![d] = held] /\ current' = [current EXCEPT ![d] = call[d].epoch] /\ UNCHANGED finished
    <3>1. keys' \in [Device -> SUBSET Nat] /\ current' \in [Device -> Nat] /\ \A e \in Device : keys[e] \subseteq keys'[e]
      BY <1>0, <2>2, <2>4, <2>6
    <3> QED BY <1>0, <1>3, <2>1, <2>3, <2>6, <3>1
  <2> QED BY <1>7, <2>5, <2>6 DEF Install
<1>8. ASSUME NEW d \in Device, NEW p \in Newcomer, NEW kind \in {"ticket", "recoveryKey"}, Pack(d, p, kind)
      PROVE  Shape' /\ Grows
  <2> DEFINE g == [kind |-> kind, keys |-> keys[d], current |-> current[d]]
             k == [at |-> kind, who |-> p]
  <2>1. /\ package' = [package EXCEPT ![p] = g] /\ call' = [call EXCEPT ![d] = k] /\ package[p] = NoPackage
        /\ UNCHANGED <<setup, log, joined, arrived, keys, current, basis, finished>>
    BY <1>8 DEF Pack
  <2>2. g \in Packages /\ k \in CallStates
    BY <1>0 DEF Packages, CallStates, Person
  <2> HIDE DEF g, k
  <2>3. package' \in [Newcomer -> Packages] /\ call' \in [Device -> CallStates]
    BY <1>0, <2>1, <2>2
  <2>4. p \notin joined
    BY <2>1 DEF KeysInv, PackedOnce, HandedOver, NoPackage
  <2>5. \A q \in joined : package'[q] = package[q]
    BY <1>0, <2>1, <2>4
  <2> QED BY <1>0, <1>3, <2>1, <2>3, <2>5
<1>9. ASSUME NEW d \in Device, Register(d) PROVE Shape' /\ Grows
  <2> DEFINE r == Record(call[d].at, d, call[d].who, current[d], Read(d))
  <2>1. /\ call[d].at \in {"ticket", "recoveryKey"} /\ Commit(d, r) /\ call' = [call EXCEPT ![d] = Idle]
        /\ UNCHANGED <<setup, keys, current, package, joined, basis, finished>>
    BY <1>9 DEF Register
  <2>2. call[d].who \in Person /\ Idle \in CallStates
    BY <1>0, <2>1, CallFields DEF CallStates
  <2>3. r \in Written
    BY <1>0, <1>2, <2>1, <2>2, RecordMade
  <2> HIDE DEF r
  <2>4. call' \in [Device -> CallStates]
    BY <1>0, <2>1, <2>2
  <2> QED BY <1>0, <2>1, <2>3, <2>4, CommitGrows
<1>10. ASSUME NEW p \in Newcomer \cap Device, Join(p) PROVE Shape' /\ Grows
  <2>1. PICK n \in Places, S \in SUBSET Places :
          /\ p \notin joined /\ joined' = joined \cup {p}
          /\ log' = Append(log, Record(IF package[p].kind = "ticket" THEN "redeemed" ELSE "introduced", p, p,
                                       package[p].current, Readable(S, package[p].keys)))
          /\ arrived' = [arrived EXCEPT ![p] = S \cup {Len(log) + 1}]
          /\ Settle(p, S, package[p].keys, package[p].current)
          /\ UNCHANGED <<setup, call, package, basis, finished>>
    BY <1>10 DEF Join, Places
  <2> DEFINE R == Readable(S, package[p].keys)
             kind == IF package[p].kind = "ticket" THEN "redeemed" ELSE "introduced"
             r == Record(kind, p, p, package[p].current, R)
  <2>2. package[p].keys \subseteq Nat /\ package[p].current \in Nat /\ R \subseteq Places /\ p \in Person
    BY <1>0 DEF Packages, Readable, Person
  <2>3. r \in Written
    <3>1. kind \in {"redeemed", "introduced"}
      OBVIOUS
    <3> HIDE DEF kind, R
    <3> QED BY <1>0, <2>2, <3>1, RecordMade
  <2>4. log' = Append(log, r)
    BY <2>1
  <2> HIDE DEF r
  <2>5. /\ log' \in Seq(Written) /\ Len(log)' = Len(log) + 1
        /\ \A m \in 1 .. Len(log) : log'[m] = log[m]
    BY <1>0, <2>3, <2>4
  <2>6. Places' = Places \cup {Len(log) + 1}
    BY <1>1, <2>5 DEF Places
  <2>7. /\ keys' \in [Device -> SUBSET Nat] /\ current' \in [Device -> Nat]
        /\ \A e \in Device : e # p => keys'[e] = keys[e]
    BY <1>0, <2>1, <2>2, Settles
  <2> QED
    \* What the device had before it joined is nothing.
    <3>1. keys[p] \subseteq keys'[p] /\ arrived[p] = {}
      <4>1. p \notin Members
        BY <1>0, Recorded
      <4>2. ~ Joined(p)
        BY <2>1, <4>1 DEF Joined
      <4> QED BY <4>2 DEF KeysInv, Outsiders
    <3>2. arrived' \in [Device -> SUBSET Places'] /\ \A e \in Device : arrived[e] \subseteq arrived'[e]
      BY <1>0, <2>1, <2>6, <3>1
    <3>3. Epoch' = Epoch
      BY <2>1 DEF Epoch
    <3>4. basis' \in [Epoch' -> SUBSET (Places' \cup {0})]
      BY <1>0, <2>1, <2>6, <3>3
    <3>5. Shape'
      BY <1>0, <2>1, <2>5, <2>7, <3>2, <3>4 DEF Shape
    <3>6. \A e \in Device : keys[e] \subseteq keys'[e]
      BY <2>7, <3>1
    <3>7. Grows
      BY <1>1, <2>1, <2>5, <3>2, <3>6 DEF Grows, Places
    <3> QED BY <3>5, <3>7
<1>11. ASSUME NEW d \in Device, Sync(d) PROVE Shape' /\ Grows
  <2>1. PICK S \in SUBSET (Places \ arrived[d]) :
          /\ arrived' = [arrived EXCEPT ![d] = arrived[d] \cup S]
          /\ Settle(d, arrived[d] \cup S, keys[d], current[d])
          /\ UNCHANGED <<setup, log, call, package, joined, basis, finished>>
    BY <1>11 DEF Sync, Places
  <2>2. arrived[d] \cup S \subseteq Places
    BY <1>0
  <2>3. /\ keys' \in [Device -> SUBSET Nat] /\ current' \in [Device -> Nat] /\ keys[d] \subseteq keys'[d]
        /\ \A e \in Device : e # d => keys'[e] = keys[e]
    BY <1>0, <2>1, <2>2, Settles
  <2>4. arrived' \in [Device -> SUBSET Places] /\ \A e \in Device : arrived[e] \subseteq arrived'[e]
    BY <1>0, <2>1, <2>2
  <2>5. \A e \in Device : keys[e] \subseteq keys'[e]
    BY <2>3
  <2> QED BY <1>0, <1>3, <2>1, <2>3, <2>4, <2>5
\* A newcomer that joined handed its package over: no call takes it back.
<1>12. ASSUME NEW d \in Device, Abandon(d) PROVE \A p \in joined : package'[p] = package[p]
  <2>1. \A p \in joined : p \in Newcomer /\ ~Packing(d, p)
    BY <1>0 DEF KeysInv, PackedOnce, HandedOver
  <2> QED BY <1>0, <1>12, <2>1, Abandons
<1>13. ASSUME NEW d \in Device, Refused(d) PROVE Shape' /\ Grows
  <2>1. Abandon(d) /\ UNCHANGED <<setup, log, arrived, keys, current, joined, finished>>
    BY <1>13 DEF Refused
  <2> QED BY <1>0, <1>3, <1>12, <2>1, Abandons
<1>14. ASSUME NEW d \in Device, Crash(d) PROVE Shape' /\ Grows
  <2>1. /\ Abandon(d) /\ Settle(d, arrived[d], keys[d], current[d])
        /\ UNCHANGED <<setup, log, arrived, joined, finished>>
    BY <1>14 DEF Crash
  <2>2. /\ keys' \in [Device -> SUBSET Nat] /\ current' \in [Device -> Nat] /\ keys[d] \subseteq keys'[d]
        /\ \A e \in Device : e # d => keys'[e] = keys[e]
    BY <1>0, <2>1, Settles
  <2>3. \A e \in Device : keys[e] \subseteq keys'[e]
    BY <2>2
  <2> QED BY <1>0, <1>3, <1>12, <2>1, <2>2, <2>3, Abandons
<1> QED BY <1>4, <1>5, <1>6, <1>7, <1>8, <1>9, <1>10, <1>11, <1>13, <1>14 DEF Next

-----------------------------------------------------------------------------
(* What a step of one device leaves of the invariant. *)

\* Of the devices, only d takes the step, and it appends one record at most.
Alone(d) ==
  /\ \A e \in Device \ {d} :
       arrived'[e] = arrived[e] /\ keys'[e] = keys[e] /\ current'[e] = current[e] /\ call'[e] = call[e]
  /\ Joined(d)' /\ joined' \subseteq joined \cup {d}

\* The generations that are there, and the calls of the others, keep what was read for them.
SameBasis(d) ==
  /\ Epoch' = Epoch
  /\ \A n \in Rotations : basis'[log[n].epoch] = basis[log[n].epoch]
  /\ \A e \in Device \ {d} : call[e].at = "wrapped" => basis'[call[e].epoch] = basis[call[e].epoch]

\* A record that the step appends.
Added(d, n) ==
  /\ Present(n)'
  /\ log'[n].type = "remove" => RecordsOf(Places, "remove") = {} /\ \A m \in Places' \ Places : m = n
  /\ log'[n].type = "rotate" =>
       /\ Sound(n)' /\ \A m \in Places' \ Places : m = n
       /\ log'[n].epoch \notin Logged
       /\ \A e \in Device \ {d} : ~ Wrapping(e, log'[n].epoch)

\* A log that grows keeps its records, and gains rotations only at its end.
LEMMA LogGrows ==
  ASSUME Shape, Grows
  PROVE  /\ Places \subseteq Places' /\ \A n \in Places : log'[n] = log[n]
         /\ \A kind : RecordsOf(Places, kind)' \cap Places = RecordsOf(Places, kind)
         /\ \A kind : RecordsOf(Places, kind)' \subseteq Places'
         /\ Rotations \subseteq Rotations' /\ Logged \subseteq Logged'
         /\ \A n \in Rotations' : n \in Rotations \/ (n \in Places' \ Places /\ log'[n].type = "rotate")
<1>1. Places \subseteq Places' /\ \A n \in Places : log'[n] = log[n]
  BY DEF Grows, Places
<1>2. \A kind : RecordsOf(Places, kind) = {n \in Places : log[n].type = kind}
                /\ RecordsOf(Places, kind)' = {n \in Places' : log'[n].type = kind}
  BY DEF RecordsOf
<1> HIDE DEF Places
<1>3. \A kind : RecordsOf(Places, kind)' \cap Places = RecordsOf(Places, kind)
                /\ RecordsOf(Places, kind)' \subseteq Places'
  BY <1>1, <1>2
<1>4. /\ Rotations = {n \in Places : log[n].type = "rotate"}
      /\ Rotations' = {n \in Places' : log'[n].type = "rotate"}
  BY <1>2 DEF Rotations
<1>5. Rotations \subseteq Rotations'
      /\ \A n \in Rotations' : n \in Rotations \/ (n \in Places' \ Places /\ log'[n].type = "rotate")
  BY <1>1, <1>4
<1>6. \A n \in Rotations : log'[n].epoch = log[n].epoch
  BY <1>1, <1>4
<1>7. Logged \subseteq Logged'
  BY <1>5, <1>6 DEF Logged
<1> QED BY <1>1, <1>3, <1>5, <1>7

\* Who was read to be removed is in, so that what it was given does not change.
LEMMA RemovedIsIn ==
  ASSUME Shape, WrittenTruly, NEW R, R \subseteq Places, NEW p \in RemovedIn(R)
  PROVE  p \in Person /\ Joined(p) /\ p \in Members \cup JoinedIn(R)
<1>1. PICK n \in Removals(R) : p = log[n].who
  BY DEF RemovedIn
<1>2. n \in R /\ p \in Members \cup JoinedIn(R)
  BY <1>1 DEF Removals, RecordsOf
<1>3. p \in Person
  BY <1>1, <1>2, Recorded DEF Written
<1>4. \A q \in JoinedIn(R) : Joined(q)
  BY DEF JoinedIn, RecordsOf, WrittenTruly, Present
<1>5. Joined(p)
  BY <1>2, <1>4 DEF Joined
<1> QED BY <1>2, <1>3, <1>5

\* Who was removed before a generation was made stays without its key.
LEMMA KeptFromKept ==
  ASSUME Shape, WrittenTruly, Grows, NEW e \in Epoch, basis'[e] = basis[e], NEW copies, KeptFrom(e, copies)
  PROVE  KeptFrom(e, copies)'
<1>1. Knew(e) \subseteq Places /\ Knew(e)' = Knew(e)
  BY DEF Knew, Shape
<1>2. \A R \in SUBSET Places : RemovedIn(R)' = RemovedIn(R)
  BY SameThen
<1>3. RemovedIn(Knew(e))' = RemovedIn(Knew(e))
  <2> DEFINE R == Knew(e)
  <2>1. PICK S \in SUBSET Places : S = Knew(e)
    BY <1>1
  <2>2. RemovedIn(S)' = RemovedIn(S)
    BY <1>2
  <2>3. Knew(e)' = S
    BY <1>1, <2>1
  <2>4. RemovedIn(Knew(e))' = RemovedIn(S)'
    BY <2>3 DEF RemovedIn, Removals, RecordsOf, JoinedIn, Proven
  <2> QED BY <2>1, <2>2, <2>4
<1>4. \A p \in RemovedIn(Knew(e)) : p \in Newcomer => package'[p] = package[p]
  BY <1>1, RemovedIsIn, Recorded DEF Joined, Grows
<1> QED BY <1>3, <1>4 DEF KeptFrom

\* A generation that is there stays sound.
LEMMA SoundKept ==
  ASSUME KeysInv, Shape', Grows, NEW d \in Device, SameBasis(d), NEW n \in Rotations
  PROVE  Sound(n)'
<1>0. Shape /\ WrittenTruly /\ Sound(n)
  BY DEF KeysInv, MadeOnce
<1>1. n \in Places /\ log'[n] = log[n]
  BY <1>0, LogGrows, Recorded DEF Rotations
<1>2. PICK e \in Epoch, a \in Device, c \in SUBSET Int :
        e = log[n].epoch /\ a = log[n].author /\ c = log[n].grants
  BY <1>0, <1>1, Recorded DEF Sound, Written
<1>3. e # First /\ basis[e] # {} /\ basis'[e] = basis[e] /\ Epoch' = Epoch
  BY <1>0, <1>2 DEF Sound, SameBasis
<1>4. log'[n].epoch = e /\ log'[n].author = a /\ log'[n].grants = c
  BY <1>1, <1>2
<1>5. IsMaster(log[n].author)'
  <2>1. Joined(a) /\ IsMaster(a)
    BY <1>0, <1>1, <1>2 DEF WrittenTruly, Present, Sound
  <2>2. IsMaster(a)'
    BY <1>0, <2>1, SameAuthority
  <2> QED BY <1>4, <2>2 DEF IsMaster, HoldsAuthority
<1>6. \A k \in Knew(log[n].epoch)' : log'[k].clock < log'[n].clock
  <2>1. \A k \in Knew(e) : log[k].clock < log[n].clock
    BY <1>0, <1>2 DEF Sound
  <2>2. \A k \in Knew(e) : k \in Places
    BY <1>0 DEF Knew, Shape
  <2>3. \A k \in Places : log'[k] = log[k]
    BY <1>0, LogGrows
  <2>4. Knew(e)' = Knew(e)
    BY <1>3 DEF Knew
  <2>5. Knew(log[n].epoch)' = Knew(e)'
    BY <1>4 DEF Knew
  <2> QED BY <1>1, <2>1, <2>2, <2>3, <2>4, <2>5
<1>7. KeptFrom(log[n].epoch, log[n].grants)'
  <2>1. KeptFrom(e, c)
    BY <1>0, <1>2 DEF Sound
  <2>2. KeptFrom(e, c)'
    BY <1>0, <1>3, <2>1, KeptFromKept
  <2>3. KeptFrom(log[n].epoch, log[n].grants)' = KeptFrom(e, c)'
    BY <1>4 DEF KeptFrom, Knew
  <2> QED BY <2>2, <2>3
<1>8. log'[n].epoch \in (Epoch \ {First})' /\ basis'[log'[n].epoch] # {}
  BY <1>3, <1>4 DEF First
<1> QED BY <1>5, <1>6, <1>7, <1>8 DEF Sound

\* A call that is going stays so.
LEMMA GoingKept ==
  ASSUME KeysInv, Shape', Grows, NEW d \in Device, call'[d] = call[d],
         call[d].at = "wrapped" => basis'[call[d].epoch] = basis[call[d].epoch] /\ call[d].epoch \notin Logged',
         Epoch' = Epoch
  PROVE  Going(d)'
<1>0. Shape /\ WrittenTruly /\ Going(d)
  BY DEF KeysInv, MadeOnce
<1>1. ASSUME call[d].at \in {"removed", "wrapped", "announced"} PROVE IsMaster(d)' /\ Joined(d)'
  BY <1>0, <1>1, SameAuthority DEF Going
<1>2. ASSUME call[d].at = "wrapped"
      PROVE  /\ call[d].epoch \in Epoch' \ {First} /\ basis'[call[d].epoch] # {}
             /\ Knew(call[d].epoch)' \subseteq Read(d)' /\ call[d].under \in keys'[d]
             /\ KeptFrom(call[d].epoch, call[d].grants)'
  <2>0. /\ call[d].epoch \in Epoch \ {First} /\ basis[call[d].epoch] # {}
        /\ Knew(call[d].epoch) \subseteq Read(d) /\ call[d].under \in keys[d]
        /\ KeptFrom(call[d].epoch, call[d].grants)
    BY <1>0, <1>2 DEF Going
  <2>1. PICK e \in Epoch, c \in SUBSET Int : e = call[d].epoch /\ c = call[d].grants
    <3>1. call[d].grants \subseteq Int
      BY <1>0, <1>2, CallFields DEF Shape
    <3> QED BY <2>0, <3>1
  <2>2. basis'[e] = basis[e]
    BY <1>2, <2>1
  <2>3. Knew(e)' = Knew(e)
    BY <2>2 DEF Knew
  <2>4. Read(d) \subseteq Read(d)'
    <3>1. \A n \in arrived[d] : n \in Places
      BY <1>0 DEF Shape
    <3>2. \A n \in Places : log'[n] = log[n]
      BY <1>0, LogGrows
    <3> QED BY <3>1, <3>2 DEF Read, Readable, Grows
  <2>5. KeptFrom(e, c)'
    BY <1>0, <2>0, <2>1, <2>2, KeptFromKept
  <2>6. call'[d].epoch = e /\ call'[d].grants = c
    BY <2>1
  <2>7. Knew(call[d].epoch)' \subseteq Read(d)'
    BY <2>0, <2>1, <2>3, <2>4, <2>6 DEF Knew
  <2>8. KeptFrom(call[d].epoch, call[d].grants)'
    BY <2>5, <2>6 DEF KeptFrom, Knew
  <2> QED BY <2>0, <2>1, <2>2, <2>7, <2>8 DEF Grows
<1>3. ASSUME call[d].at = "announced"
      PROVE  \E n \in Rotations' : log'[n].author = d /\ log'[n].epoch = call[d].epoch
  <2>1. PICK n \in Rotations : log[n].author = d /\ log[n].epoch = call[d].epoch
    BY <1>0, <1>3 DEF Going
  <2>2. n \in Rotations' /\ log'[n] = log[n]
    BY <1>0, LogGrows, Recorded DEF Rotations
  <2> QED BY <2>1, <2>2
<1> QED BY <1>1, <1>2, <1>3 DEF Going

\* What a step has to show, since the others take none and what is there stays.
LEMMA Framed ==
  ASSUME KeysInv, Shape', Grows, NEW d \in Device, Alone(d), SameBasis(d), Stored(d)', Going(d)',
         \A n \in Places' \ Places : Added(d, n),
         \A e \in Device \ {d} : \A f : Wrapping(d, f)' => ~ Wrapping(e, f),
         \A p \in Newcomer : package'[p] = package[p] \/ Stocked(p)',
         PackedOnce'
  PROVE  KeysInv'
<1>0. Shape /\ Outsiders /\ WrittenTruly /\ KeysAreLogged /\ MadeOnce
  BY DEF KeysInv
<1>1. /\ Places \subseteq Places' /\ \A n \in Places : log'[n] = log[n]
      /\ Rotations \subseteq Rotations' /\ Logged \subseteq Logged'
      /\ \A n \in Rotations' : n \in Rotations \/ (n \in Places' \ Places /\ log'[n].type = "rotate")
      /\ Rotations \subseteq Places
  BY <1>0, LogGrows, Recorded DEF Rotations
<1>2. \A e \in Device \ {d} : Joined(e)' => Joined(e)
  BY DEF Alone, Joined
<1>3. Outsiders'
  <2>1. ASSUME NEW e \in Device, ~ Joined(e)' PROVE arrived'[e] = {} /\ keys'[e] = {} /\ call'[e] = Idle
    <3>1. e # d
      BY <2>1 DEF Alone
    <3>2. ~ Joined(e)
      BY <2>1 DEF Joined, Grows
    <3>3. arrived[e] = {} /\ keys[e] = {} /\ call[e] = Idle
      BY <1>0, <3>2 DEF Outsiders
    <3> QED BY <3>1, <3>3 DEF Alone
  <2> QED BY <2>1 DEF Outsiders, Idle
<1>4. WrittenTruly'
  <2>1. ASSUME NEW n \in Places' PROVE Present(n)'
    <3>1. CASE n \in Places
      <4>1. PICK a : a = log[n].author /\ a \in Device
        BY <1>0, <3>1, Recorded DEF Written
      <4>2. Joined(a) /\ n \in arrived[a] /\ log[n].under \in keys[a]
        BY <1>0, <3>1, <4>1 DEF WrittenTruly, Present
      <4>3. Joined(a)' /\ n \in arrived'[a] /\ log[n].under \in keys'[a]
        BY <4>1, <4>2 DEF Joined, Grows
      <4>4. log'[n].author = a /\ log'[n].under = log[n].under /\ (log'[n].type = "rotate" \/ log'[n].epoch = First)
        BY <1>0, <1>1, <3>1, <4>1 DEF WrittenTruly, Present
      <4>5. Joined(log[n].author)'
        BY <4>3, <4>4 DEF Joined
      <4> QED BY <4>3, <4>4, <4>5 DEF Present
    <3>2. CASE n \notin Places
      BY <2>1, <3>2 DEF Added
    <3> QED BY <3>1, <3>2
  <2>2. ASSUME NEW m \in RecordsOf(Places, "remove")', NEW n \in RecordsOf(Places, "remove")' PROVE m = n
    <3>1. \A k \in RecordsOf(Places, "remove")' :
            \/ k \in RecordsOf(Places, "remove")
            \/ /\ k \in Places' \ Places /\ RecordsOf(Places, "remove") = {}
               /\ \A l \in Places' \ Places : l = k
      BY <1>1 DEF RecordsOf, Added
    <3>2. \A k, l \in RecordsOf(Places, "remove") : k = l
      BY <1>0 DEF WrittenTruly
    <3> QED BY <2>2, <3>1, <3>2
  <2> QED BY <2>1, <2>2 DEF WrittenTruly
<1>5. KeysAreLogged'
  <2>1. ASSUME NEW e \in Device PROVE Stored(e)'
    BY <1>0, <1>1, <1>2 DEF KeysAreLogged, Stored, Alone
  <2>2. ASSUME NEW p \in Newcomer PROVE Stocked(p)'
    BY <1>0, <1>1 DEF KeysAreLogged, Stocked
  <2> QED BY <2>1, <2>2 DEF KeysAreLogged
<1>6. MadeOnce'
  <2>1. ASSUME NEW n \in Rotations' PROVE Sound(n)'
    <3>1. CASE n \in Rotations
      BY <3>1, SoundKept
    <3>2. CASE n \notin Rotations
      BY <1>1, <2>1, <3>2 DEF Added
    <3> QED BY <3>1, <3>2
  <2>2. ASSUME NEW m \in Rotations', NEW n \in Rotations', log'[m].epoch = log'[n].epoch PROVE m = n
    <3>1. \A k \in Rotations : log'[k].epoch = log[k].epoch /\ log[k].epoch \in Logged
      BY <1>1 DEF Logged
    <3>2. \A k, l \in Rotations : log[k].epoch = log[l].epoch => k = l
      BY <1>0 DEF MadeOnce
    <3>3. \A k \in Rotations' \ Rotations :
            log'[k].epoch \notin Logged /\ k \in Places' \ Places /\ \A l \in Places' \ Places : l = k
      BY <1>1 DEF Added
    <3>4. CASE m \in Rotations /\ n \in Rotations
      BY <2>2, <3>1, <3>2, <3>4
    <3>5. CASE m \in Rotations /\ n \notin Rotations
      BY <2>2, <3>1, <3>3, <3>5
    <3>6. CASE m \notin Rotations /\ n \in Rotations
      BY <2>2, <3>1, <3>3, <3>6
    <3>7. CASE m \notin Rotations /\ n \notin Rotations
      BY <2>2, <3>3, <3>7
    <3> QED BY <3>4, <3>5, <3>6, <3>7
  <2>3. ASSUME NEW e \in Device PROVE Going(e)'
    <3>1. CASE e = d
      BY <3>1
    <3>2. CASE e # d
      <4>1. call'[e] = call[e]
        BY <3>2 DEF Alone
      <4>2. ASSUME call[e].at = "wrapped", call[e].epoch \in Logged' PROVE FALSE
        <5>1. call[e].epoch \notin Logged
          BY <1>0, <4>2 DEF MadeOnce, Going
        <5>2. PICK n \in Rotations' : call[e].epoch = log'[n].epoch
          BY <4>2 DEF Logged
        <5>3. n \notin Rotations
          BY <1>1, <5>1, <5>2 DEF Logged
        <5>4. ~ Wrapping(e, log'[n].epoch)
          BY <1>1, <3>2, <5>2, <5>3 DEF Added
        <5> QED BY <4>2, <5>2, <5>4 DEF Wrapping
      <4>3. call[e].at = "wrapped" => basis'[call[e].epoch] = basis[call[e].epoch]
        BY <3>2 DEF SameBasis
      <4>4. Epoch' = Epoch
        BY DEF SameBasis
      <4> QED BY <4>1, <4>2, <4>3, <4>4, GoingKept
    <3> QED BY <3>1, <3>2
  <2>4. ASSUME NEW f \in Epoch, NEW b \in Device, NEW c \in Device, Wrapping(b, f)', Wrapping(c, f)' PROVE b = c
    <3>1. \A e \in Device \ {d} : Wrapping(e, f)' <=> Wrapping(e, f)
      BY DEF Wrapping, Alone
    <3>2. \A e \in Device \ {d} : Wrapping(d, f)' => ~ Wrapping(e, f)
      OBVIOUS
    <3>3. \A e, g \in Device : Wrapping(e, f) /\ Wrapping(g, f) => e = g
      BY <1>0 DEF MadeOnce
    <3> QED BY <2>4, <3>1, <3>2, <3>3
  <2>5. Epoch' = Epoch
    BY DEF SameBasis
  <2> QED BY <2>1, <2>2, <2>3, <2>4, <2>5 DEF MadeOnce
<1> QED BY <1>3, <1>4, <1>5, <1>6 DEF KeysInv

\* A record of its own that a device appends.
LEMMA Appends ==
  ASSUME Shape, NEW d \in Device, NEW r \in Written, log' = Append(log, r),
         r.author = d, Len(log) + 1 \in arrived'[d], r.under \in keys'[d], Joined(d)',
         r.type = "rotate" \/ r.epoch = First, r.type = "remove" => RecordsOf(Places, "remove") = {},
         NEW last, last = Len(log) + 1,
         r.type = "rotate" =>
           Sound(last)' /\ r.epoch \notin Logged /\ \A e \in Device \ {d} : ~ Wrapping(e, r.epoch)
  PROVE  /\ Places' = Places \cup {last} /\ last \notin Places /\ log'[last] = r
         /\ \A n \in Places' \ Places : Added(d, n)
<1>1. log \in Seq(Written) /\ Len(log) \in Nat
  BY Recorded DEF Shape
<1>2. log'[last] = r /\ Len(log)' = last
  BY <1>1
<1>3. Places' = Places \cup {last} /\ last \notin Places
  BY <1>1, <1>2 DEF Places
<1>4. Joined(log[last].author)'
  BY <1>2 DEF Joined
<1>5. Present(last)'
  BY <1>2, <1>4 DEF Present
<1>6. Added(d, last)
  BY <1>2, <1>3, <1>5 DEF Added
<1> QED BY <1>2, <1>3, <1>6

\* Who hands nothing over, and packs nothing, leaves the packages as they are.
LEMMA PackedKept ==
  ASSUME KeysInv, Grows, UNCHANGED package,
         \A e \in Device : \A p : Packing(e, p)' => Packing(e, p),
         \A n \in Places' \ Places : log'[n].type \in {"ticket", "recoveryKey"} =>
           log'[n].who \in Newcomer /\ HandedOver(log[n].who)',
         \A p \in joined' \ joined : HandedOver(p)'
  PROVE  PackedOnce'
<1>0. Shape /\ PackedOnce
  BY DEF KeysInv
<1>1. \A p : HandedOver(p) => HandedOver(p)'
  BY DEF HandedOver
<1>2. ASSUME NEW d \in Device, call'[d].at \in {"ticket", "recoveryKey"}
      PROVE  call'[d].who \in Newcomer /\ package'[call'[d].who].kind # "none"
  <2>1. PICK p : p = call'[d].who
    OBVIOUS
  <2>2. Packing(d, p)
    BY <1>2, <2>1 DEF Packing
  <2> QED BY <1>0, <2>1, <2>2 DEF PackedOnce, Packing
<1>3. \A p \in Newcomer : \A d, e \in Device : Packing(d, p)' /\ Packing(e, p)' => d = e
  BY <1>0 DEF PackedOnce
<1>4. ASSUME NEW n \in Places', log'[n].type \in {"ticket", "recoveryKey"}
      PROVE  log'[n].who \in Newcomer /\ HandedOver(log[n].who)'
  <2>1. CASE n \in Places
    <3>1. log'[n] = log[n]
      BY <1>0, <2>1, LogGrows
    <3>2. PICK p : p = log[n].who
      OBVIOUS
    <3>3. p \in Newcomer /\ HandedOver(p)
      BY <1>0, <1>4, <2>1, <3>1, <3>2 DEF PackedOnce
    <3>4. HandedOver(p)' /\ log'[n].who = p
      BY <1>1, <3>1, <3>2, <3>3
    <3> QED BY <3>3, <3>4 DEF HandedOver, Packing
  <2>2. CASE n \notin Places
    BY <1>4, <2>2
  <2> QED BY <2>1, <2>2
<1>5. \A p \in joined' : HandedOver(p)'
  BY <1>0, <1>1 DEF PackedOnce
<1> QED BY <1>2, <1>3, <1>4, <1>5 DEF PackedOnce

\* A removal keeps the invariant, and changes the keys of its own device only.
LEMMA RemoveKeeps ==
  ASSUME KeysInv, Shape', Grows, NEW d \in Device, NEW p \in Person, Remove(d, p)
  PROVE  KeysInv' /\ Alone(d) /\ SameBasis(d)
<1>0. Shape /\ WrittenTruly /\ KeysAreLogged /\ MadeOnce
  BY DEF KeysInv
<1> DEFINE r == Record("remove", d, p, current[d], Read(d))
           k == [at |-> "removed", who |-> p]
<1>1. /\ Commit(d, r) /\ call' = [call EXCEPT ![d] = k] /\ Joined(d) /\ IsMaster(d) /\ call[d].at = "idle"
      /\ RecordsOf(Places, "remove") = {}
      /\ UNCHANGED <<setup, keys, current, package, joined, basis>>
  BY DEF Remove, Begins, Allowed, Places
<1>2. r \in Written /\ r.type = "remove" /\ r.author = d /\ r.under = current[d] /\ r.epoch = First
  <2>1. Read(d) \subseteq Places /\ current[d] \in Nat
    BY <1>0 DEF Read, Readable, Shape
  <2> QED BY <1>0, <2>1, RecordMade
<1>3. log' = Append(log, r) /\ arrived' = [arrived EXCEPT ![d] = @ \cup {Len(log) + 1}]
  BY <1>1 DEF Commit
<1> HIDE DEF r
<1>4. call'[d].at = "removed" /\ \A e \in Device \ {d} : call'[e] = call[e]
  BY <1>0, <1>1 DEF Shape
<1>5. Len(log) + 1 \in arrived'[d] /\ \A e \in Device \ {d} : arrived'[e] = arrived[e]
  BY <1>0, <1>3 DEF Shape
<1>6. Joined(d)' /\ IsMaster(d)'
  BY <1>0, <1>1, SameAuthority
<1>7. Alone(d)
  BY <1>1, <1>4, <1>5, <1>6 DEF Alone
<1>8. SameBasis(d)
  BY <1>1 DEF SameBasis, Epoch
<1>9. Logged \subseteq Logged'
  BY <1>0, LogGrows
<1>10. Stored(d)' /\ current[d] \in keys'[d]
  BY <1>0, <1>1, <1>9 DEF KeysAreLogged, Stored
<1>11. Going(d)'
  BY <1>4, <1>6 DEF Going
<1>12. /\ \A n \in Places' \ Places : Added(d, n) /\ log'[n] = r
  BY <1>0, <1>1, <1>2, <1>3, <1>5, <1>6, <1>10, Appends
<1>13. \A e \in Device : \A q : Packing(e, q)' => Packing(e, q)
  BY <1>4 DEF Packing
<1>14. PackedOnce'
  BY <1>1, <1>2, <1>12, <1>13, PackedKept
<1>15. \A f : ~ Wrapping(d, f)'
  BY <1>4 DEF Wrapping
<1> QED BY <1>1, <1>7, <1>8, <1>10, <1>11, <1>12, <1>14, <1>15, Framed

\* Whoever is known to be removed is not among those a generation is wrapped for.
LEMMA RecipientsLack ==
  ASSUME Shape, WrittenTruly, NEW d \in Device, NEW R, R \subseteq Places, d \notin RemovedIn(R),
         NEW p \in RemovedIn(R)
  PROVE  p \notin Recipients(d, R) /\ (p \in Newcomer => TicketOf(p) \notin Recipients(d, R))
<1>1. p \in Person /\ p \in Members \cup JoinedIn(R) /\ p # d
  BY RemovedIsIn
<1>2. Person \subseteq Nat \ {0} /\ d \in Nat \ {0}
  BY Recorded, KeysAssumption DEF KeysAssumption
<1>3. \A q \in ActiveIn(R) : q \in Person /\ q # p
  <2>1. \A n \in R : log[n].author \in Person
    BY Recorded DEF Written
  <2>2. JoinedIn(R) \subseteq Person
    BY <2>1 DEF JoinedIn, RecordsOf
  <2> QED BY <2>2 DEF ActiveIn, Person
<1>4. \A q \in OpenTickets(R) : q \in Person /\ q \notin JoinedIn(R)
  <2>1. \A n \in R : log[n].who \in Person
    BY Recorded DEF Written
  <2> QED BY <2>1 DEF OpenTickets, RecordsOf, Accepted
<1>5. \A c \in TicketCopies(R) : \E q \in OpenTickets(R) : c = -q
  BY DEF TicketCopies, TicketOf
<1>6. \A c \in RecoveryCopy(R) : c = 0
  BY DEF RecoveryCopy, RecoveryKey
<1>7. ASSUME NEW c \in Recipients(d, R) PROVE c = d \/ c \in ActiveIn(R) \/ c \in TicketCopies(R) \/ c = 0
  BY <1>6 DEF Recipients
<1>8. \A c \in TicketCopies(R) : c # p
  <2> SUFFICES ASSUME NEW c \in TicketCopies(R) PROVE c # p
    OBVIOUS
  <2>1. PICK q \in OpenTickets(R) : c = -q
    BY <1>5
  <2>2. q \in Nat \ {0} /\ p \in Nat \ {0}
    BY <1>1, <1>2, <1>4
  <2> QED BY <2>1, <2>2
<1>9. p \notin Recipients(d, R)
  BY <1>1, <1>2, <1>3, <1>7, <1>8
<1>10. ASSUME p \in Newcomer PROVE TicketOf(p) \notin Recipients(d, R)
  <2>1. p \in JoinedIn(R)
    BY <1>1, <1>10, Recorded
  <2>2. \A c \in TicketCopies(R) : c # TicketOf(p)
    <3> SUFFICES ASSUME NEW c \in TicketCopies(R) PROVE c # TicketOf(p)
      OBVIOUS
    <3>1. PICK q \in OpenTickets(R) : c = -q
      BY <1>5
    <3>2. q \in Nat \ {0} /\ p \in Nat \ {0} /\ q # p
      BY <1>1, <1>2, <1>4, <2>1
    <3>3. -q # -p
      BY <3>2
    <3> QED BY <3>1, <3>3 DEF TicketOf
  <2>3. TicketOf(p) \notin Nat
    BY <1>1, <1>2 DEF TicketOf
  <2>4. TicketOf(p) # d /\ TicketOf(p) # 0
    BY <1>2, <2>3
  <2>5. TicketOf(p) \notin ActiveIn(R)
    BY <1>2, <1>3, <2>3
  <2> QED BY <1>7, <2>2, <2>4, <2>5
<1> QED BY <1>9, <1>10

\* Steps that leave the log alone.
LEMMA Quiet ==
  ASSUME Shape, Grows, UNCHANGED log
  PROVE  /\ Places' = Places /\ \A n \in Places' \ Places : FALSE
         /\ Rotations' = Rotations /\ Logged' = Logged
         /\ Epoch' = Epoch
         /\ \A d \in Device : Read(d) \subseteq Read(d)'
BY DEF Places, Rotations, Logged, RecordsOf, Epoch, Grows, Read, Readable

\* Wrapping a new generation keeps the invariant.
LEMMA WrapKeeps ==
  ASSUME KeysInv, Shape', Grows, NEW d \in Device, Wrap(d)
  PROVE  KeysInv' /\ Alone(d) /\ SameBasis(d)
<1>0. Shape /\ WrittenTruly /\ KeysAreLogged /\ MadeOnce
  BY DEF KeysInv
<1>1. PICK e \in Epoch \ {First} :
        /\ basis[e] = {} /\ basis' = [basis EXCEPT ![e] = Read(d) \cup {0}]
        /\ call' = [call EXCEPT ![d] =
             [at |-> "wrapped", epoch |-> e, under |-> current[d], grants |-> Recipients(d, Read(d)),
              who |-> IF call[d].at = "removed" THEN call[d].who ELSE d]]
  BY DEF Wrap
<1>2. /\ Joined(d) /\ d \notin RemovedIn(Read(d)) /\ IsMaster(d)
      /\ UNCHANGED <<setup, log, arrived, keys, current, package, joined>>
  BY DEF Wrap, Allowed
<1>r. PICK g \in SUBSET Int, R \in SUBSET Places : g = Recipients(d, Read(d)) /\ R = Read(d)
  <2>1. Read(d) \subseteq Places
    BY <1>0 DEF Read, Readable, Shape
  <2> QED BY <1>0, <2>1, RecipientsAre
<1> DEFINE w == IF call[d].at = "removed" THEN call[d].who ELSE d
<1>3. /\ call'[d].at = "wrapped" /\ call'[d].epoch = e /\ call'[d].under = current[d] /\ call'[d].grants = g
      /\ \A x \in Device \ {d} : call'[x] = call[x]
  <2> HIDE DEF w
  <2>1. call' = [call EXCEPT ![d] = [at |-> "wrapped", epoch |-> e, under |-> current[d], grants |-> g, who |-> w]]
    BY <1>1, <1>r DEF w
  <2> QED BY <1>0, <2>1 DEF Shape
<1>4. Epoch' = Epoch /\ basis'[e] = Read(d) \cup {0} /\ \A f \in Epoch \ {e} : basis'[f] = basis[f]
  BY <1>0, <1>1, <1>2 DEF Shape, Epoch
<1>5. Read(d) \subseteq Places /\ 0 \notin Places
  BY <1>0 DEF Read, Readable, Shape, Places
<1>6. Knew(e)' = Read(d)
  BY <1>4, <1>5 DEF Knew
<1>7. Joined(d)' /\ IsMaster(d)'
  BY <1>0, <1>2, SameAuthority
<1>8. Alone(d)
  BY <1>2, <1>3, <1>7 DEF Alone
<1>9. e \notin Logged /\ \A n \in Rotations : log[n].epoch \in Epoch \ {e}
  BY <1>0, <1>1 DEF MadeOnce, Sound, Logged
<1>10. \A x \in Device \ {d} : call[x].at = "wrapped" => call[x].epoch \in Epoch \ {e}
  BY <1>0, <1>1 DEF MadeOnce, Going
<1>11. SameBasis(d)
  BY <1>4, <1>9, <1>10 DEF SameBasis
<1>12. /\ Places' \ Places = {} /\ Logged' = Logged /\ Read(d) \subseteq Read(d)'
  BY <1>0, <1>2, Quiet
<1>13. Stored(d)' /\ current[d] \in keys'[d]
  BY <1>0, <1>2, <1>12 DEF KeysAreLogged, Stored
<1>14. KeptFrom(e, g)'
  <2>1. RemovedIn(Knew(e))' = RemovedIn(R)
    <3>1. RemovedIn(Knew(e))' = RemovedIn(R)'
      BY <1>6, <1>r DEF RemovedIn, Removals, RecordsOf, JoinedIn, Proven
    <3>2. RemovedIn(R)' = RemovedIn(R)
      BY <1>0, SameThen
    <3> QED BY <3>1, <3>2
  <2>2. \A p \in RemovedIn(R) : p \notin g /\ (p \in Newcomer => TicketOf(p) \notin g)
    BY <1>0, <1>2, <1>r, RecipientsLack
  <2>3. \A p \in Newcomer : e \notin package'[p].keys
    BY <1>0, <1>1, <1>2, <1>9 DEF KeysAreLogged, Stocked
  <2> QED BY <2>1, <2>2, <2>3 DEF KeptFrom
<1>15. Going(d)'
  <2>1. KeptFrom(call[d].epoch, call[d].grants)'
    BY <1>3, <1>14 DEF KeptFrom, Knew
  <2>2. Knew(call[d].epoch)' \subseteq Read(d)'
    BY <1>3, <1>6, <1>12 DEF Knew
  <2> QED BY <1>3, <1>4, <1>7, <1>9, <1>12, <1>13, <2>1, <2>2 DEF Going
<1>16. \A x \in Device : \A q : Packing(x, q)' => Packing(x, q)
  BY <1>3 DEF Packing
<1>17. PackedOnce'
  BY <1>2, <1>12, <1>16, PackedKept
<1>18. \A x \in Device \ {d} : \A f : Wrapping(d, f)' => ~ Wrapping(x, f)
  BY <1>3, <1>10 DEF Wrapping
<1> QED BY <1>2, <1>8, <1>11, <1>12, <1>13, <1>15, <1>17, <1>18, Framed

\* Announcing a generation keeps the invariant.
LEMMA AnnounceKeeps ==
  ASSUME KeysInv, Shape', Grows, NEW d \in Device, Announce(d)
  PROVE  KeysInv' /\ Alone(d) /\ SameBasis(d)
<1>0. Shape /\ WrittenTruly /\ KeysAreLogged /\ MadeOnce
  BY DEF KeysInv
<1>a. PICK g \in SUBSET Int, e \in Epoch, u \in Nat :
        g = call[d].grants /\ e = call[d].epoch /\ u = call[d].under
  <2>1. call[d].at = "wrapped" /\ call[d] \in CallStates
    BY <1>0 DEF Announce, Shape
  <2> QED BY <1>0, <2>1, CallFields DEF MadeOnce, Going
<1> DEFINE q == Record("rotate", d, d, u, Read(d))
           r == [q EXCEPT !.epoch = e, !.grants = g]
           k == [call[d] EXCEPT !.at = "announced"]
           last == Len(log) + 1
<1>1. /\ call[d].at = "wrapped" /\ Commit(d, r) /\ call' = [call EXCEPT ![d] = k]
      /\ UNCHANGED <<setup, keys, current, package, joined, basis>>
  BY <1>a DEF Announce
<1>2. Read(d) \subseteq Places /\ ClockIn(Read(d)) \in Nat
      /\ \A n \in Read(d) : log[n].clock <= ClockIn(Read(d))
  <2>1. Read(d) \subseteq Places
    BY <1>0 DEF Read, Readable, Shape
  <2> QED BY <1>0, <2>1, ClockAbove
<1>3. q \in Written /\ q.type = "rotate" /\ q.author = d /\ q.under = u /\ q.clock = ClockIn(Read(d)) + 1
  <2>1. d \in Person
    BY <1>0, Recorded
  <2> QED BY <1>2, <2>1 DEF Record, Written, First
<1> HIDE DEF q
<1>4. /\ r \in Written /\ r.type = "rotate" /\ r.author = d /\ r.under = u /\ r.clock = ClockIn(Read(d)) + 1
      /\ r.epoch = e /\ r.grants = g
  <2>1. e \in Nat
    BY <1>0 DEF Shape, Epoch, First
  <2> QED BY <1>3, <2>1 DEF Written
<1>5. log' = Append(log, r) /\ arrived' = [arrived EXCEPT ![d] = @ \cup {Len(log) + 1}]
  BY <1>1 DEF Commit
<1> HIDE DEF r
<1>6. k \in CallStates /\ k.at = "announced" /\ k.epoch = e
  BY <1>0, <1>1, <1>a, CallFields DEF Shape
<1> HIDE DEF k
<1>7. call'[d].at = "announced" /\ call'[d].epoch = e /\ \A x \in Device \ {d} : call'[x] = call[x]
  BY <1>0, <1>1, <1>6 DEF Shape
<1>8. last \in arrived'[d] /\ \A x \in Device \ {d} : arrived'[x] = arrived[x]
  BY <1>0, <1>5 DEF Shape
<1>9. /\ IsMaster(d) /\ Joined(d) /\ e \in Epoch \ {First} /\ basis[e] # {} /\ e \notin Logged
      /\ Knew(e) \subseteq Read(d) /\ u \in keys[d] /\ KeptFrom(e, g)
  <2>1. Going(d)
    BY <1>0 DEF MadeOnce
  <2> QED BY <1>1, <1>a, <2>1 DEF Going
<1>10. Joined(d)' /\ IsMaster(d)'
  BY <1>0, <1>9, SameAuthority
<1>11. Alone(d)
  BY <1>1, <1>7, <1>8, <1>10 DEF Alone
<1>12. SameBasis(d) /\ Epoch' = Epoch /\ basis'[e] = basis[e]
  BY <1>1 DEF SameBasis, Epoch
<1>13. Logged \subseteq Logged' /\ \A n \in Places : log'[n] = log[n]
  BY <1>0, LogGrows
<1>14. Stored(d)' /\ u \in keys'[d]
  BY <1>0, <1>1, <1>9, <1>13 DEF KeysAreLogged, Stored
<1>15. PICK l : l = last
  OBVIOUS
<1>16. log'[l] = r /\ l \in Places'
  <2>1. log \in Seq(Written) /\ Len(log) \in Nat
    BY <1>0, Recorded DEF Shape
  <2>2. log'[last] = r /\ Len(log)' = last
    BY <1>4, <1>5, <2>1
  <2> QED BY <1>15, <2>1, <2>2 DEF Places
<1>17. Sound(l)'
  <2>1. KeptFrom(e, g)'
    BY <1>0, <1>9, <1>12, KeptFromKept
  <2>2. KeptFrom(log[l].epoch, log[l].grants)'
    BY <1>4, <1>16, <2>1 DEF KeptFrom, Knew
  <2>3. ASSUME NEW n \in Knew(e) PROVE log'[n].clock < log'[l].clock
    <3>1. n \in Read(d) /\ n \in Places /\ log'[n] = log[n]
      BY <1>2, <1>9, <1>13, <2>3
    <3>2. log[n].clock <= ClockIn(Read(d)) /\ log[n].clock \in Nat
      BY <1>0, <1>2, <3>1, Recorded DEF Written
    <3>3. log'[l].clock = ClockIn(Read(d)) + 1
      BY <1>4, <1>16
    <3> QED BY <1>2, <3>1, <3>2, <3>3
  <2>4. Knew(log[l].epoch)' = Knew(e)
    BY <1>4, <1>12, <1>16 DEF Knew
  <2>5. IsMaster(log[l].author)'
    BY <1>4, <1>10, <1>16 DEF IsMaster, HoldsAuthority
  <2> QED BY <1>4, <1>9, <1>12, <1>16, <2>2, <2>3, <2>4, <2>5 DEF Sound
<1>18. Going(d)'
  <2>1. l \in Rotations' /\ log'[l].author = d /\ log'[l].epoch = e
    BY <1>4, <1>16 DEF Rotations, RecordsOf
  <2> QED BY <1>7, <1>10, <2>1 DEF Going
<1>19. \A x \in Device \ {d} : ~ Wrapping(x, e)
  BY <1>0, <1>1, <1>a DEF MadeOnce, Wrapping
<1>20. \A n \in Places' \ Places : Added(d, n) /\ log'[n] = r
  <2>1. r.type = "rotate" => Sound(l)' /\ r.epoch \notin Logged /\ \A x \in Device \ {d} : ~ Wrapping(x, r.epoch)
    BY <1>4, <1>9, <1>17, <1>19
  <2> QED BY <1>0, <1>4, <1>5, <1>8, <1>10, <1>14, <1>15, <2>1, Appends
<1>21. \A x \in Device : \A p : Packing(x, p)' => Packing(x, p)
  BY <1>7 DEF Packing
<1>22. PackedOnce'
  BY <1>1, <1>4, <1>20, <1>21, PackedKept
<1>23. \A f : ~ Wrapping(d, f)'
  BY <1>7 DEF Wrapping
<1> QED BY <1>1, <1>11, <1>12, <1>14, <1>18, <1>20, <1>22, <1>23, Framed

\* Installing a generation keeps the invariant.
LEMMA InstallKeeps ==
  ASSUME KeysInv, Shape', Grows, NEW d \in Device, Install(d)
  PROVE  KeysInv' /\ Alone(d) /\ SameBasis(d)
<1>0. Shape /\ WrittenTruly /\ KeysAreLogged /\ MadeOnce
  BY DEF KeysInv
<1>a. PICK e \in Nat : e = call[d].epoch
  <2>1. call[d].at = "announced" /\ call[d] \in CallStates
    BY <1>0 DEF Install, Shape
  <2> QED BY <2>1, CallFields
<1> DEFINE held == keys[d] \cup {e}
<1>1. /\ call[d].at = "announced" /\ call' = [call EXCEPT ![d] = Idle]
      /\ UNCHANGED <<setup, log, arrived, package, joined, basis>>
      /\ \/ Settle(d, arrived[d], held, e)
         \/ keys' = [keys EXCEPT ![d] = held] /\ current' = [current EXCEPT ![d] = e]
  BY <1>a DEF Install
<1>2. call'[d] = Idle /\ \A x \in Device \ {d} : call'[x] = call[x]
  BY <1>0, <1>1 DEF Shape
<1>3. e \in Logged /\ Joined(d)
  <2>1. Going(d)
    BY <1>0 DEF MadeOnce
  <2> QED BY <1>1, <1>a, <2>1 DEF Going, Logged
<1>4. /\ held \subseteq Nat /\ keys[d] \subseteq {First} \cup Logged /\ arrived[d] \subseteq Places
  BY <1>0 DEF Shape, KeysAreLogged, Stored
<1>5. /\ keys'[d] \subseteq held \cup Logged /\ current'[d] \in keys'[d]
      /\ \A x \in Device \ {d} : keys'[x] = keys[x] /\ current'[x] = current[x]
  <2>1. CASE Settle(d, arrived[d], held, e)
    <3>1. e \in held
      OBVIOUS
    <3> HIDE DEF held
    <3> QED BY <1>0, <1>4, <2>1, <3>1, Settles
  <2>2. CASE keys' = [keys EXCEPT ![d] = held] /\ current' = [current EXCEPT ![d] = e]
    BY <1>0, <2>2 DEF Shape
  <2> QED BY <1>1, <2>1, <2>2
<1>6. /\ Places' \ Places = {} /\ Logged' = Logged
  BY <1>0, <1>1, Quiet
<1>7. Joined(d)'
  BY <1>0, <1>3, SameAuthority
<1>8. Alone(d)
  BY <1>1, <1>2, <1>5, <1>7 DEF Alone
<1>9. SameBasis(d)
  BY <1>1 DEF SameBasis, Epoch
<1>10. Stored(d)'
  BY <1>3, <1>4, <1>5, <1>6 DEF Stored
<1>11. Going(d)'
  BY <1>2 DEF Going, Idle
<1>12. (\A x \in Device : \A p : Packing(x, p)' => Packing(x, p)) /\ \A f : ~ Wrapping(d, f)'
  BY <1>2 DEF Packing, Wrapping, Idle
<1>13. PackedOnce'
  BY <1>1, <1>6, <1>12, PackedKept
<1> QED BY <1>1, <1>6, <1>8, <1>9, <1>10, <1>11, <1>12, <1>13, Framed

\* Registering a device keeps the invariant.
LEMMA RegisterKeeps ==
  ASSUME KeysInv, Shape', Grows, NEW d \in Device, Register(d)
  PROVE  KeysInv' /\ Alone(d) /\ SameBasis(d)
<1>0. Shape /\ WrittenTruly /\ KeysAreLogged /\ MadeOnce /\ PackedOnce
  BY DEF KeysInv
<1>a. PICK p \in Newcomer, kind \in {"ticket", "recoveryKey"} :
        p = call[d].who /\ kind = call[d].at /\ package[p].kind # "none"
  BY <1>0 DEF Register, PackedOnce
<1> DEFINE r == Record(kind, d, p, current[d], Read(d))
<1>1. /\ Commit(d, r) /\ call' = [call EXCEPT ![d] = Idle] /\ Joined(d)
      /\ UNCHANGED <<setup, keys, current, package, joined, basis>>
  BY <1>a DEF Register, Allowed
<1>2. r \in Written /\ r.type = kind /\ r.author = d /\ r.under = current[d] /\ r.who = p /\ r.epoch = First
  <2>1. Read(d) \subseteq Places /\ current[d] \in Nat /\ p \in Person
    BY <1>0 DEF Read, Readable, Shape, Person
  <2> QED BY <1>0, <2>1, RecordMade
<1>3. log' = Append(log, r) /\ arrived' = [arrived EXCEPT ![d] = @ \cup {Len(log) + 1}]
  BY <1>1 DEF Commit
<1> HIDE DEF r
<1>4. call'[d] = Idle /\ \A e \in Device \ {d} : call'[e] = call[e]
  BY <1>0, <1>1 DEF Shape
<1>5. Len(log) + 1 \in arrived'[d] /\ \A e \in Device \ {d} : arrived'[e] = arrived[e]
  BY <1>0, <1>3 DEF Shape
<1>6. Joined(d)'
  BY <1>0, <1>1, SameAuthority
<1>7. Alone(d)
  BY <1>1, <1>4, <1>5, <1>6 DEF Alone
<1>8. SameBasis(d)
  BY <1>1 DEF SameBasis, Epoch
<1>9. Logged \subseteq Logged'
  BY <1>0, LogGrows
<1>10. Stored(d)' /\ current[d] \in keys'[d]
  BY <1>0, <1>1, <1>9 DEF KeysAreLogged, Stored
<1>11. Going(d)'
  BY <1>4 DEF Going, Idle
<1>12. \A n \in Places' \ Places : Added(d, n) /\ log'[n] = r
  BY <1>0, <1>1, <1>2, <1>3, <1>5, <1>6, <1>10, Appends
<1>13. (\A e \in Device : \A q : Packing(e, q)' => Packing(e, q)) /\ \A q : ~ Packing(d, q)'
  BY <1>4 DEF Packing, Idle
\* What was packed by this call is handed over now: no other call packed it.
<1>14. HandedOver(p)'
  <2>1. \A e \in Device : Packing(e, p) => e = d
    BY <1>0, <1>a DEF PackedOnce, Packing
  <2> QED BY <1>1, <1>a, <1>13, <2>1 DEF HandedOver
<1>15. \A n \in Places' \ Places : log'[n].who \in Newcomer /\ HandedOver(log[n].who)'
  <2> SUFFICES ASSUME NEW n \in Places' \ Places PROVE log'[n].who \in Newcomer /\ HandedOver(log[n].who)'
    OBVIOUS
  <2>1. log'[n].who = p
    BY <1>2, <1>12
  <2> QED BY <1>14, <2>1 DEF HandedOver, Packing
<1>16. PackedOnce'
  BY <1>1, <1>13, <1>15, PackedKept
<1>17. \A f : ~ Wrapping(d, f)'
  BY <1>4 DEF Wrapping, Idle
<1> QED BY <1>1, <1>7, <1>8, <1>10, <1>11, <1>12, <1>16, <1>17, Framed

\* Packing keys for a newcomer keeps the invariant.
LEMMA PackKeeps ==
  ASSUME KeysInv, Shape', Grows, NEW d \in Device, NEW p \in Newcomer,
         NEW kind \in {"ticket", "recoveryKey"}, Pack(d, p, kind)
  PROVE  KeysInv' /\ Alone(d) /\ SameBasis(d)
<1>0. Shape /\ WrittenTruly /\ KeysAreLogged /\ MadeOnce /\ PackedOnce
  BY DEF KeysInv
<1> DEFINE g == [kind |-> kind, keys |-> keys[d], current |-> current[d]]
           k == [at |-> kind, who |-> p]
<1>1. /\ package' = [package EXCEPT ![p] = g] /\ call' = [call EXCEPT ![d] = k] /\ package[p] = NoPackage
      /\ UNCHANGED <<setup, log, arrived, keys, current, joined, basis>> /\ Joined(d) /\ call[d].at = "idle"
  BY DEF Pack, Begins, Allowed
<1>2. /\ call'[d].at = kind /\ call'[d].who = p /\ \A e \in Device \ {d} : call'[e] = call[e]
      /\ package'[p].kind = kind /\ package'[p].keys = keys[d] /\ package'[p].current = current[d]
      /\ \A q \in Newcomer \ {p} : package'[q] = package[q]
  <2>1. g.kind = kind /\ g.keys = keys[d] /\ g.current = current[d] /\ k.at = kind /\ k.who = p
    OBVIOUS
  <2> HIDE DEF g, k
  <2> QED BY <1>0, <1>1, <2>1 DEF Shape
<1>3. Joined(d)'
  BY <1>0, <1>1, SameAuthority
<1>4. Alone(d)
  BY <1>1, <1>2, <1>3 DEF Alone
<1>5. SameBasis(d)
  BY <1>1 DEF SameBasis, Epoch
<1>6. Places' = Places /\ Places' \ Places = {} /\ Logged' = Logged
  BY <1>0, <1>1, Quiet
<1>7. Stored(d)' /\ Stored(d)
  BY <1>0, <1>1, <1>6 DEF KeysAreLogged, Stored
<1>8. Going(d)'
  BY <1>2 DEF Going
<1>9. Stocked(p)'
  BY <1>1, <1>2, <1>6, <1>7 DEF Stored, Stocked
<1>10. ~ HandedOver(p) /\ \A e \in Device : ~ Packing(e, p)
  BY <1>0, <1>1 DEF HandedOver, NoPackage, PackedOnce, Packing
<1>11. PackedOnce'
  <2>1. \A q \in Newcomer \ {p} : HandedOver(q) => HandedOver(q)'
    BY <1>2 DEF HandedOver, Packing
  <2>2. ASSUME NEW e \in Device, call'[e].at \in {"ticket", "recoveryKey"}
        PROVE  call'[e].who \in Newcomer /\ package'[call'[e].who].kind # "none"
    <3>1. CASE e = d
      BY <1>2, <3>1
    <3>2. CASE e # d
      <4>1. call'[e] = call[e] /\ call[e].who \in Newcomer /\ package[call[e].who].kind # "none"
        BY <1>0, <1>2, <2>2, <3>2 DEF PackedOnce
      <4>2. call[e].who # p
        BY <1>1, <4>1 DEF NoPackage
      <4> QED BY <1>2, <4>1, <4>2
    <3> QED BY <3>1, <3>2
  <2>3. ASSUME NEW q \in Newcomer, NEW b \in Device, NEW c \in Device, Packing(b, q)', Packing(c, q)' PROVE b = c
    <3>1. \A e \in Device \ {d} : Packing(e, q)' => Packing(e, q) /\ q # p
      BY <1>2, <1>10 DEF Packing
    <3>2. Packing(d, q)' => q = p
      BY <1>2 DEF Packing
    <3> QED BY <1>0, <2>3, <3>1, <3>2 DEF PackedOnce
  <2>4. ASSUME NEW n \in Places', log'[n].type \in {"ticket", "recoveryKey"}
        PROVE  log'[n].who \in Newcomer /\ HandedOver(log[n].who)'
    <3>1. log[n].who \in Newcomer /\ HandedOver(log[n].who) /\ log' = log
      BY <1>0, <1>1, <1>6, <2>4 DEF PackedOnce
    <3>2. PICK q \in Newcomer : q = log[n].who
      BY <3>1
    <3>3. HandedOver(q)'
      BY <1>10, <2>1, <3>1, <3>2
    <3> QED BY <3>1, <3>2, <3>3 DEF HandedOver, Packing
  <2>5. \A q \in joined' : HandedOver(q)'
    <3>1. \A q \in joined : q \in Newcomer /\ HandedOver(q)
      BY <1>0 DEF PackedOnce, Shape
    <3> QED BY <1>1, <1>10, <2>1, <3>1
  <2> QED BY <2>2, <2>3, <2>4, <2>5 DEF PackedOnce
<1>12. \A f : ~ Wrapping(d, f)'
  BY <1>2 DEF Wrapping
<1> QED BY <1>2, <1>4, <1>5, <1>6, <1>7, <1>8, <1>9, <1>11, <1>12, Framed

\* Joining with packed keys keeps the invariant.
LEMMA JoinKeeps ==
  ASSUME KeysInv, Shape', Grows, NEW d \in Newcomer \cap Device, Join(d)
  PROVE  KeysInv' /\ Alone(d) /\ SameBasis(d)
<1>0. Shape /\ WrittenTruly /\ KeysAreLogged /\ MadeOnce /\ PackedOnce /\ Outsiders
  BY DEF KeysInv
<1>a. PICK held \in SUBSET Nat, now \in Nat, kind \in {"redeemed", "introduced"} :
        /\ held = package[d].keys /\ now = package[d].current
        /\ kind = IF package[d].kind = "ticket" THEN "redeemed" ELSE "introduced"
  BY <1>0 DEF Shape, Packages
<1>1. PICK n \in Places, S \in SUBSET Places :
        /\ d \notin joined /\ log[n].who = d /\ log[n].type = package[d].kind
        /\ joined' = joined \cup {d}
        /\ log' = Append(log, Record(kind, d, d, now, Readable(S, held)))
        /\ arrived' = [arrived EXCEPT ![d] = S \cup {Len(log) + 1}]
        /\ Settle(d, S, held, now)
        /\ UNCHANGED <<setup, call, package, basis>>
  BY <1>a DEF Join, Places
<1> DEFINE r == Record(kind, d, d, now, Readable(S, held))
<1>2. r \in Written /\ r.type = kind /\ r.author = d /\ r.under = now /\ r.epoch = First
  <2>1. Readable(S, held) \subseteq Places /\ d \in Person
    BY DEF Readable, Person
  <2> QED BY <1>0, <2>1, RecordMade
<1>3. log' = Append(log, r)
  BY <1>1
<1> HIDE DEF r
<1>4. Joined(d)' /\ ~ Joined(d)
  BY <1>0, <1>1, Recorded DEF Joined
\* The package was handed over: the record its device read says so.
<1>5. log[n].type \in {"ticket", "recoveryKey"}
  <2>1. package[d].kind \in {"none", "ticket", "recoveryKey"} /\ log[n].type # "none"
    BY <1>0, Recorded DEF Shape, Packages, Written
  <2> QED BY <1>1, <2>1
<1>6. HandedOver(d)
  BY <1>0, <1>1, <1>5 DEF PackedOnce
<1>7. held \subseteq {First} \cup Logged /\ now \in held
  BY <1>0, <1>a, <1>6 DEF KeysAreLogged, Stocked, HandedOver
<1>8. /\ keys'[d] \subseteq held \cup Logged /\ held \subseteq keys'[d] /\ current'[d] \in keys'[d]
      /\ \A e \in Device : e # d => keys'[e] = keys[e] /\ current'[e] = current[e]
  BY <1>0, <1>1, <1>7, Settles
<1>9. Len(log) + 1 \in arrived'[d] /\ \A e \in Device \ {d} : arrived'[e] = arrived[e]
  BY <1>0, <1>1 DEF Shape
<1>10. Alone(d)
  BY <1>1, <1>4, <1>8, <1>9 DEF Alone
<1>11. SameBasis(d)
  BY <1>1 DEF SameBasis, Epoch
<1>12. Logged \subseteq Logged'
  BY <1>0, LogGrows
<1>13. Stored(d)'
  BY <1>7, <1>8, <1>12 DEF Stored
<1>14. call'[d] = Idle
  BY <1>0, <1>1, <1>4 DEF Outsiders
<1>15. Going(d)' /\ \A f : ~ Wrapping(d, f)'
  BY <1>14 DEF Going, Wrapping, Idle
<1>16. \A m \in Places' \ Places : Added(d, m) /\ log'[m] = r
  BY <1>0, <1>2, <1>3, <1>4, <1>7, <1>8, <1>9, Appends
<1>17. \A e \in Device : \A q : Packing(e, q)' <=> Packing(e, q)
  BY <1>1 DEF Packing
<1>18. HandedOver(d)'
  BY <1>1, <1>6, <1>17 DEF HandedOver
<1>19. PackedOnce'
  BY <1>1, <1>2, <1>16, <1>17, <1>18, PackedKept
<1> QED BY <1>1, <1>10, <1>11, <1>13, <1>15, <1>16, <1>19, Framed

\* Synchronizing keeps the invariant.
LEMMA SyncKeeps ==
  ASSUME KeysInv, Shape', Grows, NEW d \in Device, Sync(d)
  PROVE  KeysInv' /\ Alone(d) /\ SameBasis(d)
<1>0. Shape /\ WrittenTruly /\ KeysAreLogged /\ MadeOnce /\ PackedOnce
  BY DEF KeysInv
<1>1. PICK S \in SUBSET (Places \ arrived[d]) :
        /\ arrived' = [arrived EXCEPT ![d] = @ \cup S]
        /\ Settle(d, arrived[d] \cup S, keys[d], current[d])
        /\ Joined(d) /\ UNCHANGED <<setup, log, call, package, joined, basis>>
  BY DEF Sync, Places
<1>2. keys[d] \subseteq {First} \cup Logged /\ current[d] \in keys[d] /\ keys[d] \subseteq Nat /\ current[d] \in Nat
  BY <1>0, <1>1 DEF KeysAreLogged, Stored, Shape
<1>3. arrived[d] \cup S \subseteq Places
  BY <1>0 DEF Shape
<1>4. /\ keys'[d] \subseteq keys[d] \cup Logged /\ current'[d] \in keys'[d]
      /\ \A e \in Device : e # d => keys'[e] = keys[e] /\ current'[e] = current[e]
  BY <1>0, <1>1, <1>2, <1>3, SettlesOwn
<1>5. \A e \in Device \ {d} : arrived'[e] = arrived[e]
  BY <1>0, <1>1 DEF Shape
<1>6. Joined(d)'
  BY <1>0, <1>1, SameAuthority
<1>7. Alone(d)
  BY <1>1, <1>4, <1>5, <1>6 DEF Alone
<1>8. SameBasis(d) /\ Epoch' = Epoch
  BY <1>1 DEF SameBasis, Epoch
<1>9. /\ Places' \ Places = {} /\ Logged' = Logged
  BY <1>0, <1>1, Quiet
<1>10. Stored(d)'
  BY <1>2, <1>4, <1>9 DEF Stored
<1>11. Going(d)'
  <2>1. call[d].at = "wrapped" => basis'[call[d].epoch] = basis[call[d].epoch] /\ call[d].epoch \notin Logged'
    BY <1>0, <1>1, <1>9 DEF MadeOnce, Going
  <2> QED BY <1>1, <1>8, <2>1, GoingKept
<1>12. \A e \in Device : \A p : Packing(e, p)' => Packing(e, p)
  BY <1>1 DEF Packing
<1>13. PackedOnce'
  BY <1>1, <1>9, <1>12, PackedKept
<1>14. \A e \in Device \ {d} : \A f : Wrapping(d, f)' => ~ Wrapping(e, f)
  <2> SUFFICES ASSUME NEW e \in Device \ {d}, NEW f, Wrapping(d, f)', Wrapping(e, f) PROVE FALSE
    OBVIOUS
  <2>1. Wrapping(d, f)
    BY <1>1 DEF Wrapping
  <2>2. f \in Epoch
    BY <1>0, <2>1 DEF MadeOnce, Going, Wrapping
  <2> QED BY <1>0, <2>1, <2>2 DEF MadeOnce
<1> QED BY <1>1, <1>7, <1>8, <1>9, <1>10, <1>11, <1>13, <1>14, Framed

\* A call that ended too early, by itself or with the page: what it packed and wrapped is gone.
LEMMA AbandonKeeps ==
  ASSUME KeysInv, Shape', Grows, NEW d \in Device, Abandon(d), call[d].at # "idle",
         UNCHANGED <<setup, log, arrived, joined>>,
         \A e \in Device \ {d} : keys'[e] = keys[e] /\ current'[e] = current[e],
         keys'[d] \subseteq keys[d] \cup Logged, current'[d] \in keys'[d]
  PROVE  KeysInv' /\ Alone(d) /\ SameBasis(d)
<1>0. Shape /\ WrittenTruly /\ KeysAreLogged /\ MadeOnce /\ PackedOnce /\ Outsiders
  BY DEF KeysInv
<1>1. /\ call'[d] = Idle /\ \A e \in Device : e # d => call'[e] = call[e]
      /\ \A p \in Newcomer : package'[p] = IF Packing(d, p) THEN NoPackage ELSE package[p]
      /\ \A e \in Epoch : basis'[e] = IF call[d].at = "wrapped" /\ call[d].epoch = e THEN {} ELSE basis[e]
  BY <1>0, Abandons
<1>2. Joined(d) /\ Joined(d)'
  <2>1. Joined(d)
    BY <1>0 DEF Outsiders, Idle
  <2> QED BY <1>0, <2>1, SameAuthority
<1>3. Alone(d)
  BY <1>1, <1>2 DEF Alone
<1>4. SameBasis(d)
  <2>1. call[d].at = "wrapped" => call[d].epoch \notin Logged
    BY <1>0 DEF MadeOnce, Going
  <2>2. \A n \in Rotations : log[n].epoch \in Epoch /\ log[n].epoch \in Logged
    BY <1>0 DEF MadeOnce, Sound, Logged
  <2>3. \A e \in Device \ {d} : call[e].at = "wrapped" =>
          call[e].epoch \in Epoch /\ (call[d].at = "wrapped" => call[d].epoch # call[e].epoch)
    BY <1>0 DEF MadeOnce, Going, Wrapping
  <2>4. Epoch' = Epoch
    BY DEF Epoch
  <2> QED BY <1>1, <2>1, <2>2, <2>3, <2>4 DEF SameBasis
<1>5. /\ Places' = Places /\ Places' \ Places = {} /\ Logged' = Logged
  BY <1>0, Quiet
<1>6. Stored(d)'
  BY <1>0, <1>5 DEF KeysAreLogged, Stored
<1>7. Going(d)' /\ (\A f : ~ Wrapping(d, f)') /\ \A p : ~ Packing(d, p)'
  BY <1>1 DEF Going, Wrapping, Packing, Idle
<1>8. ASSUME NEW p \in Newcomer PROVE package'[p] = package[p] \/ Stocked(p)'
  BY <1>1 DEF Stocked, NoPackage
<1>9. PackedOnce'
  <2>1. ASSUME NEW p \in Newcomer, HandedOver(p) PROVE HandedOver(p)'
    <3>1. ~ Packing(d, p) /\ package'[p] = package[p]
      BY <1>1, <2>1 DEF HandedOver
    <3>2. \A e \in Device : Packing(e, p)' => Packing(e, p)
      BY <1>1, <1>7 DEF Packing
    <3> QED BY <2>1, <3>1, <3>2 DEF HandedOver
  <2>2. ASSUME NEW e \in Device, call'[e].at \in {"ticket", "recoveryKey"}
        PROVE  call'[e].who \in Newcomer /\ package'[call'[e].who].kind # "none"
    <3>1. e # d /\ call'[e] = call[e]
      BY <1>1, <2>2 DEF Idle
    <3>2. PICK p \in Newcomer : p = call[e].who /\ package[p].kind # "none"
      BY <1>0, <2>2, <3>1 DEF PackedOnce
    <3>3. ~ Packing(d, p)
      BY <1>0, <2>2, <3>1, <3>2 DEF PackedOnce, Packing
    <3> QED BY <1>1, <3>1, <3>2, <3>3
  <2>3. \A p \in Newcomer : \A b, c \in Device : Packing(b, p)' /\ Packing(c, p)' => b = c
    <3>1. \A e \in Device : \A p : Packing(e, p)' => Packing(e, p)
      BY <1>1, <1>7 DEF Packing
    <3> QED BY <1>0, <3>1 DEF PackedOnce
  <2>4. ASSUME NEW n \in Places', log'[n].type \in {"ticket", "recoveryKey"}
        PROVE  log'[n].who \in Newcomer /\ HandedOver(log[n].who)'
    <3>1. PICK p \in Newcomer : p = log[n].who /\ HandedOver(p)
      BY <1>0, <1>5, <2>4 DEF PackedOnce
    <3>2. HandedOver(p)' /\ log'[n].who = p
      BY <2>1, <3>1
    <3> QED BY <3>2 DEF HandedOver, Packing
  <2>5. \A p \in joined' : HandedOver(p)'
    BY <1>0, <2>1 DEF PackedOnce, Shape
  <2> QED BY <2>2, <2>3, <2>4, <2>5 DEF PackedOnce
<1> QED BY <1>3, <1>4, <1>5, <1>6, <1>7, <1>8, <1>9, Framed

\* Every step keeps the invariant of the keys.
LEMMA KeysStep ==
  ASSUME KeysInv, [Next]_vars
  PROVE  KeysInv'
<1>0. Shape /\ KeysAreLogged /\ Outsiders
  BY DEF KeysInv
<1>1. CASE UNCHANGED vars
  <2>1. /\ Places' = Places /\ Rotations' = Rotations /\ Logged' = Logged /\ Epoch' = Epoch
        /\ (Shape' <=> Shape)
    BY <1>1 DEF vars, Places, Rotations, Logged, RecordsOf, Epoch, Shape
  <2>2. (Outsiders' <=> Outsiders) /\ (WrittenTruly' <=> WrittenTruly) /\ (KeysAreLogged' <=> KeysAreLogged)
    BY <1>1, <2>1 DEF vars, Outsiders, WrittenTruly, Present, KeysAreLogged, Stored, Stocked, Joined, RecordsOf
  <2>3. PackedOnce' <=> PackedOnce
    BY <1>1, <2>1 DEF vars, PackedOnce, HandedOver, Packing
  <2>4. Grows
    BY <1>0, <1>1, Recorded DEF vars, Grows
  <2>5. ASSUME NEW n \in Rotations PROVE Sound(n)'
    <3>1. PICK d \in Device : d = log[n].author
      BY <1>0, Recorded DEF Rotations, Written
    <3>2. SameBasis(d)
      BY <1>1, <2>1 DEF vars, SameBasis
    <3> QED BY <1>0, <2>1, <2>4, <3>2, SoundKept
  <2>6. ASSUME NEW d \in Device PROVE Going(d)'
    <3>1. call[d].at = "wrapped" => basis'[call[d].epoch] = basis[call[d].epoch] /\ call[d].epoch \notin Logged'
      BY <1>1, <2>1 DEF KeysInv, MadeOnce, Going, vars
    <3> QED BY <1>0, <1>1, <2>1, <2>4, <3>1, GoingKept DEF vars
  <2>7. MadeOnce'
    BY <1>1, <2>1, <2>5, <2>6 DEF vars, KeysInv, MadeOnce, Wrapping
  <2> QED BY <2>1, <2>2, <2>3, <2>7 DEF KeysInv
<1>2. CASE Next
  <2>0. Shape' /\ Grows
    BY <1>2, StepGrows
  <2>1. ASSUME NEW d \in Device, Refused(d) PROVE KeysInv'
    <3>1. /\ Abandon(d) /\ call[d].at # "idle" /\ UNCHANGED <<setup, log, arrived, keys, current, joined>>
      BY <2>1 DEF Refused
    <3>2. Joined(d)
      BY <1>0, <3>1 DEF Outsiders, Idle
    <3>3. keys'[d] \subseteq keys[d] \cup Logged /\ current'[d] \in keys'[d]
      BY <1>0, <3>1, <3>2 DEF KeysAreLogged, Stored
    <3> QED BY <2>0, <3>1, <3>3, AbandonKeeps
  <2>2. ASSUME NEW d \in Device, Crash(d) PROVE KeysInv'
    <3>1. /\ Abandon(d) /\ call[d].at # "idle" /\ UNCHANGED <<setup, log, arrived, joined>>
          /\ Settle(d, arrived[d], keys[d], current[d])
      BY <2>2 DEF Crash
    <3>2. Joined(d)
      BY <1>0, <3>1 DEF Outsiders, Idle
    <3>3. /\ arrived[d] \subseteq Places /\ keys[d] \subseteq Nat /\ current[d] \in Nat /\ current[d] \in keys[d]
      BY <1>0, <3>2 DEF KeysAreLogged, Stored, Shape
    <3>4. /\ keys'[d] \subseteq keys[d] \cup Logged /\ current'[d] \in keys'[d]
          /\ \A e \in Device : e # d => keys'[e] = keys[e] /\ current'[e] = current[e]
      BY <1>0, <3>1, <3>3, SettlesOwn
    <3> QED BY <2>0, <3>1, <3>4, AbandonKeeps
  <2>3. ASSUME NEW d \in Device, NEW p \in Person, Remove(d, p) PROVE KeysInv'
    BY <2>0, <2>3, RemoveKeeps
  <2>4. ASSUME NEW d \in Device, Wrap(d) PROVE KeysInv'
    BY <2>0, <2>4, WrapKeeps
  <2>5. ASSUME NEW d \in Device, Announce(d) PROVE KeysInv'
    BY <2>0, <2>5, AnnounceKeeps
  <2>6. ASSUME NEW d \in Device, Install(d) PROVE KeysInv'
    BY <2>0, <2>6, InstallKeeps
  <2>7. ASSUME NEW d \in Device, Register(d) PROVE KeysInv'
    BY <2>0, <2>7, RegisterKeeps
  <2>8. ASSUME NEW d \in Device, NEW p \in Newcomer, NEW kind \in {"ticket", "recoveryKey"}, Pack(d, p, kind)
        PROVE KeysInv'
    BY <2>0, <2>8, PackKeeps
  <2>9. ASSUME NEW p \in Newcomer \cap Device, Join(p) PROVE KeysInv'
    BY <2>0, <2>9, JoinKeeps
  <2>10. ASSUME NEW d \in Device, Sync(d) PROVE KeysInv'
    BY <2>0, <2>10, SyncKeeps
  <2> QED BY <1>2, <2>1, <2>2, <2>3, <2>4, <2>5, <2>6, <2>7, <2>8, <2>9, <2>10 DEF Next
<1> QED BY <1>1, <1>2

\* The devices start in the invariant of the keys.
LEMMA KeysInit ==
  ASSUME Init
  PROVE  KeysInv
<1>1. setup \in Setups /\ log = <<>> /\ finished = {} /\ joined = {}
      /\ arrived = [d \in Device |-> {}] /\ call = [d \in Device |-> Idle]
      /\ keys = [d \in Device |-> IF d \in Members THEN {First} ELSE {}]
      /\ current = [d \in Device |-> First] /\ package = [p \in Newcomer |-> NoPackage]
      /\ basis = [e \in Epoch |-> {}]
  BY DEF Init
<1>2. Places = {} /\ Rotations = {} /\ Logged = {}
  <2>1. Places = {}
    BY <1>1 DEF Places
  <2>2. Rotations = {}
    BY <2>1 DEF Rotations, RecordsOf
  <2> QED BY <2>1, <2>2 DEF Logged
<1>3. Shape
  <2>1. setup.rotations \in Nat
    BY <1>1, KeysAssumption DEF KeysAssumption
  <2>2. log \in Seq(Written)
    BY <1>1
  <2>3. arrived \in [Device -> SUBSET Places] /\ keys \in [Device -> SUBSET Nat] /\ current \in [Device -> Nat]
    BY <1>1 DEF First
  <2>4. call \in [Device -> CallStates]
    BY <1>1 DEF CallStates
  <2>5. NoPackage \in Packages
    BY DEF NoPackage, Packages, First
  <2>6. package \in [Newcomer -> Packages] /\ joined \subseteq Newcomer \cap Device
    BY <1>1, <2>5
  <2>7. basis \in [Epoch -> SUBSET (Places \cup {0})] /\ finished \subseteq [by : Device, who : Person, epoch : Nat]
    BY <1>1
  <2> QED BY <2>1, <2>2, <2>3, <2>4, <2>6, <2>7 DEF Shape
<1>4. Outsiders
  BY <1>1 DEF Outsiders, Joined
<1>5. WrittenTruly
  BY <1>2 DEF WrittenTruly, RecordsOf
<1>6. KeysAreLogged
  BY <1>1 DEF KeysAreLogged, Stored, Stocked, Joined, NoPackage
<1>7. PackedOnce
  BY <1>1, <1>2 DEF PackedOnce, Packing, Idle
<1>8. MadeOnce
  BY <1>1, <1>2 DEF MadeOnce, Going, Wrapping, Idle
<1> QED BY <1>3, <1>4, <1>5, <1>6, <1>7, <1>8 DEF KeysInv

\* What is known of keys, copies and packages holds in every state.
THEOREM KeysInductive == Spec => []KeysInv
<1>1. Init => KeysInv
  BY KeysInit
<1>2. KeysInv /\ [Next]_vars => KeysInv'
  BY KeysStep
<1> QED BY <1>1, <1>2, PTL DEF Spec

\* Whoever its maker knew to be removed opens a generation by no ticket, copy or chain of others:
\* all the generations but that one are closed under what the person gets at.
THEOREM RemovedStayOut == Spec => []RemovedKeptOut
<1>1. ASSUME KeysInv PROVE RemovedKeptOut
  <2> SUFFICES ASSUME NEW n \in Rotations, NEW p \in RemovedIn(Knew(log[n].epoch)), ~ HoldsAuthority(p)
               PROVE  log[n].epoch \notin CouldOpen(p)
    BY DEF RemovedKeptOut, Rotations, Places
  <2> DEFINE e == log[n].epoch
             S == Epoch \ {e}
  <2>0. Shape /\ WrittenTruly /\ KeysAreLogged /\ MadeOnce
    BY <1>1 DEF KeysInv
  <2>1. e \in Epoch \ {First} /\ KeptFrom(e, log[n].grants)
    BY <2>0 DEF MadeOnce, Sound
  <2>2. Logged \subseteq Epoch /\ First \in Epoch
    <3>1. Logged \subseteq Epoch
      BY <2>0 DEF MadeOnce, Sound, Logged
    <3> QED BY <2>0, <3>1 DEF Epoch, First, Shape
  <2>3. Given(p) \subseteq S
    BY <2>0, <2>1, <2>2 DEF Given, KeysAreLogged, Stocked, KeptFrom
  <2>4. log[n].grants \cap OpensFor(p) = {}
    BY <2>1 DEF KeptFrom, OpensFor
  <2>5. GetsAt(p, S) \subseteq S
    <3>1. ASSUME NEW m \in RecordsOf(Readable(1 .. Len(log), S), "rotate"), log[m].grants \cap OpensFor(p) # {}
          PROVE  log[m].epoch \in S
      <4>1. m \in Rotations
        BY DEF RecordsOf, Readable, Rotations, Places
      <4>2. m # n
        BY <2>4, <3>1
      <4>3. log[m].epoch # e
        BY <2>0, <4>1, <4>2 DEF MadeOnce
      <4> QED BY <2>2, <4>1, <4>3 DEF Logged
    <3> QED BY <3>1 DEF GetsAt, GrantedTo
  <2>6. S \in SUBSET Epoch /\ Given(p) \cup GetsAt(p, S) \subseteq S /\ e \notin S
    BY <2>3, <2>5
  <2> HIDE DEF S
  <2> QED BY <2>6 DEF CouldOpen
<1> QED BY <1>1, KeysInductive, PTL

-----------------------------------------------------------------------------
(* Which generation the device that removed somebody writes with afterwards. *)

\* A removal that was known stays known, since there is no other.
LEMMA StaysRemoved ==
  ASSUME KeysInv, KeysInv', Grows, NEW R, NEW T, R \subseteq T, R \subseteq Places, T \subseteq Places'
  PROVE  RemovedIn(R) \subseteq RemovedIn(T)'
<1>0. Shape /\ WrittenTruly /\ WrittenTruly'
  BY DEF KeysInv
<1>1. /\ Removals(R)' = Removals(R) /\ JoinedIn(R)' = JoinedIn(R)
      /\ \A n \in R : log'[n] = log[n]
  BY <1>0, SameThen, LogGrows
<1> SUFFICES ASSUME NEW n \in Removals(R) PROVE n \in Removals(T)' /\ log'[n].who = log[n].who
  BY DEF RemovedIn
<1>2. n \in RecordsOf(R, "remove")' /\ n \in RecordsOf(T, "remove")' /\ n \in R /\ log'[n].who = log[n].who
  BY <1>1 DEF Removals, RecordsOf
<1>3. \A m \in RecordsOf(T, "remove")' : m = n
  BY <1>0, <1>2 DEF WrittenTruly, RecordsOf
<1>4. \A m \in RecordsOf(R, "remove")' : m = n
  BY <1>0, <1>2 DEF WrittenTruly, RecordsOf
<1>5. JoinedIn(R)' \subseteq JoinedIn(T)'
  <2>1. \A k : Proven(R, k)' => Proven(T, k)'
    BY <1>2, <1>3, <1>4 DEF Proven, RecordsOf
  <2> QED BY <2>1 DEF JoinedIn, RecordsOf
<1>6. n \in Removals(R)'
  BY <1>1
<1>7. n \in Removals(T)'
  BY <1>2, <1>3, <1>5, <1>6 DEF Removals
<1> QED BY <1>2, <1>7

\* Who removed somebody was not removed, so that the generations it made count wherever they are
\* read: the device that settles with one of them among what it holds adopts it or a later one.
LEMMA SettlesAfter ==
  ASSUME KeysInv, NEW d \in Device, \A m \in RecordsOf(Places, "remove") : log[m].who # d,
         NEW n \in Rotations, log[n].author = d,
         NEW S, arrived[d] \subseteq S, S \subseteq Places,
         NEW held, keys[d] \subseteq held, log[n].epoch \in held, NEW now
  PROVE  \E c \in Rotations : log[c].epoch = Adopted(Readable(S, held), held, now) /\ (c = n \/ Before(log, n, c))
<1>0. Shape /\ WrittenTruly /\ MadeOnce
  BY DEF KeysInv
<1> DEFINE R == Readable(S, held)
<1>1. R \subseteq Places
  BY DEF Readable
<1>2. n \in Places /\ Present(n) /\ Sound(n) /\ log[n].type = "rotate"
  BY <1>0 DEF WrittenTruly, MadeOnce, Rotations, RecordsOf
<1>3. n \in R
  BY <1>2 DEF Present, Readable
<1>4. d \in Members \/ HoldsAuthority(d)
  BY <1>2 DEF Sound, IsMaster, Members
<1>5. n \in Accepted(R)
  <2>1. \A m \in Removals(R) : log[m].who # d
    BY <1>1 DEF Removals, RecordsOf
  <2> QED BY <1>3, <1>4, <2>1 DEF Accepted
<1>6. n \in EpochsIn(R)
  BY <1>2, <1>5 DEF EpochsIn, RecordsOf
<1>7. \A c \in EpochsIn(R) : c \in Rotations
  BY <1>1 DEF EpochsIn, RecordsOf, Accepted, Rotations
<1> HIDE DEF R
<1>8. PICK c \in {m \in EpochsIn(R) : log[m].epoch \in held} :
        /\ Adopted(R, held, now) = log[c].epoch
        /\ \A m \in {k \in EpochsIn(R) : log[k].epoch \in held} \ {c} : Before(log, m, c)
  BY <1>0, <1>1, <1>6, AdoptsLast
<1>9. c \in Rotations /\ (c = n \/ Before(log, n, c))
  BY <1>6, <1>7, <1>8
<1> QED BY <1>8, <1>9 DEF R

\* Nobody else was removed.
LEMMA OneRemoved ==
  ASSUME KeysInv, NEW R, R \subseteq Places, NEW p \in RemovedIn(R)
  PROVE  \A m \in RecordsOf(Places, "remove") : log[m].who = p
<1>1. PICK n \in Removals(R) : p = log[n].who
  BY DEF RemovedIn
<1>2. n \in RecordsOf(Places, "remove")
  BY DEF Removals, RecordsOf
<1> QED BY <1>1, <1>2 DEF KeysInv, WrittenTruly

\* The order of two rotations that are there does not change.
LEMMA SameOrder ==
  ASSUME Shape, Grows, NEW m \in Rotations, NEW n \in Rotations
  PROVE  /\ m \in Rotations' /\ n \in Rotations' /\ log'[n] = log[n] /\ log'[m] = log[m]
         /\ Before(log, m, n) <=> Before(log', m, n)
<1>1. m \in Rotations' /\ n \in Rotations' /\ log'[n] = log[n] /\ log'[m] = log[m]
  BY LogGrows, Recorded DEF Rotations
<1> QED BY <1>1 DEF Before

\* A removal that ended well stays so.
LEMMA EndedKept ==
  ASSUME KeysInv, KeysInv', Grows, NEW d \in Device, SameBasis(d), Alone(d),
         NEW r \in [by : Device, who : Person, epoch : Nat], EndedWell(r),
         r.by = d => \A n \in Rotations : log[n].author = d /\ log[n].epoch = r.epoch =>
           WritesAfter(d, n)' /\ MakesAfter(d, n)'
  PROVE  EndedWell(r)'
<1>0. Shape /\ WrittenTruly /\ MadeOnce /\ MadeOnce' /\ Shape'
  BY DEF KeysInv
<1>1. PICK n \in Rotations : log[n].author = r.by /\ log[n].epoch = r.epoch
  BY DEF EndedWell
<1>2. n \in Rotations' /\ log'[n] = log[n]
  BY <1>0, SameOrder
<1>3. \A m \in Rotations' : log'[m].epoch = r.epoch => m = n
  BY <1>0, <1>1, <1>2 DEF MadeOnce
<1>4. r.who \in RemovedIn(Knew(r.epoch))'
  <2>1. r.epoch \in Epoch /\ basis'[r.epoch] = basis[r.epoch]
    BY <1>0, <1>1 DEF MadeOnce, Sound, SameBasis
  <2>2. Knew(r.epoch) \subseteq Places /\ Knew(r.epoch)' = Knew(r.epoch)
    BY <1>0, <2>1 DEF Knew, Shape
  <2>3. PICK R \in SUBSET Places : R = Knew(r.epoch)
    BY <2>2
  <2>4. RemovedIn(R)' = RemovedIn(R)
    BY <1>0, SameThen
  <2>5. RemovedIn(Knew(r.epoch))' = RemovedIn(R)'
    BY <2>2, <2>3 DEF RemovedIn, Removals, RecordsOf, JoinedIn, Proven
  <2> QED BY <2>3, <2>4, <2>5 DEF EndedWell
<1>5. r.epoch \in keys'[r.by]
  BY DEF EndedWell, Grows
<1>6. WritesAfter(r.by, n)' /\ MakesAfter(r.by, n)'
  <2>1. CASE r.by = d
    BY <1>1, <2>1
  <2>2. CASE r.by # d
    <3>1. WritesAfter(r.by, n) /\ MakesAfter(r.by, n) /\ current'[r.by] = current[r.by] /\ call'[r.by] = call[r.by]
      BY <1>1, <2>2 DEF EndedWell, Alone
    <3>2. WritesAfter(r.by, n)'
      <4>1. PICK c \in Rotations : log[c].epoch = current[r.by] /\ (c = n \/ Before(log, n, c))
        BY <3>1 DEF WritesAfter
      <4> QED BY <1>0, <3>1, <4>1, SameOrder DEF WritesAfter
    <3>3. MakesAfter(r.by, n)'
      <4>1. CASE call[r.by].at = "announced"
        <5>1. PICK a \in Rotations : log[a].epoch = call[r.by].epoch /\ Before(log, n, a)
          BY <3>1, <4>1 DEF MakesAfter
        <5> QED BY <1>0, <3>1, <5>1, SameOrder DEF MakesAfter
      <4>2. CASE call[r.by].at # "announced"
        BY <3>1, <4>2 DEF MakesAfter
      <4> QED BY <4>1, <4>2
    <3> QED BY <3>2, <3>3
  <2> QED BY <2>1, <2>2
<1>7. \A m \in Rotations' : log'[m].author = r.by /\ log'[m].epoch = r.epoch =>
        WritesAfter(r.by, m)' /\ MakesAfter(r.by, m)'
  BY <1>3, <1>6
<1> QED BY <1>1, <1>2, <1>4, <1>5, <1>7 DEF EndedWell

\* A call that does not move remembers what it read.
LEMMA RemembersKept ==
  ASSUME KeysInv, KeysInv', Grows, NEW d \in Device, call'[d] = call[d], Remembers(d),
         call[d].at \in {"wrapped", "announced"} => basis'[call[d].epoch] = basis[call[d].epoch]
  PROVE  Remembers(d)'
<1>0. Shape /\ WrittenTruly /\ Shape'
  BY DEF KeysInv
<1>1. ASSUME call[d].at = "removed" PROVE call[d].who # d /\ call[d].who \in RemovedIn(Read(d))'
  <2>1. Read(d) \subseteq Read(d)' /\ Read(d) \subseteq Places /\ Read(d)' \subseteq Places'
    <3>1. \A n \in arrived[d] : n \in Places
      BY <1>0 DEF Shape
    <3>2. \A n \in arrived'[d] : n \in Places'
      BY <1>0 DEF Shape
    <3>3. \A n \in Places : log'[n] = log[n]
      BY <1>0, LogGrows
    <3> QED BY <3>1, <3>2, <3>3 DEF Read, Readable, Grows
  <2>2. PICK R \in SUBSET Places, T \in SUBSET (Places') : R = Read(d) /\ T = Read(d)'
    BY <2>1
  <2>3. RemovedIn(R) \subseteq RemovedIn(T)'
    BY <2>1, <2>2, StaysRemoved
  <2>4. RemovedIn(Read(d))' = RemovedIn(T)'
    BY <2>2 DEF RemovedIn, Removals, RecordsOf, JoinedIn, Proven
  <2> QED BY <1>1, <2>2, <2>3, <2>4 DEF Remembers
<1>2. ASSUME call[d].at \in {"wrapped", "announced"}, call[d].who # d
      PROVE  call[d].who \in RemovedIn(Knew(call[d].epoch))'
  <2>1. Knew(call[d].epoch) \subseteq Places
    <3>1. call[d].epoch \in Epoch
      BY <1>2 DEF KeysInv, MadeOnce, Going, Sound
    <3> QED BY <1>0, <3>1 DEF Knew, Shape
  <2>2. PICK R \in SUBSET Places : R = Knew(call[d].epoch)
    BY <2>1
  <2>3. RemovedIn(R)' = RemovedIn(R)
    BY <1>0, SameThen
  <2>4. Knew(call[d].epoch)' = R
    BY <1>2, <2>2 DEF Knew
  <2>5. RemovedIn(Knew(call[d].epoch))' = RemovedIn(R)'
    BY <2>4 DEF RemovedIn, Removals, RecordsOf, JoinedIn, Proven
  <2> QED BY <1>2, <2>2, <2>3, <2>5 DEF Remembers
<1> QED BY <1>1, <1>2 DEF Remembers

\* A device that writes with what it wrote with, and announced nothing.
LEMMA WritesOn ==
  ASSUME Shape, Grows, NEW d \in Device, current'[d] = current[d], NEW n \in Rotations, WritesAfter(d, n)
  PROVE  WritesAfter(d, n)'
<1>1. PICK c \in Rotations : log[c].epoch = current[d] /\ (c = n \/ Before(log, n, c))
  BY DEF WritesAfter
<1> QED BY <1>1, SameOrder DEF WritesAfter

\* One that settled, with what it had before at the least.
LEMMA SettlesOn ==
  ASSUME KeysInv, Grows, UNCHANGED log, NEW d \in Device, \A m \in RecordsOf(Places, "remove") : log[m].who # d,
         NEW n \in Rotations, log[n].author = d,
         NEW S, arrived[d] \subseteq S, S \subseteq Places, NEW now,
         log[n].epoch \in keys'[d], current'[d] = Adopted(Readable(S, keys'[d]), keys'[d], now)
  PROVE  WritesAfter(d, n)'
<1>1. Shape /\ keys[d] \subseteq keys'[d]
  BY DEF KeysInv, Grows
<1>2. PICK held : held = keys'[d]
  OBVIOUS
<1>3. PICK c \in Rotations : log[c].epoch = Adopted(Readable(S, held), held, now) /\ (c = n \/ Before(log, n, c))
  BY <1>1, <1>2, SettlesAfter
<1>4. current'[d] = log[c].epoch
  BY <1>2, <1>3
<1> QED BY <1>1, <1>3, <1>4, SameOrder DEF WritesAfter

\* What a step has to show of removals.
LEMMA RemovalFramed ==
  ASSUME RemovalInv, KeysInv', Grows, NEW d \in Device, Alone(d), SameBasis(d), Remembers(d)',
         \A r \in finished : r.by = d => \A n \in Rotations : log[n].author = d /\ log[n].epoch = r.epoch =>
           WritesAfter(d, n)' /\ MakesAfter(d, n)',
         \A r \in finished' \ finished : EndedWell(r)'
  PROVE  RemovalInv'
<1>0. KeysInv /\ Shape /\ MadeOnce
  BY DEF RemovalInv, KeysInv
<1>1. ASSUME NEW e \in Device PROVE Remembers(e)'
  <2>1. CASE e = d
    BY <2>1
  <2>2. CASE e # d
    <3>1. call'[e] = call[e] /\ Remembers(e)
      BY <2>2 DEF Alone, RemovalInv
    <3>2. call[e].at = "announced" => \E n \in Rotations : log[n].epoch = call[e].epoch
      BY <1>0 DEF MadeOnce, Going
    <3>3. call[e].at \in {"wrapped", "announced"} => basis'[call[e].epoch] = basis[call[e].epoch]
      BY <2>2, <3>2 DEF SameBasis
    <3> QED BY <1>0, <3>1, <3>3, RemembersKept
  <2> QED BY <2>1, <2>2
<1>2. ASSUME NEW r \in finished' PROVE EndedWell(r)'
  <2>1. CASE r \in finished
    <3>1. r \in [by : Device, who : Person, epoch : Nat] /\ EndedWell(r)
      BY <1>0, <2>1 DEF Shape, RemovalInv
    <3> QED BY <1>0, <2>1, <3>1, EndedKept
  <2>2. CASE r \notin finished
    BY <1>2, <2>2
  <2> QED BY <2>1, <2>2
<1> QED BY <1>1, <1>2 DEF RemovalInv

\* Who ended a removal is in, made a generation itself and was not removed.
LEMMA EndedBy ==
  ASSUME RemovalInv, NEW r \in finished
  PROVE  /\ r \in [by : Device, who : Person, epoch : Nat] /\ EndedWell(r)
         /\ \A m \in RecordsOf(Places, "remove") : log[m].who # r.by
         /\ Joined(r.by) /\ r.epoch \in keys[r.by]
         /\ \A n \in Rotations : log[n].author = r.by /\ log[n].epoch = r.epoch =>
              WritesAfter(r.by, n) /\ MakesAfter(r.by, n)
<1>0. KeysInv /\ Shape /\ WrittenTruly /\ MadeOnce /\ EndedWell(r)
  BY DEF RemovalInv, KeysInv
<1>1. PICK n \in Rotations : log[n].author = r.by /\ log[n].epoch = r.epoch
  BY <1>0 DEF EndedWell
<1>2. Knew(r.epoch) \subseteq Places
  <2>1. r.epoch \in Epoch
    BY <1>0, <1>1 DEF MadeOnce, Sound
  <2> QED BY <1>0, <2>1 DEF Knew, Shape
<1>3. \A m \in RecordsOf(Places, "remove") : log[m].who # r.by
  BY <1>0, <1>2, OneRemoved DEF EndedWell
<1>4. Joined(r.by)
  BY <1>0, <1>1 DEF WrittenTruly, Present, Rotations, RecordsOf
<1> QED BY <1>0, <1>3, <1>4 DEF EndedWell, Shape

\* The steps after which the device writes with what it wrote with, and has announced nothing.
LEMMA CurrentStays ==
  ASSUME RemovalInv, Grows, NEW d \in Device, current'[d] = current[d], call'[d].at # "announced"
  PROVE  \A r \in finished : r.by = d => \A n \in Rotations : log[n].author = d /\ log[n].epoch = r.epoch =>
           WritesAfter(d, n)' /\ MakesAfter(d, n)'
<1> SUFFICES ASSUME NEW r \in finished, r.by = d, NEW n \in Rotations, log[n].author = d, log[n].epoch = r.epoch
             PROVE  WritesAfter(d, n)' /\ MakesAfter(d, n)'
  OBVIOUS
<1>1. WritesAfter(d, n)
  BY EndedBy
<1>2. WritesAfter(d, n)'
  BY <1>1, WritesOn DEF RemovalInv, KeysInv
<1> QED BY <1>2 DEF MakesAfter

\* A removal remembers what it read.
LEMMA RemoveRemembers ==
  ASSUME RemovalInv, KeysInv', Grows, NEW d \in Device, NEW p \in Person, Remove(d, p)
  PROVE  Remembers(d)'
<1>0. Shape /\ WrittenTruly /\ KeysAreLogged
  BY DEF RemovalInv, KeysInv
<1> DEFINE r == Record("remove", d, p, current[d], Read(d))
           k == [at |-> "removed", who |-> p]
<1>1. /\ Commit(d, r) /\ call' = [call EXCEPT ![d] = k] /\ Joined(d) /\ p # d /\ p \in ActiveIn(Read(d))
      /\ RecordsOf(Places, "remove") = {} /\ UNCHANGED <<setup, keys, current, package, joined, basis>>
  BY DEF Remove, Begins, Allowed, Places
<1>2. Read(d) \subseteq Places /\ current[d] \in Nat
  BY <1>0 DEF Read, Readable, Shape
<1>3. r \in Written /\ r.type = "remove" /\ r.author = d /\ r.under = current[d] /\ r.who = p
  BY <1>0, <1>2, RecordMade
<1> HIDE DEF r
<1>4. /\ Len(log) \in Nat /\ log'[Len(log) + 1] = r /\ \A n \in Places : log'[n] = log[n]
      /\ Places' = Places \cup {Len(log) + 1} /\ Len(log) + 1 \notin Places
      /\ arrived'[d] = arrived[d] \cup {Len(log) + 1}
  BY <1>0, <1>1, <1>3, Commits
<1>5. call'[d] = k
  BY <1>0, <1>1 DEF Shape
<1>6. PICK R \in SUBSET Places, T \in SUBSET (Places'), l \in Nat :
        R = Read(d) /\ T = Read(d)' /\ l = Len(log) + 1
  <2>1. Read(d)' \subseteq Places'
    BY DEF KeysInv, Shape, Read, Readable
  <2> QED BY <1>2, <1>4, <2>1
<1>7. T = R \cup {l} /\ l \in T
  <2>1. current[d] \in keys[d] /\ arrived[d] \subseteq Places
    BY <1>0, <1>1 DEF KeysAreLogged, Stored, Shape
  <2> QED BY <1>1, <1>3, <1>4, <1>6, <2>1 DEF Read, Readable
<1>8. /\ RecordsOf(T, "remove")' = {l} /\ log'[l].who = p /\ log'[l].author = d
      /\ \A n \in R : n < l /\ log'[n] = log[n]
      /\ \A kind : RecordsOf(R, kind)' \subseteq RecordsOf(T, kind)'
  <2>1. \A n \in R : log[n].type # "remove" /\ log'[n] = log[n]
    BY <1>1, <1>4, <1>6 DEF RecordsOf
  <2>2. \A n \in R : n < l
    BY <1>4, <1>6 DEF Places
  <2>3. log'[l] = r
    BY <1>4, <1>6
  <2>4. \A kind, X : RecordsOf(X, kind)' = {n \in X : log'[n].type = kind}
    BY DEF RecordsOf
  <2>5. RecordsOf(T, "remove")' = {l}
    BY <1>3, <1>7, <2>1, <2>3, <2>4
  <2>6. \A kind : RecordsOf(R, kind)' \subseteq RecordsOf(T, kind)'
    BY <1>7, <2>4
  <2> QED BY <1>3, <2>1, <2>2, <2>3, <2>5, <2>6
<1>9. JoinedIn(R)' \subseteq JoinedIn(T)'
  <2>1. \A n \in RecordsOf(R, "redeemed")' : Proven(R, n)' => Proven(T, n)'
    <3> SUFFICES ASSUME NEW n \in RecordsOf(R, "redeemed")', Proven(R, n)' PROVE Proven(T, n)'
      OBVIOUS
    <3>1. n < l
      BY <1>8 DEF RecordsOf
    <3> QED BY <1>8, <3>1 DEF Proven
  <2> QED BY <1>8, <2>1 DEF JoinedIn
<1>10. p \in Members \cup JoinedIn(T)'
  <2>1. JoinedIn(R)' = JoinedIn(R)
    BY <1>0, SameThen
  <2>2. p \in Members \cup JoinedIn(R)
    BY <1>1, <1>6 DEF ActiveIn
  <2> QED BY <1>9, <2>1, <2>2
<1>11. l \in Removals(T)'
  BY <1>1, <1>8, <1>10 DEF Removals
<1>12. p \in RemovedIn(T)'
  BY <1>8, <1>11 DEF RemovedIn
<1>13. RemovedIn(Read(d))' = RemovedIn(T)'
  BY <1>6 DEF RemovedIn, Removals, RecordsOf, JoinedIn, Proven
<1>14. k.at = "removed" /\ k.who = p
  OBVIOUS
<1> HIDE DEF k
<1> QED BY <1>1, <1>5, <1>12, <1>13, <1>14 DEF Remembers

\* Wrapping remembers who was removed.
LEMMA WrapRemembers ==
  ASSUME RemovalInv, KeysInv', Grows, NEW d \in Device, Wrap(d)
  PROVE  Remembers(d)'
<1>0. Shape /\ WrittenTruly /\ Remembers(d)
  BY DEF RemovalInv, KeysInv
<1> DEFINE w == IF call[d].at = "removed" THEN call[d].who ELSE d
<1>1. PICK e \in Epoch, R \in SUBSET Places, g \in SUBSET Int :
        /\ basis' = [basis EXCEPT ![e] = R \cup {0}] /\ R = Read(d)
        /\ call' = [call EXCEPT ![d] =
             [at |-> "wrapped", epoch |-> e, under |-> current[d], grants |-> g, who |-> w]]
  <2>1. Read(d) \subseteq Places
    BY <1>0 DEF Read, Readable, Shape
  <2>2. Recipients(d, Read(d)) \subseteq Int
    BY <1>0, <2>1, RecipientsAre
  <2> HIDE DEF Read
  <2> QED BY <2>1, <2>2 DEF Wrap
<1>2. call'[d].at = "wrapped" /\ call'[d].epoch = e /\ call'[d].who = w
  <2> HIDE DEF w
  <2> QED BY <1>0, <1>1 DEF Shape
<1>3. basis'[e] = R \cup {0} /\ 0 \notin R
  BY <1>0, <1>1 DEF Shape, Places
<1>4. Knew(call[d].epoch)' = R
  BY <1>2, <1>3 DEF Knew
<1>5. RemovedIn(Knew(call[d].epoch))' = RemovedIn(R)'
  BY <1>4 DEF RemovedIn, Removals, RecordsOf, JoinedIn, Proven
<1>6. RemovedIn(R)' = RemovedIn(R)
  BY <1>0, SameThen
<1>7. w # d => w \in RemovedIn(R)
  BY <1>0, <1>1 DEF Remembers
<1> HIDE DEF w
<1> QED BY <1>2, <1>5, <1>6, <1>7 DEF Remembers

\* Announcing remembers who was removed, and writes after every removal that ended.
LEMMA AnnounceRemembers ==
  ASSUME RemovalInv, KeysInv', Grows, NEW d \in Device, Announce(d)
  PROVE  /\ Remembers(d)'
         /\ \A r \in finished : r.by = d => \A n \in Rotations : log[n].author = d /\ log[n].epoch = r.epoch =>
              WritesAfter(d, n)' /\ MakesAfter(d, n)'
<1>0. Shape /\ WrittenTruly /\ MadeOnce /\ Remembers(d) /\ KeysInv
  BY DEF RemovalInv, KeysInv
<1>a. PICK e \in Epoch, w \in Person : e = call[d].epoch /\ w = call[d].who
  <2>1. call[d].at = "wrapped" /\ call[d] \in CallStates
    BY <1>0 DEF Announce, Shape
  <2> QED BY <1>0, <2>1, CallFields DEF MadeOnce, Going
<1> DEFINE k == [call[d] EXCEPT !.at = "announced"]
<1>1. /\ call[d].at = "wrapped" /\ call' = [call EXCEPT ![d] = k] /\ UNCHANGED <<setup, current, package, basis>>
  BY DEF Announce
<1>2. k \in CallStates /\ k.at = "announced" /\ k.epoch = e /\ k.who = w
  BY <1>0, <1>1, <1>a, CallFields DEF Shape
<1> HIDE DEF k
<1>3. call'[d].at = "announced" /\ call'[d].epoch = e /\ call'[d].who = w
  BY <1>0, <1>1, <1>2 DEF Shape
<1>4. Remembers(d)'
  <2>1. PICK R \in SUBSET Places : R = Knew(e)
    BY <1>0 DEF Knew, Shape
  <2>2. Knew(call[d].epoch)' = R
    BY <1>1, <1>3, <2>1 DEF Knew
  <2>3. RemovedIn(Knew(call[d].epoch))' = RemovedIn(R)'
    BY <2>2 DEF RemovedIn, Removals, RecordsOf, JoinedIn, Proven
  <2>4. RemovedIn(R)' = RemovedIn(R)
    BY <1>0, SameThen
  <2>5. w # d => w \in RemovedIn(R)
    BY <1>0, <1>1, <1>a, <2>1 DEF Remembers
  <2> QED BY <1>3, <2>3, <2>4, <2>5 DEF Remembers
<1>5. ASSUME NEW r \in finished, r.by = d, NEW n \in Rotations, log[n].author = d, log[n].epoch = r.epoch
      PROVE  WritesAfter(d, n)' /\ MakesAfter(d, n)'
  <2>1. WritesAfter(d, n)'
    BY <1>0, <1>1, <1>5, EndedBy, WritesOn
  <2>2. n \in Read(d) /\ n \in Places /\ Read(d) \subseteq Places
    BY <1>0, <1>5 DEF Rotations, RecordsOf, WrittenTruly, Present, Read, Readable, Shape
  <2>3. ClockIn(Read(d)) \in Nat /\ log[n].clock <= ClockIn(Read(d)) /\ log[n].clock \in Nat
    BY <1>0, <2>2, ClockAbove, Recorded DEF Written
  <2>4. PICK a \in Rotations' : log'[a].author = d /\ log'[a].epoch = e
    BY <1>3 DEF KeysInv, MadeOnce, Going
  <2>5. n \in Rotations' /\ log'[n] = log[n]
    BY <1>0, SameOrder
  \* The generation was not announced before.
  <2>6. a \notin Rotations
    <3>1. e \notin Logged
      BY <1>0, <1>1, <1>a DEF MadeOnce, Going
    <3> QED BY <1>0, <2>4, <3>1, SameOrder DEF Logged
  <2>7. log'[a].clock = ClockIn(Read(d)) + 1
    <3> DEFINE q == Record("rotate", d, d, call[d].under, Read(d))
               s == [q EXCEPT !.epoch = call[d].epoch, !.grants = call[d].grants]
    <3>1. log' = Append(log, s)
      BY DEF Announce, Commit
    <3>2. s.clock = ClockIn(Read(d)) + 1
      BY DEF Record
    <3> HIDE DEF s
    <3>3. log'[Len(log) + 1] = s /\ Places' = Places \cup {Len(log) + 1}
      <4>1. log \in Seq(Written) /\ Len(log) \in Nat
        BY <1>0, Recorded DEF Shape
      <4>2. log'[Len(log) + 1] = s /\ Len(log)' = Len(log) + 1
        BY <3>1, <4>1
      <4> QED BY <4>1, <4>2 DEF Places
    <3>4. a = Len(log) + 1
      BY <1>0, <2>4, <2>6, <3>3, LogGrows DEF Rotations, RecordsOf
    <3> QED BY <3>2, <3>3, <3>4
  <2>8. Before(log', n, a)
    BY <2>3, <2>5, <2>7 DEF Before
  <2> QED BY <1>3, <2>1, <2>4, <2>5, <2>8 DEF MakesAfter
<1> QED BY <1>4, <1>5

\* A device that settles keeps writing after what it made.
LEMMA SettlingKeeps ==
  ASSUME RemovalInv, Grows, UNCHANGED log, NEW d \in Device, NEW S, arrived[d] \subseteq S, S \subseteq Places,
         NEW now, current'[d] = Adopted(Readable(S, keys'[d]), keys'[d], now)
  PROVE  \A r \in finished : r.by = d => \A n \in Rotations : log[n].author = d /\ log[n].epoch = r.epoch =>
           WritesAfter(d, n)'
<1> SUFFICES ASSUME NEW r \in finished, r.by = d, NEW n \in Rotations, log[n].author = d, log[n].epoch = r.epoch
             PROVE  WritesAfter(d, n)'
  OBVIOUS
<1>1. log[n].epoch \in keys'[d] /\ \A m \in RecordsOf(Places, "remove") : log[m].who # d
  BY EndedBy DEF Grows
<1> QED BY <1>1, SettlesOn DEF RemovalInv

\* Installing ends a removal well, and disturbs none that ended.
LEMMA InstallRemembers ==
  ASSUME RemovalInv, KeysInv', Grows, NEW d \in Device, Install(d)
  PROVE  /\ \A r \in finished : r.by = d => \A n \in Rotations : log[n].author = d /\ log[n].epoch = r.epoch =>
              WritesAfter(d, n)' /\ MakesAfter(d, n)'
         /\ \A r \in finished' \ finished : EndedWell(r)'
<1>0. Shape /\ WrittenTruly /\ MadeOnce /\ MadeOnce' /\ Remembers(d) /\ KeysInv
  BY DEF RemovalInv, KeysInv
<1>a. PICK e \in Nat, w \in Person : e = call[d].epoch /\ w = call[d].who
  <2>1. call[d].at = "announced" /\ call[d] \in CallStates
    BY <1>0 DEF Install, Shape
  <2> QED BY <2>1, CallFields
<1> DEFINE held == keys[d] \cup {e}
           ended == [by |-> d, who |-> w, epoch |-> e]
<1>1. /\ call[d].at = "announced" /\ call' = [call EXCEPT ![d] = Idle]
      /\ UNCHANGED <<setup, log, arrived, package, joined, basis>>
      /\ \/ w # d /\ Settle(d, arrived[d], held, e) /\ finished' = finished \cup {ended}
         \/ w = d /\ keys' = [keys EXCEPT ![d] = held] /\ current' = [current EXCEPT ![d] = e] /\ finished' = finished
  BY <1>a DEF Install
<1>2. call'[d].at # "announced"
  BY <1>0, <1>1 DEF Shape, Idle
<1>3. \A n : MakesAfter(d, n)'
  BY <1>2 DEF MakesAfter
<1>4. arrived[d] \subseteq Places /\ held \subseteq Nat
  BY <1>0 DEF Shape
<1>5. PICK a \in Rotations : log[a].author = d /\ log[a].epoch = e
  BY <1>0, <1>1, <1>a DEF MadeOnce, Going
<1>6. a \in Rotations' /\ log'[a] = log[a]
  BY <1>0, SameOrder
<1>7. CASE w # d /\ Settle(d, arrived[d], held, e) /\ finished' = finished \cup {ended}
  <2>1. e \in held /\ arrived[d] \subseteq Places
    BY <1>4
  <2> DEFINE after == KeysAfter(d, arrived[d], held)
             now == Adopted(Readable(arrived[d], after), after, e)
  <2>2. keys' = [keys EXCEPT ![d] = after] /\ current' = [current EXCEPT ![d] = now]
    BY <1>7 DEF Settle
  <2>a. held \subseteq after
    BY <1>0, <2>1, InstalledFromLog
  <2> HIDE DEF held, after, now
  <2>b. keys'[d] = after /\ current'[d] = now
    BY <1>0, <2>2 DEF Shape
  <2>3. e \in keys'[d] /\ current'[d] = Adopted(Readable(arrived[d], keys'[d]), keys'[d], e)
    BY <2>1, <2>a, <2>b DEF now
  <2>4. ASSUME NEW r \in finished, r.by = d, NEW n \in Rotations, log[n].author = d, log[n].epoch = r.epoch
        PROVE  WritesAfter(d, n)'
    BY <1>1, <2>1, <2>3, <2>4, SettlingKeeps
  <2>5. Knew(e) \subseteq Places /\ w \in RemovedIn(Knew(e))
    <3>1. e \in Epoch
      BY <1>0, <1>5 DEF MadeOnce, Sound
    <3> QED BY <1>0, <1>1, <1>7, <1>a, <3>1 DEF Knew, Shape, Remembers
  <2>6. \A m \in RecordsOf(Places, "remove") : log[m].who # d
    BY <1>0, <1>7, <2>5, OneRemoved
  <2>7. WritesAfter(d, a)'
    <3>1. log[a].epoch \in keys'[d]
      BY <1>5, <2>3
    <3>2. PICK k : k = keys'[d]
      OBVIOUS
    <3>3. keys[d] \subseteq k /\ log[a].epoch \in k /\ arrived[d] \subseteq arrived[d]
      BY <3>1, <3>2 DEF Grows
    <3>4. PICK c \in Rotations : log[c].epoch = Adopted(Readable(arrived[d], k), k, e) /\ (c = a \/ Before(log, a, c))
      BY <1>0, <1>5, <2>1, <2>6, <3>3, SettlesAfter
    <3>5. current'[d] = log[c].epoch
      BY <2>3, <3>2, <3>4
    <3> QED BY <1>0, <3>4, <3>5, SameOrder DEF WritesAfter
  <2>8. \A n \in Rotations' : log'[n].epoch = e => n = a
    BY <1>0, <1>5, <1>6 DEF MadeOnce
  <2>9. w \in RemovedIn(Knew(e))'
    <3>1. PICK R \in SUBSET Places : R = Knew(e)
      BY <2>5
    <3>2. RemovedIn(R)' = RemovedIn(R)
      BY <1>0, SameThen
    <3>3. Knew(e)' = R
      BY <1>1, <3>1 DEF Knew
    <3>4. RemovedIn(Knew(e))' = RemovedIn(R)'
      BY <3>3 DEF RemovedIn, Removals, RecordsOf, JoinedIn, Proven
    <3> QED BY <2>5, <3>1, <3>2, <3>4
  <2>10. ASSUME NEW r \in finished' \ finished PROVE EndedWell(r)'
    <3>1. r.by = d /\ r.who = w /\ r.epoch = e
      BY <1>7
    <3>2. RemovedIn(Knew(r.epoch))' = RemovedIn(Knew(e))'
      BY <3>1 DEF Knew
    <3>3. r.who \in RemovedIn(Knew(r.epoch))' /\ r.who # r.by
      BY <1>7, <2>9, <3>1, <3>2
    <3>4. r.epoch \in keys'[r.by]
      BY <2>3, <3>1
    <3>5. \E n \in Rotations' : log'[n].author = r.by /\ log'[n].epoch = r.epoch
      BY <1>5, <1>6, <3>1
    <3>6. WritesAfter(r.by, a)' /\ MakesAfter(r.by, a)'
      BY <1>3, <2>7, <3>1 DEF WritesAfter, MakesAfter
    <3>7. \A n \in Rotations' : log'[n].author = r.by /\ log'[n].epoch = r.epoch =>
            WritesAfter(r.by, n)' /\ MakesAfter(r.by, n)'
      BY <2>8, <3>1, <3>6
    <3> QED BY <3>3, <3>4, <3>5, <3>7 DEF EndedWell
  <2> QED BY <1>3, <2>4, <2>10
<1>8. CASE w = d /\ keys' = [keys EXCEPT ![d] = held] /\ current' = [current EXCEPT ![d] = e] /\ finished' = finished
  <2>1. current'[d] = e
    BY <1>0, <1>8 DEF Shape
  <2>2. ASSUME NEW r \in finished, r.by = d, NEW n \in Rotations, log[n].author = d, log[n].epoch = r.epoch
        PROVE  WritesAfter(d, n)'
    <3>1. MakesAfter(d, n)
      BY <2>2, EndedBy
    <3>2. PICK c \in Rotations : log[c].epoch = e /\ Before(log, n, c)
      BY <1>1, <1>a, <3>1 DEF MakesAfter
    <3> QED BY <1>0, <2>1, <3>2, SameOrder DEF WritesAfter
  <2> QED BY <1>3, <1>8, <2>2
<1> QED BY <1>1, <1>7, <1>8

\* Each step keeps what is known of removals.
LEMMA RemovalStep ==
  ASSUME RemovalInv, [Next]_vars
  PROVE  RemovalInv'
<1>0. KeysInv /\ Shape /\ KeysInv' /\ MadeOnce /\ Outsiders
  BY KeysStep DEF RemovalInv, KeysInv
<1>1. CASE UNCHANGED vars
  <2>1. Grows
    BY <1>0, <1>1, Recorded DEF vars, Grows
  <2>2. \A n \in Rotations, d \in Device : WritesAfter(d, n) => WritesAfter(d, n)'
    BY <1>0, <1>1, <2>1, WritesOn DEF vars
  <2>3. \A n \in Rotations, d \in Device : MakesAfter(d, n) => MakesAfter(d, n)'
    <3> SUFFICES ASSUME NEW n \in Rotations, NEW d \in Device, MakesAfter(d, n), call[d].at = "announced"
                 PROVE  MakesAfter(d, n)'
      BY <1>1 DEF MakesAfter, vars
    <3>1. PICK a \in Rotations : log[a].epoch = call[d].epoch /\ Before(log, n, a)
      BY DEF MakesAfter
    <3> QED BY <1>0, <1>1, <2>1, <3>1, SameOrder DEF MakesAfter, vars
  <2>4. ASSUME NEW e \in Device PROVE Remembers(e)'
    BY <1>0, <1>1, <2>1, RemembersKept DEF RemovalInv, vars
  <2>5. ASSUME NEW r \in finished' PROVE EndedWell(r)'
    <3>1. r \in finished /\ r \in [by : Device, who : Person, epoch : Nat] /\ EndedWell(r)
      BY <1>1, EndedBy DEF vars
    <3>2. PICK d \in Device : d = r.by /\ Joined(d)
      BY <3>1, EndedBy
    <3>3. Alone(d) /\ SameBasis(d)
      BY <1>0, <1>1, <3>2 DEF vars, Alone, SameBasis, Epoch, Joined
    <3>4. \A n \in Rotations : log[n].author = d /\ log[n].epoch = r.epoch => WritesAfter(d, n)' /\ MakesAfter(d, n)'
      BY <2>2, <2>3, <3>1, <3>2, EndedBy
    <3> QED BY <1>0, <2>1, <3>1, <3>3, <3>4, EndedKept
  <2> QED BY <1>0, <2>4, <2>5 DEF RemovalInv
<1>2. CASE Next
  <2>0. Shape' /\ Grows
    BY <1>0, <1>2, StepGrows
  \* After which the call is over, or has only begun to make a package.
  <2>a. ASSUME NEW d \in Device, call'[d].at \in {"idle", "ticket", "recoveryKey"} PROVE Remembers(d)'
    BY <2>a DEF Remembers
  <2>b. ASSUME NEW d \in Device, Abandon(d) PROVE call'[d].at = "idle"
    BY <1>0, <2>b, Abandons DEF Idle
  <2>1. ASSUME NEW d \in Device, NEW p \in Person, Remove(d, p) PROVE RemovalInv'
    <3>1. Alone(d) /\ SameBasis(d) /\ Remembers(d)'
      BY <1>0, <2>0, <2>1, RemoveKeeps, RemoveRemembers
    <3>2. current'[d] = current[d] /\ call'[d].at # "announced" /\ finished' = finished
      BY <1>0, <2>1 DEF Remove, Shape
    <3> QED BY <1>0, <2>0, <3>1, <3>2, CurrentStays, RemovalFramed
  <2>2. ASSUME NEW d \in Device, Wrap(d) PROVE RemovalInv'
    <3>1. Alone(d) /\ SameBasis(d) /\ Remembers(d)'
      BY <1>0, <2>0, <2>2, WrapKeeps, WrapRemembers
    <3>2. current'[d] = current[d] /\ finished' = finished
      BY <2>2 DEF Wrap
    <3>3. call'[d].at # "announced"
      BY <1>0, <2>2 DEF Wrap, Shape
    <3> QED BY <1>0, <2>0, <3>1, <3>2, <3>3, CurrentStays, RemovalFramed
  <2>3. ASSUME NEW d \in Device, Announce(d) PROVE RemovalInv'
    <3>1. Alone(d) /\ SameBasis(d)
      BY <1>0, <2>0, <2>3, AnnounceKeeps
    <3>2. finished' = finished
      BY <2>3 DEF Announce
    <3> QED BY <1>0, <2>0, <2>3, <3>1, <3>2, AnnounceRemembers, RemovalFramed
  <2>4. ASSUME NEW d \in Device, Install(d) PROVE RemovalInv'
    <3>1. Alone(d) /\ SameBasis(d)
      BY <1>0, <2>0, <2>4, InstallKeeps
    <3>2. Remembers(d)'
      BY <1>0, <2>4, <2>a DEF Install, Shape, Idle
    <3> QED BY <1>0, <2>0, <2>4, <3>1, <3>2, InstallRemembers, RemovalFramed
  <2>5. ASSUME NEW d \in Device, Register(d) PROVE RemovalInv'
    <3>1. Alone(d) /\ SameBasis(d)
      BY <1>0, <2>0, <2>5, RegisterKeeps
    <3>2. current'[d] = current[d] /\ call'[d].at = "idle" /\ finished' = finished
      BY <1>0, <2>5 DEF Register, Shape, Idle
    <3> QED BY <1>0, <2>0, <2>a, <3>1, <3>2, CurrentStays, RemovalFramed
  <2>6. ASSUME NEW d \in Device, NEW p \in Newcomer, NEW kind \in {"ticket", "recoveryKey"}, Pack(d, p, kind)
        PROVE RemovalInv'
    <3>1. Alone(d) /\ SameBasis(d)
      BY <1>0, <2>0, <2>6, PackKeeps
    <3>2. current'[d] = current[d] /\ call'[d].at = kind /\ finished' = finished
      BY <1>0, <2>6 DEF Pack, Shape
    <3> QED BY <1>0, <2>0, <2>a, <3>1, <3>2, CurrentStays, RemovalFramed
  <2>7. ASSUME NEW d \in Newcomer \cap Device, Join(d) PROVE RemovalInv'
    <3>1. Alone(d) /\ SameBasis(d)
      BY <1>0, <2>0, <2>7, JoinKeeps
    <3>2. d \notin joined /\ finished' = finished /\ call' = call
      BY <2>7 DEF Join
    <3>3. ~ Joined(d)
      BY <1>0, <3>2, Recorded DEF Joined
    <3>4. Remembers(d)'
      BY <1>0, <2>a, <3>2, <3>3 DEF Outsiders, Idle
    <3>5. \A r \in finished : r.by # d
      BY <3>3, EndedBy
    <3> QED BY <1>0, <2>0, <3>1, <3>2, <3>4, <3>5, RemovalFramed
  <2>8. ASSUME NEW d \in Device, Sync(d) PROVE RemovalInv'
    <3>1. Alone(d) /\ SameBasis(d)
      BY <1>0, <2>0, <2>8, SyncKeeps
    <3>2. PICK S \in SUBSET (Places \ arrived[d]) :
            /\ Settle(d, arrived[d] \cup S, keys[d], current[d]) /\ Joined(d)
            /\ UNCHANGED <<log, call, finished, basis>>
      BY <2>8 DEF Sync, Places
    <3>3. Remembers(d)'
      BY <1>0, <2>0, <3>2, RemembersKept DEF RemovalInv
    <3>4. PICK T \in SUBSET Places : T = arrived[d] \cup S
      BY <1>0 DEF Shape
    <3>5. current[d] \in keys[d]
      BY <1>0, <3>2 DEF KeysInv, KeysAreLogged, Stored
    <3>6. current'[d] = Adopted(Readable(T, keys'[d]), keys'[d], current[d])
      BY <1>0, <3>2, <3>4, <3>5, SettlesOwn
    <3>7. arrived[d] \subseteq T
      BY <3>4
    <3>8. ASSUME NEW r \in finished, r.by = d, NEW n \in Rotations, log[n].author = d, log[n].epoch = r.epoch
          PROVE  WritesAfter(d, n)' /\ MakesAfter(d, n)'
      <4>1. WritesAfter(d, n)'
        BY <2>0, <3>2, <3>6, <3>7, <3>8, SettlingKeeps
      <4>2. MakesAfter(d, n)
        BY <3>8, EndedBy
      <4>3. MakesAfter(d, n)'
        <5>1. CASE call[d].at = "announced"
          <6>1. PICK a \in Rotations : log[a].epoch = call[d].epoch /\ Before(log, n, a)
            BY <4>2, <5>1 DEF MakesAfter
          <6> QED BY <1>0, <2>0, <3>2, <6>1, SameOrder DEF MakesAfter
        <5>2. CASE call[d].at # "announced"
          BY <3>2, <5>2 DEF MakesAfter
        <5> QED BY <5>1, <5>2
      <4> QED BY <4>1, <4>3
    <3> QED BY <1>0, <2>0, <3>1, <3>2, <3>3, <3>8, RemovalFramed
  <2>9. ASSUME NEW d \in Device, Refused(d) PROVE RemovalInv'
    <3>1. /\ Abandon(d) /\ call[d].at # "idle" /\ UNCHANGED <<setup, log, arrived, keys, current, joined, finished>>
      BY <2>9 DEF Refused
    <3>2. Joined(d)
      BY <1>0, <3>1 DEF Outsiders, Idle
    <3>3. keys'[d] \subseteq keys[d] \cup Logged /\ current'[d] \in keys'[d]
      BY <1>0, <3>1, <3>2 DEF KeysInv, KeysAreLogged, Stored
    <3>4. Alone(d) /\ SameBasis(d)
      BY <1>0, <2>0, <3>1, <3>3, AbandonKeeps
    <3> QED BY <1>0, <2>0, <2>a, <2>b, <3>1, <3>4, CurrentStays, RemovalFramed
  <2>10. ASSUME NEW d \in Device, Crash(d) PROVE RemovalInv'
    <3>1. /\ Abandon(d) /\ call[d].at # "idle" /\ UNCHANGED <<setup, log, arrived, joined, finished>>
          /\ Settle(d, arrived[d], keys[d], current[d])
      BY <2>10 DEF Crash
    <3>2. Joined(d)
      BY <1>0, <3>1 DEF Outsiders, Idle
    <3>3. arrived[d] \subseteq Places /\ current[d] \in keys[d]
      BY <1>0, <3>2 DEF KeysInv, KeysAreLogged, Stored, Shape
    <3>4. /\ keys'[d] \subseteq keys[d] \cup Logged /\ current'[d] \in keys'[d]
          /\ current'[d] = Adopted(Readable(arrived[d], keys'[d]), keys'[d], current[d])
          /\ \A e \in Device : e # d => keys'[e] = keys[e] /\ current'[e] = current[e]
      BY <1>0, <3>1, <3>3, SettlesOwn
    <3>5. Alone(d) /\ SameBasis(d)
      BY <1>0, <2>0, <3>1, <3>4, AbandonKeeps
    <3>6. \A n : MakesAfter(d, n)'
      BY <2>b, <3>1 DEF MakesAfter
    <3>7. ASSUME NEW r \in finished, r.by = d, NEW n \in Rotations, log[n].author = d, log[n].epoch = r.epoch
          PROVE  WritesAfter(d, n)' /\ MakesAfter(d, n)'
      BY <2>0, <3>1, <3>3, <3>4, <3>6, <3>7, SettlingKeeps
    <3> QED BY <1>0, <2>0, <2>a, <2>b, <3>1, <3>5, <3>7, RemovalFramed
  <2> QED BY <1>2, <2>1, <2>2, <2>3, <2>4, <2>5, <2>6, <2>7, <2>8, <2>9, <2>10 DEF Next
<1> QED BY <1>1, <1>2

\* The devices start with no removal under way.
LEMMA RemovalInit ==
  ASSUME Init
  PROVE  RemovalInv
BY KeysInit DEF Init, RemovalInv, Remembers, Idle

\* ... and neither does a call of revoke lose what it knew of its removal.
THEOREM RemovalInductive == Spec => []RemovalInv
<1>1. Init => RemovalInv
  BY RemovalInit
<1>2. RemovalInv /\ [Next]_vars => RemovalInv'
  BY RemovalStep
<1> QED BY <1>1, <1>2, PTL DEF Spec

\* The device that removed somebody writes with what that person has only where another Master
\* made it without having read of the removal: never with a generation its own followed.
THEOREM WritesAway == Spec => []WritesAwayFromRemoved
<1>1. ASSUME RemovalInv, RemovedKeptOut PROVE WritesAwayFromRemoved
  <2> SUFFICES ASSUME NEW r \in finished, ~ HoldsAuthority(r.who), current[r.by] \in CouldOpen(r.who)
               PROVE  /\ current[r.by] \notin {First, r.epoch}
                      /\ r.who \notin RemovedIn(Knew(current[r.by]))
                      /\ current[r.by] \notin {log[n].epoch : n \in Knew(r.epoch)}
    BY DEF WritesAwayFromRemoved
  <2>0. KeysInv /\ Shape /\ WrittenTruly /\ MadeOnce /\ EndedWell(r)
    BY <1>1 DEF RemovalInv, KeysInv
  <2>1. PICK n \in Rotations : log[n].author = r.by /\ log[n].epoch = r.epoch
    BY <2>0 DEF EndedWell
  <2>2. PICK c \in Rotations : log[c].epoch = current[r.by] /\ (c = n \/ Before(log, n, c))
    BY <2>0, <2>1 DEF EndedWell, WritesAfter
  <2>3. current[r.by] # First
    BY <2>0, <2>2 DEF MadeOnce, Sound
  <2>4. r.who \notin RemovedIn(Knew(current[r.by]))
    BY <1>1, <2>2 DEF RemovedKeptOut, Rotations, Places
  <2>5. current[r.by] # r.epoch
    BY <2>0, <2>4 DEF EndedWell
  <2>6. ASSUME NEW m \in Knew(r.epoch), log[m].epoch = current[r.by] PROVE FALSE
    <3>1. m \in Places /\ log[m].clock < log[n].clock
      BY <2>0, <2>1 DEF MadeOnce, Sound, Knew, Shape
    <3>2. m \in Rotations
      BY <2>0, <2>3, <2>6, <3>1 DEF WrittenTruly, Present, Rotations, RecordsOf
    <3>3. m = c
      BY <2>0, <2>2, <2>6, <3>2 DEF MadeOnce
    <3>4. \A k \in Rotations : log[k].clock \in Nat
      BY <2>0, Recorded DEF Rotations, Written
    <3> QED BY <2>2, <3>1, <3>2, <3>3, <3>4 DEF Before
  <2> QED BY <2>3, <2>4, <2>5, <2>6
<1> QED BY <1>1, RemovalInductive, RemovedStayOut, PTL
=============================================================================
