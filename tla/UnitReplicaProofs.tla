------------------------- MODULE UnitReplicaProofs -------------------------
(***************************************************************************)
(* What UnitReplica guarantees for every number of devices, events and     *)
(* faults.                                                                 *)
(*                                                                         *)
(* No event is lost that a command reported as done or that the screens    *)
(* show.  The argument follows one event: a draft is in no outbox; a       *)
(* commit puts it there; a sync that starts later has it in its batch, and *)
(* one already running has not, so the command waits for the next; a batch *)
(* only loses an event to the ledger or to the failed.  With it the        *)
(* devices implement SharedHistory.                                        *)
(*                                                                         *)
(* What is folded is a projection again, for any events (ReplicaTypes).    *)
(* Folding on top of a projection gives what a fold from the beginning     *)
(* gives, when the new events come after the folded ones and nothing was   *)
(* rejected (ExtendingIsFolding).  While members stay as they are, it does *)
(* so whatever arrives, fails or restarts (SteadyProjectionIsFold), and    *)
(* devices that know the same events accepted the same credentials and     *)
(* show the same (SteadyDevicesAgree).                                     *)
(***************************************************************************)
EXTENDS UnitReplica, FiniteSetTheorems, WellFoundedInduction, SequenceTheorems, TLAPS

\* A nonempty set of numbers has a least one.
LEMMA LeastNumber ==
  ASSUME NEW S, S \subseteq Nat, S # {}
  PROVE  \E m \in S : \A k \in S : m <= k
<1> DEFINE R == OpToRel(<, Nat)
<1>1. IsWellFoundedOn(R, Nat)
  BY NatLessThanWellFounded, Zenon
<1>2. \A x, y \in Nat : y < x => <<y, x>> \in R
  BY DEF OpToRel
<1> HIDE DEF R
<1>3. PICK m \in S : \A k \in S : ~ (<<k, m>> \in R)
  BY <1>1, WFMin
<1>4. \A k \in S : k \in Nat /\ m \in Nat /\ ~ (k < m)
  BY <1>2, <1>3
<1> QED BY <1>4

\* A nonempty set of numbers with a bound has a greatest one.
LEMMA GreatestNumber ==
  ASSUME NEW N \in Nat, NEW S, S \subseteq 1 .. N, S # {}
  PROVE  \E m \in S : \A k \in S : m >= k
<1> DEFINE T == {N - k : k \in S}
<1>1. T \subseteq Nat
  <2>1. ASSUME NEW k \in S PROVE N - k \in Nat
    BY <2>1
  <2> QED BY <2>1
<1> T # {}
  OBVIOUS
<1>2. PICK m \in T : \A k \in T : m <= k
  BY <1>1, LeastNumber
<1>3. PICK k \in S : m = N - k
  BY <1>2
<1>4. \A j \in S : j \in Nat /\ N - j \in T
  OBVIOUS
<1>5. \A j \in S : k \in Nat /\ N - k <= N - j
  BY <1>2, <1>3, <1>4
<1>6. \A j \in S : k >= j
  BY <1>4, <1>5
<1> QED BY <1>6

\* The ways to choose the element of a set that is taken last.
Picks(S) == {p \in [(SUBSET S) \ {{}} -> S] : \A T \in (SUBSET S) \ {{}} : p[T] \in T}

\* What holds of the empty set, and of a set whenever it holds of the set without the
\* element that is taken last, holds of every finite set.
LEMMA TakenOneByOne ==
  ASSUME NEW S, IsFiniteSet(S), NEW pick \in Picks(S),
         NEW P, {} \in P, \A T \in SUBSET S : T # {} /\ T \ {pick[T]} \in P => T \in P
  PROVE  \A T \in SUBSET S : T \in P
<1>0. \A T \in SUBSET S : T # {} => pick[T] \in T
  BY DEF Picks
<1> DEFINE Bad == {Cardinality(T) : T \in (SUBSET S) \ P}
<1>1. \A T \in SUBSET S : IsFiniteSet(T) /\ Cardinality(T) \in Nat
  BY FS_Subset, FS_CardinalityType
<1>2. Bad \subseteq Nat
  BY <1>1
<1>3. ASSUME NEW k \in Bad, \A j \in Bad : k <= j PROVE FALSE
  <2>1. PICK T \in (SUBSET S) \ P : k = Cardinality(T)
    BY <1>3
  <2>2. T # {}
    BY <2>1
  <2>3. pick[T] \in T /\ T \ {pick[T]} \in SUBSET S
    BY <1>0, <2>1, <2>2
  <2>4. Cardinality(T \ {pick[T]}) = Cardinality(T) - 1
    BY <1>1, <2>1, <2>3, FS_RemoveElement
  <2>5. T \ {pick[T]} \in P
    <3>1. ASSUME T \ {pick[T]} \notin P PROVE FALSE
      <4>1. Cardinality(T) - 1 \in Bad
        BY <2>3, <2>4, <3>1
      <4>2. k <= k - 1 /\ k \in Nat
        BY <1>2, <1>3, <2>1, <4>1
      <4> QED BY <4>2
    <3> QED BY <3>1
  <2> QED BY <2>1, <2>2, <2>5
<1> HIDE DEF Bad
<1>4. Bad = {}
  BY <1>2, <1>3, LeastNumber
<1> QED BY <1>4 DEF Bad

\* f takes the elements of S one by one, from base.
IsFold(f, S, pick, base, step) ==
  \A T \in SUBSET S : f[T] = IF T = {} THEN base ELSE step[<<f[T \ {pick[T]}], pick[T]>>]

\* f and g start alike, and stay alike when one more element is taken.
StayAlike(f, g, S, pick) ==
  /\ f[{}] = g[{}]
  /\ \A T \in SUBSET S : T # {} /\ f[T \ {pick[T]}] = g[T \ {pick[T]}] => f[T] = g[T]

\* A function may be defined by taking the elements of a finite set one by one: there
\* is one for each base and each step from states to states.
LEMMA FoldExists ==
  ASSUME NEW S, IsFiniteSet(S), NEW pick \in Picks(S),
         NEW D, NEW base \in D, NEW step \in [D \X S -> D]
  PROVE  \E f \in [SUBSET S -> D] : IsFold(f, S, pick, base, step)
<1>0. \A T \in SUBSET S : T # {} => pick[T] \in T
  BY DEF Picks
<1> DEFINE Sized(k) == {T \in SUBSET S : Cardinality(T) <= k}
<1> DEFINE Has(k) == \E f \in [Sized(k) -> D] :
             \A T \in Sized(k) : f[T] = IF T = {} THEN base ELSE step[<<f[T \ {pick[T]}], pick[T]>>]
<1> DEFINE Bad == {k \in Nat : ~ Has(k)}
<1>1. \A T \in SUBSET S : IsFiniteSet(T) /\ Cardinality(T) \in Nat
  BY FS_Subset, FS_CardinalityType
<1>2. ASSUME NEW T \in SUBSET S, T # {}
      PROVE  /\ pick[T] \in T /\ pick[T] \in S /\ T \ {pick[T]} \in SUBSET S
             /\ Cardinality(T \ {pick[T]}) = Cardinality(T) - 1
  <2>1. pick[T] \in T
    BY <1>0, <1>2
  <2> QED BY <1>1, <1>2, <2>1, FS_RemoveElement
<1>3. Has(0)
  <2>1. Sized(0) = {{}}
    <3>1. ASSUME NEW T \in SUBSET S, Cardinality(T) <= 0 PROVE T = {}
      <4>1. IsFiniteSet(T) /\ Cardinality(T) = 0
        BY <1>1, <3>1
      <4> QED BY <4>1, FS_EmptySet
    <3>2. {} \in SUBSET S /\ Cardinality({}) = 0
      BY FS_EmptySet
    <3>3. {} \in Sized(0)
      BY <3>2
    <3> QED BY <3>1, <3>3
  <2> DEFINE f == [T \in Sized(0) |-> base]
  <2>2. f \in [Sized(0) -> D]
    OBVIOUS
  <2>3. \A T \in Sized(0) : f[T] = base /\ T = {}
    BY <2>1
  <2> HIDE DEF f, Sized
  <2> QED BY <2>2, <2>3
<1>4. ASSUME NEW k \in Nat, Has(k) PROVE Has(k + 1)
  <2>1. PICK f \in [Sized(k) -> D] :
          \A T \in Sized(k) : f[T] = IF T = {} THEN base ELSE step[<<f[T \ {pick[T]}], pick[T]>>]
    BY <1>4
  <2>2. ASSUME NEW T \in Sized(k + 1), T # {} PROVE T \ {pick[T]} \in Sized(k) /\ pick[T] \in S
    <3>1. T \in SUBSET S /\ Cardinality(T) <= k + 1
      OBVIOUS
    <3> QED BY <1>1, <1>2, <2>2, <3>1
  <2>3. Sized(k) \subseteq Sized(k + 1)
    BY <1>1
  <2> DEFINE g == [T \in Sized(k + 1) |-> IF T = {} THEN base ELSE step[<<f[T \ {pick[T]}], pick[T]>>]]
  <2> HIDE DEF Sized
  <2>4. g \in [Sized(k + 1) -> D]
    BY <2>1, <2>2
  <2>5. \A T \in Sized(k) : g[T] = f[T]
    BY <2>1, <2>3
  <2>6. \A T \in Sized(k + 1) : T # {} => g[T \ {pick[T]}] = f[T \ {pick[T]}]
    BY <2>2, <2>5
  <2>7. \A T \in Sized(k + 1) : g[T] = IF T = {} THEN base ELSE step[<<g[T \ {pick[T]}], pick[T]>>]
    BY <2>6
  <2> QED BY <2>4, <2>7
<1>5. ASSUME NEW k \in Bad, \A j \in Bad : k <= j PROVE FALSE
  <2>1. k \in Nat /\ ~ Has(k)
    BY <1>5
  <2> HIDE DEF Has
  <2>2. k # 0
    BY <1>3, <2>1
  <2>3. k - 1 \in Nat
    BY <2>1, <2>2
  <2>4. Has(k - 1)
    <3>1. ASSUME ~ Has(k - 1) PROVE FALSE
      <4>1. k - 1 \in Bad
        BY <2>3, <3>1
      <4> QED BY <1>5, <2>1, <4>1
    <3> QED BY <3>1
  <2>5. (k - 1) + 1 = k
    BY <2>1
  <2>6. Has((k - 1) + 1)
    BY <1>4, <2>3, <2>4
  <2> QED BY <2>1, <2>5, <2>6
<1> HIDE DEF Has
<1>6. Bad \subseteq Nat
  OBVIOUS
<1>7. Bad = {}
  <2> HIDE DEF Bad
  <2> QED BY <1>5, <1>6, LeastNumber
<1>8. Has(Cardinality(S))
  <2>1. Cardinality(S) \in Nat
    BY FS_CardinalityType
  <2> QED BY <1>7, <2>1
<1>9. Sized(Cardinality(S)) = SUBSET S
  BY <1>1, FS_Subset
<1> HIDE DEF Sized
<1> QED BY <1>8, <1>9 DEF Has, IsFold

\* There is only one.
LEMMA FoldUnique ==
  ASSUME NEW S, IsFiniteSet(S), NEW pick \in Picks(S),
         NEW f, NEW g, StayAlike(f, g, S, pick)
  PROVE  f[S] = g[S]
<1> DEFINE P == {T \in SUBSET S : f[T] = g[T]}
<1>1. {} \in P
  BY DEF StayAlike
<1>2. \A T \in SUBSET S : T # {} /\ T \ {pick[T]} \in P => T \in P
  BY DEF StayAlike
<1> HIDE DEF P
<1>3. S \in P
  BY <1>1, <1>2, TakenOneByOne
<1> QED BY <1>3 DEF P

\* What Append does to a sequence of values of any kind.
LEMMA Appended ==
  ASSUME NEW s, NEW e, Len(s) \in Nat, s = [i \in 1..Len(s) |-> s[i]]
  PROVE  LET t == Append(s, e) IN
         /\ Len(t) = Len(s) + 1
         /\ t = [i \in 1..Len(t) |-> t[i]]
         /\ \A i \in 1..Len(s) : t[i] = s[i]
         /\ t[Len(s) + 1] = e
<1> DEFINE S == {s[i] : i \in 1..Len(s)} \cup {e}
<1>1. s \in [1..Len(s) -> S]
  OBVIOUS
<1>2. s \in Seq(S)
  BY <1>1
<1> HIDE DEF S
<1>3. e \in S
  BY DEF S
<1>4. Append(s, e) \in Seq(S)
  BY <1>2, <1>3
<1>5. /\ Len(Append(s, e)) = Len(s) + 1
      /\ \A i \in 1..Len(s) : Append(s, e)[i] = s[i]
      /\ Append(s, e)[Len(s) + 1] = e
  BY <1>2, <1>3, AppendProperties
<1>6. Append(s, e) = [i \in 1..Len(Append(s, e)) |-> Append(s, e)[i]]
  <2>1. ASSUME NEW t \in Seq(S) PROVE t = [i \in 1..Len(t) |-> t[i]]
    <3>1. t \in [1..Len(t) -> S]
      BY <2>1
    <3> HIDE <2>1
    <3> QED BY <3>1
  <2> QED BY <1>4, <2>1
<1> QED  BY <1>5, <1>6

\* Every member starts with its founding events, in its ledger.
LEMMA InitIInv == Init => IInv
<1> SUFFICES ASSUME Init PROVE IInv
  OBVIOUS
<1>1. LogShape
  BY UnitAssumption DEF Init, LogShape
<1>2. DOMAIN Founding = 1..Len(Founding)
  BY UnitAssumption
<1>3. MemoryShape
  BY <1>2, UnitAssumption DEF Init, MemoryShape
<1> QED
  BY <1>1, <1>3 DEF Init, IInv, SyncHolds, CommandHolds, OwnHolds, AcknowledgedByMember,
     AcknowledgedIsDurable, ShownIsKept, NoEvent

\* What a command that drafts an event does to what the invariant speaks of.
Drafts(d) ==
  /\ command[d].waits = "none"
  /\ \E e : e.author = d /\ log' = Append(log, e)
  /\ \E n \in {Now, NoEvent} : draft' = [draft EXCEPT ![d] = n]
  /\ UNCHANGED <<ledger, known, outbox, failed, command, acknowledged, unsaved, phase, batch, pulled>>

\* The administration commands draft an event of their own device.
LEMMA AdministerDrafts ==
  ASSUME NEW d \in Device, NEW e, NEW a, e.author = d,
         command[d].waits = "none", Administer(d, e, a)
  PROVE  Drafts(d)
  BY DEF Administer, Drafts, replicaVars, syncVars

\* Every command drafts an event of its own device.
LEMMA CommandDrafts ==
  ASSUME NEW d \in Device,
         \/ \E type \in StockTypes, quantity \in Quantities : DraftStock(d, type, quantity)
         \/ \E subject \in Device : DraftRevocation(d, subject)
         \/ \E subject \in Device, role \in Roles : DraftRoleChange(d, subject, role)
  PROVE  Drafts(d)
<1>1. ASSUME NEW type, NEW quantity, DraftStock(d, type, quantity) PROVE Drafts(d)
  <2> DEFINE e == Drafted(d, type, NoEvent, "NONE", NoEvent, d, quantity)
  <2>1. e.author = d
    BY DEF Drafted
  <2> QED BY <1>1, <2>1 DEF DraftStock, MayDraft, Drafts, replicaVars, syncVars
<1>2. ASSUME NEW subject, DraftRevocation(d, subject) PROVE Drafts(d)
  <2> DEFINE e == Drafted(d, "AUTHORITY_REVOKED", subject, "NONE",
                          projection[d].members[subject].credential, Signer(d), 0)
  <2>1. e.author = d
    BY DEF Drafted
  <2> HIDE DEF e
  <2>2. \E a : Administer(d, e, a)
    BY <1>2 DEF DraftRevocation, e
  <2>3. command[d].waits = "none"
    BY <1>2 DEF DraftRevocation, MayDraft
  <2> QED BY <2>1, <2>2, <2>3, AdministerDrafts
<1>3. ASSUME NEW subject, NEW role, DraftRoleChange(d, subject, role) PROVE Drafts(d)
  <2> DEFINE e == Drafted(d, "ROLE_CHANGED", subject, role,
                          projection[d].members[subject].credential, Signer(d), 0)
  <2>1. e.author = d
    BY DEF Drafted
  <2> HIDE DEF e
  <2>2. \E a : Administer(d, e, a)
    BY <1>3 DEF DraftRoleChange, e
  <2>3. command[d].waits = "none"
    BY <1>3 DEF DraftRoleChange, MayDraft
  <2> QED BY <2>1, <2>2, <2>3, AdministerDrafts
<1> QED BY <1>1, <1>2, <1>3

\* A draft is in nobody's outbox yet.
LEMMA DraftsKeep ==
  ASSUME IInv, NEW d \in Device, Drafts(d)
  PROVE  IInv'
<1> USE DEF NoEvent
<1>1. PICK e : e.author = d /\ log' = Append(log, e)
  BY DEF Drafts
<1>2. PICK n \in {Now, NoEvent} : draft' = [draft EXCEPT ![d] = n]
  BY DEF Drafts
<1>3. UNCHANGED <<ledger, known, outbox, failed, command, acknowledged, unsaved, phase, batch, pulled>>
  BY DEF Drafts
<1>4. /\ Len(log') = Len(log) + 1 /\ Len(log) \in Nat
      /\ LogShape'
      /\ \A i \in 1..Len(log) : log'[i] = log[i]
      /\ log'[Len(log) + 1] = e
  BY <1>1, Appended DEF IInv, LogShape
<1>5. MemoryShape'
  BY <1>2, <1>3, <1>4 DEF IInv, MemoryShape, Now
<1>6. SyncHolds' /\ ShownIsKept'
  BY <1>3 DEF IInv, SyncHolds, ShownIsKept
<1>7. AcknowledgedByMember' /\ AcknowledgedIsDurable'
  BY <1>3, <1>4 DEF IInv, AcknowledgedByMember, AcknowledgedIsDurable, MemoryShape
<1>8. CommandHolds'
  <2> SUFFICES ASSUME NEW x \in Device PROVE CommandHolds!(x)'
    BY DEF CommandHolds
  <2> QED BY <1>1, <1>2, <1>3, <1>4 DEF IInv, CommandHolds, MemoryShape, Now
<1>cmd. command[d].waits = "none"
  BY DEF Drafts
<1>own. OwnHolds'
  <2> SUFFICES ASSUME NEW x \in Device PROVE OwnHolds!(x)'
    BY DEF OwnHolds
  <2> QED BY <1>1, <1>2, <1>3, <1>4, <1>cmd DEF IInv, OwnHolds, MemoryShape, Now
<1> QED BY <1>4, <1>5, <1>6, <1>7, <1>8, <1>own DEF IInv

\* A committed event is shown and queued, and its command waits for a sync that
\* has not read the outbox yet.
LEMMA CommitKeeps ==
  ASSUME IInv, NEW d \in Device, Commit(d)
  PROVE  IInv'
<1> USE DEF NoEvent
<1> DEFINE n == draft[d]
<1>1. /\ n # NoEvent /\ n \in 1..Len(log) /\ log[n].author = d /\ n \notin outbox[d]
      /\ draft' = [draft EXCEPT ![d] = NoEvent]
      /\ UNCHANGED <<log, ledger, failed, acknowledged, unsaved, phase, batch, pulled>>
  BY DEF Commit, IInv, MemoryShape, CommandHolds, syncVars
<1>2. \/ UNCHANGED <<known, outbox, command>>
      \/ /\ known' = [known EXCEPT ![d] = @ \cup {n}]
         /\ outbox' = [outbox EXCEPT ![d] = @ \cup {n}]
         /\ command' = [command EXCEPT ![d] = [event |-> n, waits |-> NextSync(d)]]
  BY DEF Commit, Store, replicaVars
<1> HIDE DEF n
<1>3. LogShape' /\ MemoryShape'
  <2>1. CASE UNCHANGED <<known, outbox, command>>
    BY <1>1, <2>1 DEF IInv, LogShape, MemoryShape
  <2>2. CASE /\ known' = [known EXCEPT ![d] = @ \cup {n}]
             /\ outbox' = [outbox EXCEPT ![d] = @ \cup {n}]
             /\ command' = [command EXCEPT ![d] = [event |-> n, waits |-> NextSync(d)]]
    <3>1. NextSync(d) \in {"due", "behind"}
      BY DEF NextSync
    <3> QED BY <1>1, <2>2, <3>1 DEF IInv, LogShape, MemoryShape
  <2> QED BY <1>2, <2>1, <2>2
<1>4. SyncHolds' /\ ShownIsKept'
  <2> SUFFICES ASSUME NEW x \in Device
               PROVE  /\ batch'[x] \subseteq outbox'[x]
                      /\ phase'[x] # "publish" => batch'[x] = {}
                      /\ pulled'[x] \subseteq ledger'[x]
                      /\ known'[x] \subseteq ledger'[x] \cup outbox'[x]
    BY DEF SyncHolds, ShownIsKept
  <2> QED BY <1>1, <1>2 DEF IInv, SyncHolds, ShownIsKept, MemoryShape
<1>5. AcknowledgedByMember' /\ AcknowledgedIsDurable'
  BY <1>1 DEF IInv, AcknowledgedByMember, AcknowledgedIsDurable
<1>6. CommandHolds'
  <2> SUFFICES ASSUME NEW x \in Device PROVE CommandHolds!(x)'
    BY DEF CommandHolds
  <2> QED BY <1>1, <1>2 DEF IInv, CommandHolds, SyncHolds, MemoryShape, NextSync
<1>own. OwnHolds'
  <2> SUFFICES ASSUME NEW x \in Device PROVE OwnHolds!(x)'
    BY DEF OwnHolds
  <2>1. OwnHolds!(x) /\ (x = d => command[d].event = NoEvent)
    BY <1>1 DEF IInv, OwnHolds, n
  <2>2. CASE UNCHANGED <<known, outbox, command>>
    BY <1>1, <2>1, <2>2 DEF IInv, MemoryShape
  <2>3. CASE /\ known' = [known EXCEPT ![d] = @ \cup {n}]
             /\ command' = [command EXCEPT ![d] = [event |-> n, waits |-> NextSync(d)]]
    <3>1. CASE x # d
      <4>1. command'[x] = command[x] /\ known'[x] = known[x] /\ draft'[x] = draft[x]
        BY <1>1, <2>3, <3>1 DEF IInv, MemoryShape
      <4> QED BY <1>1, <2>1, <4>1
    <3>2. CASE x = d
      <4>1. /\ command'[d] = [event |-> n, waits |-> NextSync(d)]
            /\ known'[d] = known[d] \cup {n} /\ draft'[d] = NoEvent
        BY <1>1, <2>3 DEF IInv, MemoryShape
      <4>2. NextSync(d) \notin {"none", "opening"}
        BY DEF NextSync
      <4>3. \A i \in known[d] : i # NoEvent
        BY DEF IInv, MemoryShape
      <4> QED BY <1>1, <2>1, <3>2, <4>1, <4>2, <4>3
    <3> QED BY <3>1, <3>2
  <2> QED BY <1>2, <2>2, <2>3
<1> QED BY <1>3, <1>4, <1>5, <1>6, <1>own DEF IInv

\* A sync takes the whole outbox, so a command that was due has its event in it.
LEMMA StartSyncKeeps ==
  ASSUME IInv, NEW d \in Device, StartSync(d)
  PROVE  IInv'
<1> USE DEF NoEvent
<1>1. /\ phase[d] = "idle"
      /\ phase' = [phase EXCEPT ![d] = "publish"]
      /\ batch' = [batch EXCEPT ![d] = outbox[d]]
      /\ command' = [command EXCEPT ![d].waits = IF @ = "due" THEN "joined" ELSE @]
      /\ UNCHANGED <<log, ledger, known, outbox, failed, draft, acknowledged, unsaved, pulled>>
  BY DEF StartSync, replicaVars
<1>2. LogShape' /\ MemoryShape'
  BY <1>1 DEF IInv, LogShape, MemoryShape
<1>3. SyncHolds' /\ ShownIsKept'
  BY <1>1 DEF IInv, SyncHolds, ShownIsKept, MemoryShape
<1>4. AcknowledgedByMember' /\ AcknowledgedIsDurable'
  BY <1>1 DEF IInv, AcknowledgedByMember, AcknowledgedIsDurable
<1>5. CommandHolds'
  <2> SUFFICES ASSUME NEW x \in Device PROVE CommandHolds!(x)'
    BY DEF CommandHolds
  <2> QED BY <1>1 DEF IInv, CommandHolds, SyncHolds, MemoryShape
<1>own. OwnHolds'
  <2> SUFFICES ASSUME NEW x \in Device PROVE OwnHolds!(x)'
    BY DEF OwnHolds
  <2> QED BY <1>1 DEF IInv, OwnHolds, MemoryShape
<1> QED BY <1>2, <1>3, <1>4, <1>5, <1>own DEF IInv

\* A published event leaves the outbox for the ledger.
LEMMA PublishKeeps ==
  ASSUME IInv, NEW d \in Device, Publish(d)
  PROVE  IInv'
<1> USE DEF NoEvent
<1>1. PICK n \in batch[d] :
        /\ batch' = [batch EXCEPT ![d] = @ \ {n}]
        /\ ledger' = [ledger EXCEPT ![d] = @ \cup {n}]
        /\ outbox' = [outbox EXCEPT ![d] = @ \ {n}]
        /\ failed' = [failed EXCEPT ![d] = @ \ {n}]
  BY DEF Publish
<1>2. /\ phase[d] = "publish"
      /\ UNCHANGED <<log, known, draft, command, acknowledged, unsaved, phase, pulled>>
  BY DEF Publish, replicaVars, commandVars
<1>3. LogShape' /\ MemoryShape'
  BY <1>1, <1>2 DEF IInv, LogShape, MemoryShape
<1>4. SyncHolds' /\ ShownIsKept'
  BY <1>1, <1>2 DEF IInv, SyncHolds, ShownIsKept, MemoryShape
<1>5. AcknowledgedByMember' /\ AcknowledgedIsDurable'
  BY <1>1, <1>2 DEF IInv, AcknowledgedByMember, AcknowledgedIsDurable, MemoryShape
<1>6. CommandHolds'
  <2> SUFFICES ASSUME NEW x \in Device PROVE CommandHolds!(x)'
    BY DEF CommandHolds
  <2> QED BY <1>1, <1>2 DEF IInv, CommandHolds, SyncHolds, MemoryShape
<1>own. OwnHolds'
  <2> SUFFICES ASSUME NEW x \in Device PROVE OwnHolds!(x)'
    BY DEF OwnHolds
  <2> QED BY <1>1, <1>2 DEF IInv, OwnHolds, MemoryShape
<1> QED BY <1>3, <1>4, <1>5, <1>6, <1>own DEF IInv

\* A failed one stays in the outbox, and its command will know.
LEMMA PublishFailsKeeps ==
  ASSUME IInv, NEW d \in Device, PublishFails(d)
  PROVE  IInv'
<1> USE DEF NoEvent
<1>1. PICK n \in batch[d] :
        /\ batch' = [batch EXCEPT ![d] = @ \ {n}]
        /\ failed' = [failed EXCEPT ![d] = @ \cup {n}]
  BY DEF PublishFails
<1>2. /\ phase[d] = "publish"
      /\ UNCHANGED <<log, ledger, known, outbox, draft, command, acknowledged, unsaved, phase, pulled>>
  BY DEF PublishFails, replicaVars, commandVars
<1>3. LogShape' /\ MemoryShape'
  BY <1>1, <1>2 DEF IInv, LogShape, MemoryShape
<1>4. SyncHolds' /\ ShownIsKept'
  BY <1>1, <1>2 DEF IInv, SyncHolds, ShownIsKept, MemoryShape
<1>5. AcknowledgedByMember' /\ AcknowledgedIsDurable'
  BY <1>2 DEF IInv, AcknowledgedByMember, AcknowledgedIsDurable
<1>6. CommandHolds'
  <2> SUFFICES ASSUME NEW x \in Device PROVE CommandHolds!(x)'
    BY DEF CommandHolds
  <2> QED BY <1>1, <1>2 DEF IInv, CommandHolds, SyncHolds, MemoryShape
<1>own. OwnHolds'
  <2> SUFFICES ASSUME NEW x \in Device PROVE OwnHolds!(x)'
    BY DEF OwnHolds
  <2> QED BY <1>1, <1>2 DEF IInv, OwnHolds, MemoryShape
<1> QED BY <1>3, <1>4, <1>5, <1>6, <1>own DEF IInv

\* The end of a sync, whatever it pulled and folded: the command that returns
\* without an error has its event in the ledger, because the batch is done.
LEMMA EndSyncKeeps ==
  ASSUME IInv, NEW d \in Device, EndSync(d), batch[d] = {}, phase[d] # "idle",
         UNCHANGED <<log, ledger, outbox, failed, draft, batch>>,
         known' \in [Device -> SUBSET (1..Len(log))],
         \A x \in Device : known'[x] \subseteq known[x] \cup pulled[x],
         pulled' \in [Device -> SUBSET (1..Len(log))],
         \A x \in Device : pulled'[x] \subseteq ledger[x]
  PROVE  IInv'
<1> USE DEF NoEvent
<1> DEFINE c == command[d]
<1>1. /\ c \in [event : 1..Len(log) \cup {NoEvent},
                waits : {"none", "due", "behind", "joined", "opening"}]
      /\ c.waits = "joined" => /\ c.event \in 1..Len(log) /\ log[c.event].author = d
                               /\ c.event \in ledger[d] \cup failed[d]
      /\ c.waits # "due"
      /\ c.waits = "behind" => c.event \in outbox[d]
  BY DEF IInv, MemoryShape, CommandHolds
<1>2. phase' = [phase EXCEPT ![d] = "idle"]
  BY DEF EndSync
<1>3. PICK r : command' = [command EXCEPT ![d] = r] /\
        r = CASE c.waits \in {"joined", "opening"} -> [event |-> NoEvent, waits |-> "none"]
              [] c.waits = "behind" -> [c EXCEPT !.waits = "due"]
              [] OTHER -> c
  BY DEF EndSync
<1>4. \/ c.waits \in {"joined", "opening"} /\ r = [event |-> NoEvent, waits |-> "none"]
      \/ c.waits = "behind" /\ r = [c EXCEPT !.waits = "due"]
      \/ c.waits = "none" /\ r = c
  BY <1>1, <1>3
<1>5. \/ acknowledged' = acknowledged
      \/ /\ c.waits = "joined" /\ c.event \in ledger[d]
         /\ acknowledged' = acknowledged \cup {c.event}
  BY <1>1 DEF EndSync
<1>u. \/ unsaved' = unsaved /\ (c.waits = "joined" => c.event \in ledger[d])
      \/ c.waits = "joined" /\ unsaved' = unsaved \cup {c.event}
  BY <1>1 DEF EndSync
<1>open. c.waits \in {"none", "opening"} => c.event = NoEvent
  BY DEF IInv, OwnHolds
<1> HIDE DEF c
<1>6. LogShape'
  BY DEF IInv, LogShape
<1>7. MemoryShape'
  <2>1. r \in [event : 1..Len(log) \cup {NoEvent},
               waits : {"none", "due", "behind", "joined", "opening"}]
    BY <1>1, <1>4
  <2>2. acknowledged' \subseteq 1..Len(log)
    <3>1. acknowledged \subseteq 1..Len(log)
      BY DEF IInv, MemoryShape
    <3> QED BY <1>1, <1>5, <3>1
  <2>3. unsaved' \subseteq 1..Len(log)
    <3>1. unsaved \subseteq 1..Len(log)
      BY DEF IInv, MemoryShape
    <3> QED BY <1>1, <1>u, <3>1
  <2> QED BY <1>2, <1>3, <2>1, <2>2, <2>3 DEF IInv, MemoryShape
<1>8. SyncHolds' /\ ShownIsKept'
  <2> SUFFICES ASSUME NEW x \in Device
               PROVE  /\ batch'[x] \subseteq outbox'[x]
                      /\ phase'[x] # "publish" => batch'[x] = {}
                      /\ pulled'[x] \subseteq ledger'[x]
                      /\ known'[x] \subseteq ledger'[x] \cup outbox'[x]
    BY DEF SyncHolds, ShownIsKept
  <2> QED BY <1>2 DEF IInv, SyncHolds, ShownIsKept, MemoryShape
<1>9. AcknowledgedByMember' /\ AcknowledgedIsDurable'
  BY <1>1, <1>5, <1>u DEF IInv, AcknowledgedByMember, AcknowledgedIsDurable
<1>10. CommandHolds'
  <2> SUFFICES ASSUME NEW x \in Device PROVE CommandHolds!(x)'
    BY DEF CommandHolds
  <2>1. CASE x # d
    <3>1. command'[x] = command[x] /\ phase'[x] = phase[x]
      BY <1>2, <1>3, <2>1 DEF IInv, MemoryShape
    <3> QED BY <3>1 DEF IInv, CommandHolds
  <2>2. CASE x = d
    <3>1. command'[x] = r /\ phase'[x] = "idle"
      BY <1>2, <1>3, <2>2 DEF IInv, MemoryShape
    <3>2. CommandHolds!(x)
      BY DEF IInv, CommandHolds
    <3> QED BY <1>1, <1>4, <2>2, <3>1, <3>2 DEF c
  <2> QED BY <2>1, <2>2
<1>11. OwnHolds'
  <2> SUFFICES ASSUME NEW x \in Device PROVE OwnHolds!(x)'
    BY DEF OwnHolds
  <2>0. known'[x] \subseteq known[x] \cup ledger[x]
    BY DEF IInv, SyncHolds
  <2>1. OwnHolds!(x) /\ unsaved \subseteq unsaved'
    BY <1>u DEF IInv, OwnHolds
  <2>2. CASE x # d
    <3>1. command'[x] = command[x]
      BY <1>3, <2>2 DEF IInv, MemoryShape
    <3> QED BY <2>0, <2>1, <3>1
  <2>3. CASE x = d
    <3>1. command'[d] = r
      BY <1>3 DEF IInv, MemoryShape
    <3>2. c.event \in {NoEvent} \cup ledger[d] \cup unsaved' \/ r.event = c.event
      <4>1. CASE c.waits \in {"joined", "opening"}
        BY <1>1, <1>u, <1>open, <4>1
      <4>2. CASE c.waits = "behind" /\ r = [c EXCEPT !.waits = "due"]
        BY <1>1, <4>2
      <4>3. CASE r = c
        BY <4>3
      <4> QED BY <1>4, <4>1, <4>2, <4>3
    <3>3. \A n \in known[d] : n # NoEvent
      BY DEF IInv, MemoryShape
    <3>4. draft[d] # NoEvent => r.event = NoEvent
      BY <1>1, <1>4, <2>1, <2>3 DEF c
    <3>5. r.waits \in {"none", "opening"} => r.event = NoEvent
      BY <1>1, <1>4, <2>1, <2>3 DEF c
    <3> QED BY <2>0, <2>1, <2>3, <3>1, <3>2, <3>3, <3>4, <3>5 DEF c
  <2> QED BY <2>2, <2>3
<1> QED BY <1>6, <1>7, <1>8, <1>9, <1>10, <1>11 DEF IInv

\* A pull takes only what the ledger holds.
LEMMA PullKeeps ==
  ASSUME IInv, NEW d \in Device, Pull(d)
  PROVE  IInv'
<1> USE DEF NoEvent
<1>1. /\ phase[d] = "publish" /\ batch[d] = {}
      /\ pulled' = [pulled EXCEPT ![d] = ToSet(backlog[d]) \cap ledger[d]]
      /\ UNCHANGED <<log, ledger, known, outbox, failed, draft, batch>>
  BY DEF Pull, replicaVars
<1>2. /\ pulled' \in [Device -> SUBSET (1..Len(log))]
      /\ \A x \in Device : pulled'[x] \subseteq ledger[x]
  BY <1>1 DEF IInv, MemoryShape, SyncHolds
<1>3. CASE EndSync(d)
  BY <1>1, <1>2, <1>3, EndSyncKeeps DEF IInv, MemoryShape
<1>4. CASE phase' = [phase EXCEPT ![d] = "receive"] /\ UNCHANGED <<command, acknowledged, unsaved>>
  <2>1. LogShape' /\ MemoryShape'
    BY <1>1, <1>2, <1>4 DEF IInv, LogShape, MemoryShape
  <2>2. SyncHolds' /\ ShownIsKept'
    BY <1>1, <1>2, <1>4 DEF IInv, SyncHolds, ShownIsKept, MemoryShape
  <2>3. AcknowledgedByMember' /\ AcknowledgedIsDurable'
    BY <1>1, <1>4 DEF IInv, AcknowledgedByMember, AcknowledgedIsDurable
  <2>4. CommandHolds'
    <3> SUFFICES ASSUME NEW x \in Device PROVE CommandHolds!(x)'
      BY DEF CommandHolds
    <3> QED BY <1>1, <1>4 DEF IInv, CommandHolds, MemoryShape
  <2>5. OwnHolds'
    <3> SUFFICES ASSUME NEW x \in Device PROVE OwnHolds!(x)'
      BY DEF OwnHolds
    <3> QED BY <1>1, <1>4 DEF IInv, OwnHolds
  <2> QED BY <2>1, <2>2, <2>3, <2>4, <2>5 DEF IInv
<1> QED BY <1>3, <1>4 DEF Pull

\* A fold shows only what the pull took; a failed one shows nothing new.
LEMMA ReceiveKeeps ==
  ASSUME IInv, NEW d \in Device, Receive(d) \/ ReceiveFails(d)
  PROVE  IInv'
<1>1. /\ phase[d] = "receive" /\ EndSync(d)
      /\ pulled' = [pulled EXCEPT ![d] = {}]
      /\ UNCHANGED <<log, ledger, outbox, failed, draft, batch>>
      /\ known' = known \/ known' = [known EXCEPT ![d] = @ \cup (pulled[d] \ known[d])]
  BY DEF Receive, ReceiveFails, Store, replicaVars
<1>2. /\ pulled' \in [Device -> SUBSET (1..Len(log))]
      /\ \A x \in Device : pulled'[x] \subseteq ledger[x]
  BY <1>1 DEF IInv, MemoryShape, SyncHolds
<1>3. /\ known' \in [Device -> SUBSET (1..Len(log))]
      /\ \A x \in Device : known'[x] \subseteq known[x] \cup pulled[x]
  <2>1. known \in [Device -> SUBSET (1..Len(log))] /\ pulled[d] \subseteq 1..Len(log)
    BY DEF IInv, MemoryShape
  <2>2. CASE known' = known
    BY <2>1, <2>2
  <2>3. CASE known' = [known EXCEPT ![d] = @ \cup (pulled[d] \ known[d])]
    BY <2>1, <2>3
  <2> QED BY <1>1, <2>2, <2>3
<1>4. batch[d] = {}
  BY <1>1 DEF IInv, SyncHolds
<1> QED BY <1>1, <1>2, <1>3, <1>4, EndSyncKeeps

\* Another credential of its own changes none of this.
LEMMA AdoptKeeps ==
  ASSUME IInv, NEW d \in Device, AdoptOwnCredential(d)
  PROVE  IInv'
BY DEF AdoptOwnCredential, replicaVars, commandVars, syncVars, IInv, LogShape, MemoryShape,
       SyncHolds, CommandHolds, OwnHolds, AcknowledgedByMember, AcknowledgedIsDurable, ShownIsKept

\* A ledger only grows.
LEMMA ArriveKeeps ==
  ASSUME IInv, NEW d \in Device, NEW n \in DOMAIN log, Arrive(d, n)
  PROVE  IInv'
<1>1. /\ n \in 1..Len(log)
      /\ ledger' = [ledger EXCEPT ![d] = @ \cup {n}]
      /\ UNCHANGED <<log, known, outbox, failed, draft, command, acknowledged, unsaved, phase, batch, pulled>>
  BY DEF Arrive, replicaVars, commandVars, IInv, LogShape
<1>2. ledger' \in [Device -> SUBSET (1..Len(log))] /\ \A x \in Device : ledger[x] \subseteq ledger'[x]
  BY <1>1 DEF IInv, MemoryShape
<1>3. LogShape' /\ MemoryShape'
  BY <1>1, <1>2 DEF IInv, LogShape, MemoryShape
<1>4. SyncHolds' /\ ShownIsKept'
  BY <1>1, <1>2 DEF IInv, SyncHolds, ShownIsKept
<1>5. AcknowledgedByMember' /\ AcknowledgedIsDurable'
  BY <1>1, <1>2 DEF IInv, AcknowledgedByMember, AcknowledgedIsDurable
<1>6. CommandHolds'
  BY <1>1, <1>2 DEF IInv, CommandHolds
<1>own. OwnHolds'
  <2> SUFFICES ASSUME NEW x \in Device PROVE OwnHolds!(x)'
    BY DEF OwnHolds
  <2> QED BY <1>1, <1>2 DEF IInv, OwnHolds, MemoryShape
<1> QED BY <1>3, <1>4, <1>5, <1>6, <1>own DEF IInv

\* A restart forgets the memory and keeps the ledger.
LEMMA RestartKeeps ==
  ASSUME IInv, NEW d \in Device, Restart(d)
  PROVE  IInv'
<1> USE DEF NoEvent
<1>1. /\ known' = [known EXCEPT ![d] = {}] /\ outbox' = [outbox EXCEPT ![d] = {}]
      /\ failed' = [failed EXCEPT ![d] = {}] /\ draft' = [draft EXCEPT ![d] = NoEvent]
      /\ command' = [command EXCEPT ![d] = [event |-> NoEvent, waits |-> "opening"]]
      /\ phase' = [phase EXCEPT ![d] = "idle"] /\ batch' = [batch EXCEPT ![d] = {}]
      /\ pulled' = [pulled EXCEPT ![d] = {}]
      /\ UNCHANGED <<log, ledger, acknowledged, unsaved>>
  BY DEF Restart
<1>2. LogShape' /\ MemoryShape'
  BY <1>1 DEF IInv, LogShape, MemoryShape
<1>3. SyncHolds' /\ ShownIsKept'
  BY <1>1 DEF IInv, SyncHolds, ShownIsKept, MemoryShape
<1>4. AcknowledgedByMember' /\ AcknowledgedIsDurable'
  BY <1>1 DEF IInv, AcknowledgedByMember, AcknowledgedIsDurable
<1>5. CommandHolds'
  <2> SUFFICES ASSUME NEW x \in Device PROVE CommandHolds!(x)'
    BY DEF CommandHolds
  <2> QED BY <1>1 DEF IInv, CommandHolds, MemoryShape
<1>own. OwnHolds'
  <2> SUFFICES ASSUME NEW x \in Device PROVE OwnHolds!(x)'
    BY DEF OwnHolds
  <2> QED BY <1>1 DEF IInv, OwnHolds, MemoryShape
<1> QED BY <1>2, <1>3, <1>4, <1>5, <1>own DEF IInv

\* A command given again is answered with an event that is in the ledger, or that
\* its first answer was an error for.
LEMMA AgainKeeps ==
  ASSUME IInv, NEW d \in Device, NEW n \in DOMAIN log, Again(d, n)
  PROVE  IInv'
<1> USE DEF NoEvent
<1>1. /\ n \in known[d] /\ log[n].author = d /\ command[d].waits = "none"
      /\ acknowledged' = acknowledged \cup {n}
      /\ UNCHANGED <<log, ledger, known, outbox, failed, draft, command, unsaved, phase, batch,
                     pulled>>
  BY DEF Again, replicaVars, syncVars
<1>2. n \in 1..Len(log) /\ n \in ledger[d] \cup unsaved
  BY <1>1 DEF IInv, LogShape, MemoryShape, OwnHolds
<1>3. LogShape' /\ MemoryShape'
  <2>1. acknowledged' \subseteq 1..Len(log)
    BY <1>1, <1>2 DEF IInv, MemoryShape
  <2> QED BY <1>1, <2>1 DEF IInv, LogShape, MemoryShape
<1>4. SyncHolds' /\ ShownIsKept' /\ CommandHolds' /\ OwnHolds'
  BY <1>1 DEF IInv, SyncHolds, ShownIsKept, CommandHolds, OwnHolds
<1>5. AcknowledgedByMember' /\ AcknowledgedIsDurable'
  BY <1>1, <1>2 DEF IInv, AcknowledgedByMember, AcknowledgedIsDurable
<1> QED BY <1>3, <1>4, <1>5 DEF IInv

\* The invariant is kept by every step of every device.
LEMMA StepIInv == IInv /\ [Next]_vars => IInv'
<1> SUFFICES ASSUME IInv, [Next]_vars PROVE IInv'
  OBVIOUS
<1>1. CASE UNCHANGED vars
  BY <1>1
  DEF vars, replicaVars, commandVars, syncVars, IInv, LogShape, MemoryShape, SyncHolds,
      CommandHolds, OwnHolds, AcknowledgedByMember, AcknowledgedIsDurable, ShownIsKept
<1>2. ASSUME NEW d \in Device,
             \/ \E type \in StockTypes, quantity \in Quantities : DraftStock(d, type, quantity)
             \/ \E subject \in Device : DraftRevocation(d, subject)
             \/ \E subject \in Device, role \in Roles : DraftRoleChange(d, subject, role)
      PROVE  IInv'
  <2>1. Drafts(d)
    BY <1>2, CommandDrafts
  <2> QED BY <2>1, DraftsKeep
<1>3. ASSUME NEW d \in Device, Commit(d) PROVE IInv'
  BY <1>3, CommitKeeps
<1>4. ASSUME NEW d \in Device, StartSync(d) PROVE IInv'
  BY <1>4, StartSyncKeeps
<1>5. ASSUME NEW d \in Device, Publish(d) \/ PublishFails(d) PROVE IInv'
  BY <1>5, PublishKeeps, PublishFailsKeeps
<1>6. ASSUME NEW d \in Device, Pull(d) PROVE IInv'
  BY <1>6, PullKeeps
<1>7. ASSUME NEW d \in Device, Receive(d) \/ ReceiveFails(d) PROVE IInv'
  BY <1>7, ReceiveKeeps
<1>8. ASSUME NEW d \in Device, AdoptOwnCredential(d) PROVE IInv'
  BY <1>8, AdoptKeeps
<1>9. ASSUME NEW d \in Device, NEW n \in DOMAIN log, Arrive(d, n) PROVE IInv'
  BY <1>9, ArriveKeeps
<1>10. ASSUME NEW d \in Device, Restart(d) PROVE IInv'
  BY <1>10, RestartKeeps
<1>11. ASSUME NEW d \in Device, NEW n \in DOMAIN log, Again(d, n) PROVE IInv'
  BY <1>11, AgainKeeps
<1> QED
  BY <1>1, <1>2, <1>3, <1>4, <1>5, <1>6, <1>7, <1>8, <1>9, <1>10, <1>11 DEF Next

\* The strengthened invariant holds in every reachable state of a unit.
THEOREM ReplicaInvariant == Spec => []IInv
<1>1. Init => IInv
  BY InitIInv
<1>2. IInv /\ [Next]_vars => IInv'
  BY StepIInv
<1> QED BY <1>1, <1>2, PTL DEF Spec

\* A command that returned without an error is in the durable ledger of its
\* device, whatever syncs were in flight, failed or were cut off (syncAfterCommit).
THEOREM CommandsAreDurable == Spec => []AcknowledgedIsDurable
<1>1. IInv => AcknowledgedIsDurable
  BY DEF IInv
<1> QED BY <1>1, ReplicaInvariant, PTL

\* No event is shown that neither the ledger nor the outbox holds (persistLocal,
\* receiveMany, runSync).
THEOREM ProjectionIsKept == Spec => []ShownIsKept
<1>1. IInv => ShownIsKept
  BY DEF IInv
<1> QED BY <1>1, ReplicaInvariant, PTL

-----------------------------------------------------------------------------
(* UnitReplica implements SharedHistory.  The steps that matter: a publish *)
(* moves an event of the device's own into its ledger, because an outbox   *)
(* holds no other; a sync that ends answers a command whose event is held, *)
(* by the invariant above.                                                 *)

\* An outbox holds events of its own device only.
OutboxIsOwn == \A d \in Device : \A n \in outbox[d] : log[n].author = d

\* Events are queued by their commit, and a commit is of an own draft.
LEMMA OutboxStaysOwn ==
  ASSUME IInv, OutboxIsOwn, [Next]_vars
  PROVE  OutboxIsOwn'
<1> USE DEF NoEvent
<1>0. /\ outbox \in [Device -> SUBSET (1..Len(log))]
  BY DEF IInv, MemoryShape
<1>1. ASSUME UNCHANGED <<log, outbox>> PROVE OutboxIsOwn'
  BY <1>1 DEF OutboxIsOwn
<1>2. CASE UNCHANGED vars
  BY <1>1, <1>2 DEF vars
<1>3. ASSUME NEW d \in Device, Drafts(d) PROVE OutboxIsOwn'
  <2>1. PICK e : log' = Append(log, e)
    BY <1>3 DEF Drafts
  <2>2. \A i \in 1..Len(log) : log'[i] = log[i]
    BY <2>1, Appended DEF IInv, LogShape
  <2>3. outbox' = outbox
    BY <1>3 DEF Drafts
  <2> QED BY <1>0, <2>2, <2>3 DEF OutboxIsOwn
<1>4. ASSUME NEW d \in Device, Commit(d) PROVE OutboxIsOwn'
  <2>1. draft[d] # NoEvent /\ log[draft[d]].author = d
    BY <1>4 DEF Commit, IInv, CommandHolds
  <2>2. log' = log /\ (outbox' = outbox \/ outbox' = [outbox EXCEPT ![d] = @ \cup {draft[d]}])
    BY <1>4 DEF Commit
  <2> QED BY <1>0, <2>1, <2>2 DEF OutboxIsOwn
<1>5. ASSUME NEW d \in Device, Publish(d) PROVE OutboxIsOwn'
  BY <1>0, <1>5 DEF Publish, OutboxIsOwn
<1>6. ASSUME NEW d \in Device, Restart(d) PROVE OutboxIsOwn'
  BY <1>0, <1>6 DEF Restart, OutboxIsOwn
<1>7. ASSUME NEW d \in Device,
             \/ StartSync(d) \/ Pull(d) \/ Receive(d) \/ PublishFails(d) \/ ReceiveFails(d)
             \/ AdoptOwnCredential(d)
             \/ \E n \in DOMAIN log : Arrive(d, n) \/ Again(d, n)
      PROVE  OutboxIsOwn'
  BY <1>1, <1>7 DEF StartSync, Pull, Receive, PublishFails, ReceiveFails, AdoptOwnCredential, Arrive,
              Again
<1> QED BY <1>2, <1>3, <1>4, <1>5, <1>6, <1>7, CommandDrafts DEF Next

\* The end of a sync answers at most its own command, whose event is held.
LEMMA EndSyncAnswers ==
  ASSUME IInv, NEW d \in Device, EndSync(d), batch[d] = {}, UNCHANGED <<log, ledger>>
  PROVE  History!Next \/ UNCHANGED History!history
<1> DEFINE c == command[d]
<1>1. CASE c.waits = "joined" /\ c.event \notin failed[d]
  <2>1. c.event \in 1..Len(log) /\ log[c.event].author = d /\ c.event \in ledger[d]
    BY <1>1 DEF IInv, MemoryShape, CommandHolds, NoEvent
  <2>2. acknowledged' = acknowledged \cup {c.event}
    BY <1>1 DEF EndSync
  <2>4. unsaved' = unsaved
    BY <1>1 DEF EndSync
  <2>3. History!Answer(d, c.event)
    BY <2>1, <2>2, <2>4 DEF History!Answer
  <2> QED BY <2>1, <2>3 DEF History!Next
<1>2. CASE c.waits = "joined" /\ c.event \in failed[d]
  <2>1. c.event \in 1..Len(log) /\ log[c.event].author = d
    BY <1>2 DEF IInv, MemoryShape, CommandHolds, NoEvent
  <2>2. acknowledged' = acknowledged /\ unsaved' = unsaved \cup {c.event}
    BY <1>2 DEF EndSync
  <2>3. History!Refuse(d, c.event)
    BY <2>1, <2>2 DEF History!Refuse
  <2> QED BY <2>1, <2>3 DEF History!Next
<1>3. CASE c.waits # "joined"
  BY <1>3 DEF EndSync, History!history
<1> QED BY <1>1, <1>2, <1>3

\* Every step is one step of the shared history, or a stutter.
LEMMA StepRefines ==
  ASSUME IInv, OutboxIsOwn, [Next]_vars
  PROVE  History!Next \/ UNCHANGED History!history
<1>1. CASE UNCHANGED vars
  BY <1>1 DEF vars, commandVars, History!history
<1>2. ASSUME NEW d \in Device, Drafts(d) PROVE History!Next
  <2>1. PICK e : e.author = d /\ log' = Append(log, e)
    BY <1>2 DEF Drafts
  <2>2. /\ Len(log') = Len(log) + 1
        /\ \A i \in 1..Len(log) : log'[i] = log[i]
        /\ log'[Len(log) + 1] = e
    BY <2>1, Appended DEF IInv, LogShape
  <2>3. UNCHANGED <<ledger, acknowledged, unsaved>>
    BY <1>2 DEF Drafts
  <2>4. History!Sign(d)
    BY <2>1, <2>2, <2>3 DEF History!Sign
  <2> QED BY <2>4 DEF History!Next
<1>3. ASSUME NEW d \in Device, Publish(d) PROVE History!Next
  <2>1. PICK n \in batch[d] : ledger' = [ledger EXCEPT ![d] = @ \cup {n}]
    BY <1>3 DEF Publish
  <2>2. n \in 1..Len(log) /\ log[n].author = d
    BY DEF IInv, MemoryShape, SyncHolds, OutboxIsOwn
  <2>3. UNCHANGED <<log, acknowledged, unsaved>>
    BY <1>3 DEF Publish, commandVars
  <2>4. History!Keep(d, n)
    BY <2>1, <2>2, <2>3 DEF History!Keep, History!Hold
  <2> QED BY <2>2, <2>4 DEF History!Next
<1>4. ASSUME NEW d \in Device, NEW n \in DOMAIN log, Arrive(d, n) PROVE History!Next
  <2>1. n \in 1..Len(log)
    BY DEF IInv, LogShape
  <2>2. History!Learn(d, n)
    BY <1>4 DEF Arrive, commandVars, History!Learn, History!Hold
  <2> QED BY <2>1, <2>2 DEF History!Next
<1>5. ASSUME NEW d \in Device, Pull(d) PROVE History!Next \/ UNCHANGED History!history
  <2>1. batch[d] = {} /\ UNCHANGED <<log, ledger>>
    BY <1>5 DEF Pull
  <2>2. CASE EndSync(d)
    BY <2>1, <2>2, EndSyncAnswers
  <2>3. CASE UNCHANGED <<acknowledged, unsaved>>
    BY <2>1, <2>3 DEF History!history
  <2> QED BY <1>5, <2>2, <2>3 DEF Pull
<1>6. ASSUME NEW d \in Device, Receive(d) \/ ReceiveFails(d)
      PROVE  History!Next \/ UNCHANGED History!history
  <2>1. EndSync(d) /\ UNCHANGED <<log, ledger>> /\ phase[d] = "receive"
    BY <1>6 DEF Receive, ReceiveFails
  <2>2. batch[d] = {}
    BY <2>1 DEF IInv, SyncHolds
  <2> QED BY <2>1, <2>2, EndSyncAnswers
<1>7. ASSUME NEW d \in Device,
             Commit(d) \/ StartSync(d) \/ PublishFails(d) \/ AdoptOwnCredential(d) \/ Restart(d)
      PROVE  UNCHANGED History!history
  BY <1>7 DEF Commit, StartSync, PublishFails, AdoptOwnCredential, Restart, commandVars, History!history
<1>8. ASSUME NEW d \in Device, NEW n \in DOMAIN log, Again(d, n) PROVE History!Next
  <2>1. n \in known[d] /\ log[n].author = d /\ command[d].waits = "none"
    BY <1>8 DEF Again
  <2>2. n \in 1..Len(log) /\ n \in ledger[d] \cup unsaved
    BY <2>1 DEF IInv, MemoryShape, OwnHolds, NoEvent
  <2>3. History!Answer(d, n)
    BY <1>8, <2>1, <2>2 DEF Again, History!Answer
  <2> QED BY <2>2, <2>3 DEF History!Next
<1> QED BY <1>1, <1>2, <1>3, <1>4, <1>5, <1>6, <1>7, <1>8, CommandDrafts DEF Next

\* The initial states map to initial states.
LEMMA InitRefines == Init => History!Init /\ OutboxIsOwn
<1> SUFFICES ASSUME Init PROVE History!Init /\ OutboxIsOwn
  OBVIOUS
<1>1. ledger \in [Device -> SUBSET DOMAIN log] /\ acknowledged = {} /\ unsaved = {}
  BY UnitAssumption DEF Init
<1>2. OutboxIsOwn
  BY DEF Init, OutboxIsOwn
<1> QED BY <1>1, <1>2 DEF History!Init

\* No event is changed, lost from a ledger, taken from nowhere or reported before
\* it is held (persistLocal, runSync, syncAfterCommit, the transport's scans).
THEOREM UnitImplementsHistory == Spec => HistoryRefined
<1>1. Init => History!Init /\ OutboxIsOwn
  BY InitRefines
<1>2. IInv /\ OutboxIsOwn /\ [Next]_vars => OutboxIsOwn' /\ [History!Next]_(History!history)
  BY OutboxStaysOwn, StepRefines
<1> QED BY <1>1, <1>2, ReplicaInvariant, PTL DEF Spec, HistoryRefined, History!Spec

-----------------------------------------------------------------------------
(* The order of the fold: any set of events has a last and a first one.    *)

\* What places an event in the order are numbers.
Placed(l, S) == IsFiniteSet(S) /\ \A n \in S : n \in Nat /\ l[n].clock \in Nat /\ l[n].author \in Nat

\* The order is total.
LEMMA OrderIsTotal ==
  ASSUME NEW l, NEW S, Placed(l, S), NEW k \in S, NEW m \in S, NEW n \in S
  PROVE  /\ Before(l, k, m) /\ Before(l, m, n) => Before(l, k, n)
         /\ m # n => Before(l, m, n) \/ Before(l, n, m)
         /\ ~ (Before(l, m, n) /\ Before(l, n, m))
<1>1. \A x \in {k, m, n} : x \in Nat /\ l[x].clock \in Nat /\ l[x].author \in Nat
  BY DEF Placed
<1> QED BY <1>1 DEF Before

\* The event taken last comes after all others.
LEMMA LastIsLast ==
  ASSUME NEW l, NEW S, Placed(l, S), NEW T \in SUBSET S, T # {}
  PROVE  LastOf(l, T) \in T /\ \A m \in T \ {LastOf(l, T)} : Before(l, m, LastOf(l, T))
<1> DEFINE Newest(n, U) == n \in U /\ \A m \in U \ {n} : Before(l, m, n)
<1> DEFINE pick == [U \in (SUBSET S) \ {{}} |-> CHOOSE n \in U : TRUE]
<1> DEFINE P == {U \in SUBSET S : U = {} \/ \E n \in U : Newest(n, U)}
<1>1. pick \in Picks(S)
  BY DEF Picks
<1>2. {} \in P
  OBVIOUS
<1>3. ASSUME NEW U \in SUBSET S, U # {}, U \ {pick[U]} \in P PROVE U \in P
  <2>1. pick[U] \in U
    BY <1>1, <1>3 DEF Picks
  <2> DEFINE p == pick[U]
  <2> HIDE DEF pick
  <2>2. CASE U \ {p} = {}
    <3>1. Newest(p, U)
      BY <2>1, <2>2
    <3> QED BY <2>1, <3>1
  <2>3. CASE U \ {p} # {}
    <3>1. PICK n \in U \ {p} : Newest(n, U \ {p})
      BY <1>3, <2>3
    <3>2. CASE Before(l, p, n)
      <4>1. Newest(n, U)
        BY <3>1, <3>2
      <4> QED BY <4>1
    <3>3. CASE ~ Before(l, p, n)
      <4>1. Before(l, n, p)
        BY <2>1, <3>1, <3>3, OrderIsTotal
      <4>2. ASSUME NEW m \in U \ {p} PROVE Before(l, m, p)
        BY <2>1, <3>1, <4>1, <4>2, OrderIsTotal
      <4>3. Newest(p, U)
        BY <2>1, <4>2
      <4> QED BY <2>1, <4>3
    <3> QED BY <3>2, <3>3
  <2> QED BY <2>2, <2>3
<1> HIDE DEF P
<1>4. T \in P
  <2>1. IsFiniteSet(S)
    BY DEF Placed
  <2>2. \A U \in SUBSET S : U # {} /\ U \ {pick[U]} \in P => U \in P
    BY <1>3
  <2> HIDE DEF pick
  <2> QED BY <1>1, <1>2, <2>1, <2>2, TakenOneByOne
<1>5. \E n \in T : Newest(n, T)
  BY <1>4 DEF P
<1> QED BY <1>5 DEF LastOf

\* What comes after all others is taken last.
LEMMA LastIsUnique ==
  ASSUME NEW l, NEW S, Placed(l, S), NEW T \in SUBSET S,
         NEW n \in T, \A m \in T \ {n} : Before(l, m, n)
  PROVE  LastOf(l, T) = n
<1>1. LastOf(l, T) \in T /\ \A m \in T \ {LastOf(l, T)} : Before(l, m, LastOf(l, T))
  BY LastIsLast
<1> QED BY <1>1, OrderIsTotal

\* The first event of some comes before all others of them.
LEMMA FirstIsFirst ==
  ASSUME NEW l, NEW S, Placed(l, S), NEW T \in SUBSET S, T # {}
  PROVE  FirstOf(l, T) \in T /\ \A m \in T \ {FirstOf(l, T)} : Before(l, FirstOf(l, T), m)
<1> DEFINE Fst(n, U) == n \in U /\ \A m \in U \ {n} : Before(l, n, m)
<1> DEFINE pick == [U \in (SUBSET S) \ {{}} |-> CHOOSE n \in U : TRUE]
<1> DEFINE P == {U \in SUBSET S : U = {} \/ \E n \in U : Fst(n, U)}
<1>1. pick \in Picks(S)
  BY DEF Picks
<1>2. {} \in P
  OBVIOUS
<1>3. ASSUME NEW U \in SUBSET S, U # {}, U \ {pick[U]} \in P PROVE U \in P
  <2>1. pick[U] \in U
    BY <1>1, <1>3 DEF Picks
  <2> DEFINE p == pick[U]
  <2> HIDE DEF pick
  <2>2. CASE U \ {p} = {}
    <3>1. Fst(p, U)
      BY <2>1, <2>2
    <3> QED BY <2>1, <3>1
  <2>3. CASE U \ {p} # {}
    <3>1. PICK n \in U \ {p} : Fst(n, U \ {p})
      BY <1>3, <2>3
    <3>2. CASE Before(l, n, p)
      <4>1. Fst(n, U)
        BY <3>1, <3>2
      <4> QED BY <4>1
    <3>3. CASE ~ Before(l, n, p)
      <4>1. Before(l, p, n)
        BY <2>1, <3>1, <3>3, OrderIsTotal
      <4>2. ASSUME NEW m \in U \ {p} PROVE Before(l, p, m)
        BY <2>1, <3>1, <4>1, <4>2, OrderIsTotal
      <4>3. Fst(p, U)
        BY <2>1, <4>2
      <4> QED BY <2>1, <4>3
    <3> QED BY <3>2, <3>3
  <2> QED BY <2>2, <2>3
<1> HIDE DEF P
<1>4. T \in P
  <2>1. IsFiniteSet(S)
    BY DEF Placed
  <2>2. \A U \in SUBSET S : U # {} /\ U \ {pick[U]} \in P => U \in P
    BY <1>3
  <2> HIDE DEF pick
  <2> QED BY <1>1, <1>2, <2>1, <2>2, TakenOneByOne
<1>5. \E n \in T : Fst(n, T)
  BY <1>4 DEF P
<1> QED BY <1>5 DEF FirstOf

-----------------------------------------------------------------------------
(* What a projection holds, and that no event makes it hold anything else: *)
(* the stock in it is never negative.                                      *)

Membership == [status : {"NONE", "ACTIVE", "REVOKED"}, role : Roles \cup {"NONE"},
               credential : Event \cup {NoEvent}, roleChanged : BOOLEAN]
Dispute == [loser : Event, events : SUBSET Event]
Projections ==
  [onHand : Nat, issued : Nat, version : Nat, applied : SUBSET Event, conflicts : SUBSET Dispute,
   members : [Device -> Membership], rejected : SUBSET Event, clock : Nat]

\* What an event says.
Entry ==
  [author : Device, type : EventTypes, clock : Nat, subject : Device \cup {NoEvent},
   role : Roles \cup {"NONE"}, old : Event \cup {NoEvent}, issuer : Device \cup {Authority},
   quantity : Nat, base : Nat \cup {-1}]

\* A history without events is such a projection.
LEMMA GenesisTyped == Genesis \in Projections
<1>1. NoMember \in Membership
  BY DEF NoMember, Membership
<1>2. [d \in Device |-> NoMember] \in [Device -> Membership]
  BY <1>1
<1> QED BY <1>2 DEF Genesis, Projections

\* So is one with a conflict more,
LEMMA ConflictTyped ==
  ASSUME NEW p \in Projections, NEW n \in Event, NEW S \in SUBSET Event
  PROVE  AddConflict(p, n, S) \in Projections
<1>1. [loser |-> n, events |-> S \cup {n}] \in Dispute
  BY DEF Dispute
<1>2. p.conflicts \cup {[loser |-> n, events |-> S \cup {n}]} \in SUBSET Dispute
  BY <1>1 DEF Projections
<1> QED BY <1>2 DEF AddConflict, Projections

\* with other stock,
LEMMA StockTyped ==
  ASSUME NEW p \in Projections, NEW n \in Event, NEW onHand \in Nat, NEW issued \in Nat
  PROVE  Stock(p, n, onHand, issued) \in Projections
<1> DEFINE applied == p.applied \cup {n}
<1>1. applied \in SUBSET Event /\ p.version + 1 \in Nat
  BY DEF Projections
<1>2. Stock(p, n, onHand, issued) = [p EXCEPT !.onHand = onHand, !.issued = issued, !.version = p.version + 1, !.applied = applied]
  BY DEF Stock
<1> HIDE DEF applied
<1> QED BY <1>1, <1>2 DEF Projections

\* or with another entry for a member.
LEMMA MemberTyped ==
  ASSUME NEW p \in Projections, NEW d, NEW m \in Membership
  PROVE  [p EXCEPT !.members[d] = m] \in Projections
<1>1. [p.members EXCEPT ![d] = m] \in [Device -> Membership]
  BY DEF Projections
<1>2. [p EXCEPT !.members[d] = m] = [p EXCEPT !.members = [p.members EXCEPT ![d] = m]]
  OBVIOUS
<1> QED BY <1>1, <1>2 DEF Projections

\* Whatever an event does, it leaves a projection.
LEMMA EffectTyped ==
  ASSUME NEW l, NEW all \in SUBSET Event, NEW p \in Projections, NEW n \in Event, l[n] \in Entry
  PROVE  Effect(l, all, p, n) \in Projections
<1> DEFINE e == l[n]
<1>1. /\ e.type \in EventTypes /\ e.quantity \in Nat /\ e.role \in Roles \cup {"NONE"}
      /\ e.subject \in Device \cup {NoEvent}
  BY DEF Entry
<1>2. p.onHand \in Nat /\ p.issued \in Nat /\ p.applied \in SUBSET Event
  BY DEF Projections
<1>3. CASE e.type = "INVENTORY_RECEIVED"
  <2>1. ReceiveStock(l, p, n) \in Projections
    BY <1>1, <1>2, StockTyped DEF ReceiveStock
  <2> QED BY <1>3, <2>1 DEF Effect
<1>4. CASE e.type = "ITEM_ISSUED"
  <2>1. Consumers(l, p) \in SUBSET Event
    BY <1>2 DEF Consumers
  <2>2. CASE p.onHand < e.quantity
    <3>1. IssueItem(l, p, n) = AddConflict(p, n, Consumers(l, p))
      BY <2>2 DEF IssueItem
    <3>2. IssueItem(l, p, n) \in Projections
      BY <2>1, <3>1, ConflictTyped
    <3> QED BY <1>4, <3>2 DEF Effect
  <2>3. CASE ~ (p.onHand < e.quantity)
    <3>1. p.onHand - e.quantity \in Nat /\ p.issued + e.quantity \in Nat
      BY <1>1, <1>2, <2>3
    <3>2. IssueItem(l, p, n) = Stock(p, n, p.onHand - e.quantity, p.issued + e.quantity)
      BY <2>3 DEF IssueItem
    <3>3. IssueItem(l, p, n) \in Projections
      BY <3>1, <3>2, StockTyped
    <3> QED BY <1>4, <3>3 DEF Effect
  <2> QED BY <2>2, <2>3
<1>5. CASE e.type = "INVENTORY_COUNT_SUBMITTED"
  <2>1. SameBase(l, all, n) \in SUBSET Event
    BY DEF SameBase
  <2>2. AddConflict(p, n, SameBase(l, all, n)) \in Projections
    BY <2>1, ConflictTyped
  <2>3. Stock(p, n, e.quantity, p.issued) \in Projections
    BY <1>1, <1>2, StockTyped
  <2>4. SubmitCount(l, all, p, n) \in Projections
    BY <2>2, <2>3 DEF SubmitCount
  <2> QED BY <1>5, <2>4 DEF Effect
<1>6. ASSUME NEW changed \in BOOLEAN PROVE SetMember(p, e.subject, "ACTIVE", e.role, n, changed) \in Projections
  <2>1. [status |-> "ACTIVE", role |-> e.role, credential |-> n, roleChanged |-> changed] \in Membership
    BY <1>1 DEF Membership
  <2> QED BY <2>1, MemberTyped DEF SetMember
<1>7. CASE e.type \in {"AUTHORITY_GRANTED", "TICKET_REDEEMED"}
  BY <1>6, <1>7 DEF Effect
<1>8. CASE e.type = "ROLE_CHANGED"
  BY <1>6, <1>8 DEF Effect
<1>9. CASE e.type = "AUTHORITY_REVOKED"
  <2>1. [p EXCEPT !.members[e.subject].status = "REVOKED"] \in Projections
    <3>1. CASE e.subject \in Device
      <4> DEFINE m == [p.members[e.subject] EXCEPT !.status = "REVOKED"]
      <4>1. m \in Membership
        BY <3>1 DEF Projections, Membership
      <4>2. [p EXCEPT !.members[e.subject].status = "REVOKED"] = [p EXCEPT !.members[e.subject] = m]
        OBVIOUS
      <4> QED BY <4>1, <4>2, MemberTyped
    <3>2. CASE e.subject \notin Device
      <4>1. [p EXCEPT !.members[e.subject].status = "REVOKED"] = [p EXCEPT !.members = [p.members EXCEPT ![e.subject].status = "REVOKED"]]
        OBVIOUS
      <4>2. [p.members EXCEPT ![e.subject].status = "REVOKED"] = p.members
        BY <3>2 DEF Projections
      <4> QED BY <4>1, <4>2 DEF Projections
    <3> QED BY <3>1, <3>2
  <2>2. RevokeMember(l, p, n) \in Projections
    BY <2>1 DEF RevokeMember
  <2> QED BY <1>9, <2>2 DEF Effect
<1> QED BY <1>1, <1>3, <1>4, <1>5, <1>7, <1>8, <1>9 DEF EventTypes, StockTypes

\* Whether an event is applied or set aside, a projection is left.
LEMMA TryApplyTyped ==
  ASSUME NEW l, NEW creds, NEW revs, NEW all \in SUBSET Event,
         NEW p \in Projections, NEW n \in Event, l[n] \in Entry
  PROVE  TryApply(l, creds, revs, all, p, n) \in Projections
<1> DEFINE q == Effect(l, all, p, n)
<1>1. q \in Projections
  BY EffectTyped
<1>2. l[n].clock \in Nat
  BY DEF Entry
<1> HIDE DEF q
<1>3. [q EXCEPT !.clock = IF @ < l[n].clock THEN l[n].clock ELSE @] \in Projections
  BY <1>1, <1>2 DEF Projections
<1>4. [p EXCEPT !.rejected = @ \cup {n}] \in Projections
  BY DEF Projections
<1> QED BY <1>3, <1>4 DEF TryApply, q

-----------------------------------------------------------------------------
(* FoldFrom takes the events of a set in their order, one by one.          *)

\* f is the fold over every part of S.
Folding(f, l, creds, revs, all, p, S) ==
  f = [T \in SUBSET S |->
         IF T = {} THEN p ELSE TryApply(l, creds, revs, all, f[T \ {LastOf(l, T)}], LastOf(l, T))]

\* The fold over every part of S, as FoldFrom names it.
Course(l, creds, revs, all, p, S) == CHOOSE f : Folding(f, l, creds, revs, all, p, S)

\* The course is such a fold, through projections, and ends where FoldFrom does.
HasCourse(l, creds, revs, all, p, S) ==
  LET f == Course(l, creds, revs, all, p, S) IN
  /\ f \in [SUBSET S -> Projections]
  /\ Folding(f, l, creds, revs, all, p, S)
  /\ FoldFrom(l, creds, revs, all, p, S) = f[S]

\* The events of S have their places and say what events say.
Told(l, S) == S \subseteq Event /\ IsFiniteSet(S) /\ \A n \in S : l[n] \in Entry

\* Such events can be ordered.
LEMMA ToldIsPlaced ==
  ASSUME NEW l, NEW S, Told(l, S)
  PROVE  Placed(l, S)
<1>1. ASSUME NEW n \in S PROVE n \in Nat /\ l[n].clock \in Nat /\ l[n].author \in Nat
  <2>1. n \in Event /\ l[n] \in Entry
    BY DEF Told
  <2>2. l[n].clock \in Nat /\ l[n].author \in Device
    BY <2>1 DEF Entry
  <2>3. n \in Nat
    BY <2>1, ReplicaAssumption DEF Event
  <2>4. Device \subseteq Nat
    BY ReplicaAssumption
  <2> QED BY <2>2, <2>3, <2>4
<1> QED BY <1>1 DEF Told, Placed

\* What the course of a fold is for a part of S.
LEMMA FoldingAt ==
  ASSUME NEW f, NEW l, NEW creds, NEW revs, NEW all, NEW p, NEW S,
         Folding(f, l, creds, revs, all, p, S), NEW T \in SUBSET S, T # {},
         NEW n, n = LastOf(l, T), NEW R, R = T \ {n}
  PROVE  f[T] = TryApply(l, creds, revs, all, f[R], n)
<1>1. f[T] = TryApply(l, creds, revs, all, f[T \ {LastOf(l, T)}], LastOf(l, T))
  BY DEF Folding
<1> QED BY <1>1

\* The last of some events is one of them.
LEMMA LastPicks ==
  ASSUME NEW l, NEW S, Told(l, S)
  PROVE  [T \in (SUBSET S) \ {{}} |-> LastOf(l, T)] \in Picks(S)
<1>1. \A T \in (SUBSET S) \ {{}} : LastOf(l, T) \in T
  BY ToldIsPlaced, LastIsLast
<1> QED BY <1>1 DEF Picks

\* There is such a fold, it leaves a projection, and FoldFrom is it.
LEMMA FoldIsFolding ==
  ASSUME NEW l, NEW creds, NEW revs, NEW all \in SUBSET Event, NEW p \in Projections,
         NEW S, Told(l, S)
  PROVE  HasCourse(l, creds, revs, all, p, S)
<1> DEFINE pick == [T \in (SUBSET S) \ {{}} |-> LastOf(l, T)]
<1> DEFINE step == [x \in Projections \X S |-> TryApply(l, creds, revs, all, x[1], x[2])]
<1>1. pick \in Picks(S)
  BY LastPicks
<1>2. \A T \in SUBSET S : T # {} => pick[T] = LastOf(l, T) /\ pick[T] \in S /\ T \ {pick[T]} \in SUBSET S
  BY <1>1 DEF Picks
<1>3. \A q \in Projections, n \in S : TryApply(l, creds, revs, all, q, n) \in Projections
  BY TryApplyTyped DEF Told
<1>4. step \in [Projections \X S -> Projections]
  BY <1>3
<1>5. \A q \in Projections, n \in S : step[<<q, n>>] = TryApply(l, creds, revs, all, q, n)
  OBVIOUS
<1> HIDE DEF pick, step
<1>6. IsFiniteSet(S)
  BY DEF Told
<1>7. PICK f \in [SUBSET S -> Projections] : IsFold(f, S, pick, p, step)
  BY <1>1, <1>4, <1>6, FoldExists
<1> DEFINE Right(h, T) == IF T = {} THEN p ELSE TryApply(l, creds, revs, all, h[T \ {LastOf(l, T)}], LastOf(l, T))
<1>8. ASSUME NEW T \in SUBSET S PROVE f[T] = Right(f, T)
  <2>1. CASE T = {}
    BY <1>7, <2>1 DEF IsFold
  <2>2. CASE T # {}
    <3>1. f[T] = step[<<f[T \ {pick[T]}], pick[T]>>]
      BY <1>7, <2>2 DEF IsFold
    <3>2. f[T \ {pick[T]}] \in Projections /\ pick[T] \in S /\ pick[T] = LastOf(l, T)
      BY <1>2, <2>2
    <3> QED BY <1>5, <2>2, <3>1, <3>2
  <2> QED BY <2>1, <2>2
<1>9. Folding(f, l, creds, revs, all, p, S)
  <2> HIDE DEF Right
  <2>1. f = [T \in SUBSET S |-> Right(f, T)]
    BY <1>8
  <2> QED BY <2>1 DEF Right, Folding
<1> DEFINE g == Course(l, creds, revs, all, p, S)
<1>10. FoldFrom(l, creds, revs, all, p, S) = g[S]
  BY Zenon DEF FoldFrom, Folding, Course
<1>11. Folding(g, l, creds, revs, all, p, S)
  BY <1>9 DEF Course
<1> HIDE DEF g
<1>12. ASSUME NEW T \in SUBSET S, T # {}, f[T \ {pick[T]}] = g[T \ {pick[T]}] PROVE f[T] = g[T]
  <2> DEFINE n == pick[T]
  <2> DEFINE R == T \ {n}
  <2>1. n = LastOf(l, T) /\ f[R] = g[R]
    BY <1>2, <1>12
  <2>2. R = T \ {n}
    OBVIOUS
  <2> HIDE DEF n, R
  <2>3. f[T] = TryApply(l, creds, revs, all, f[R], n)
    BY <1>9, <1>12, <2>1, <2>2, FoldingAt
  <2>4. g[T] = TryApply(l, creds, revs, all, g[R], n)
    BY <1>11, <1>12, <2>1, <2>2, FoldingAt
  <2> QED BY <2>1, <2>3, <2>4
<1>13. StayAlike(f, g, S, pick)
  <2>1. f[{}] = p /\ g[{}] = p
    BY <1>9, <1>11 DEF Folding
  <2> QED BY <1>12, <2>1 DEF StayAlike
<1>14. \A T \in SUBSET S : f[T] = g[T]
  <2>1. ASSUME NEW T \in SUBSET S PROVE f[T] = g[T]
    <3> DEFINE P == {U \in SUBSET S : f[U] = g[U]}
    <3>1. {} \in P /\ \A U \in SUBSET S : U # {} /\ U \ {pick[U]} \in P => U \in P
      BY <1>13 DEF StayAlike
    <3> HIDE DEF P
    <3>2. T \in P
      BY <1>1, <1>6, <3>1, TakenOneByOne
    <3> QED BY <3>2 DEF P
  <2> QED BY <2>1
<1>15. g \in [SUBSET S -> Projections]
  <2>1. g = [T \in SUBSET S |-> g[T]]
    BY <1>11 DEF Folding
  <2>2. \A T \in SUBSET S : g[T] \in Projections
    BY <1>14
  <2> QED BY <2>1, <2>2
<1> QED BY <1>10, <1>11, <1>15 DEF g, HasCourse

\* Nothing is folded in: nothing changes.
LEMMA FoldOfNone ==
  ASSUME NEW l, NEW creds, NEW revs, NEW all \in SUBSET Event, NEW p \in Projections
  PROVE  FoldFrom(l, creds, revs, all, p, {}) = p
<1>1. Told(l, {})
  BY FS_EmptySet DEF Told
<1> DEFINE f == Course(l, creds, revs, all, p, {})
<1>2. HasCourse(l, creds, revs, all, p, {})
  BY <1>1, FoldIsFolding
<1>3. Folding(f, l, creds, revs, all, p, {}) /\ FoldFrom(l, creds, revs, all, p, {}) = f[{}]
  BY <1>2 DEF HasCourse
<1> HIDE DEF f
<1> QED BY <1>3 DEF Folding

\* The fold of S is that of the others, with n applied last.
TakesLast(l, creds, revs, all, p, S, n) ==
  LET q == FoldFrom(l, creds, revs, all, p, S \ {n}) IN
  n \in S /\ q \in Projections /\ FoldFrom(l, creds, revs, all, p, S) = TryApply(l, creds, revs, all, q, n)

\* The last event is applied to the fold of the others.
LEMMA FoldOfLast ==
  ASSUME NEW l, NEW creds, NEW revs, NEW all \in SUBSET Event, NEW p \in Projections,
         NEW S, Told(l, S), S # {}
  PROVE  TakesLast(l, creds, revs, all, p, S, LastOf(l, S))
<1> DEFINE n == LastOf(l, S)
<1> DEFINE R == S \ {n}
<1>1. n \in S
  BY ToldIsPlaced, LastIsLast
<1>2. Told(l, R)
  BY FS_Subset DEF Told
<1> DEFINE f == Course(l, creds, revs, all, p, S)
<1> DEFINE g == Course(l, creds, revs, all, p, R)
<1>3. /\ f \in [SUBSET S -> Projections]
      /\ Folding(f, l, creds, revs, all, p, S)
      /\ FoldFrom(l, creds, revs, all, p, S) = f[S]
  <2>1. HasCourse(l, creds, revs, all, p, S)
    BY FoldIsFolding
  <2> QED BY <2>1 DEF HasCourse
<1> HIDE DEF R
<1>4. /\ g \in [SUBSET R -> Projections]
      /\ Folding(g, l, creds, revs, all, p, R)
      /\ FoldFrom(l, creds, revs, all, p, R) = g[R]
  <2>1. HasCourse(l, creds, revs, all, p, R)
    BY <1>2, FoldIsFolding
  <2> QED BY <2>1 DEF HasCourse
<1> HIDE DEF f, g
<1> DEFINE pick == [T \in (SUBSET R) \ {{}} |-> LastOf(l, T)]
<1>5. pick \in Picks(R)
  BY <1>2, LastPicks
<1>6. R \subseteq S /\ IsFiniteSet(R)
  BY <1>2 DEF R, Told
<1>7. StayAlike(f, g, R, pick)
  <2>1. f[{}] = p /\ g[{}] = p
    BY <1>3, <1>4 DEF Folding
  <2>2. ASSUME NEW T \in SUBSET R, T # {}, f[T \ {pick[T]}] = g[T \ {pick[T]}] PROVE f[T] = g[T]
    <3> DEFINE k == pick[T]
    <3> DEFINE U == T \ {k}
    <3>1. k = LastOf(l, T) /\ T \in SUBSET S /\ f[U] = g[U]
      BY <1>6, <2>2
    <3>2. U = T \ {k}
      OBVIOUS
    <3> HIDE DEF k, U
    <3>3. f[T] = TryApply(l, creds, revs, all, f[U], k)
      BY <1>3, <2>2, <3>1, <3>2, FoldingAt
    <3>4. g[T] = TryApply(l, creds, revs, all, g[U], k)
      BY <1>4, <2>2, <3>1, <3>2, FoldingAt
    <3> QED BY <3>1, <3>3, <3>4
  <2> QED BY <2>1, <2>2 DEF StayAlike
<1> HIDE DEF pick
<1>8. f[R] = g[R]
  BY <1>5, <1>6, <1>7, FoldUnique
<1>9. f[S] = TryApply(l, creds, revs, all, f[R], n)
  BY <1>3 DEF Folding, R
<1> QED BY <1>1, <1>3, <1>4, <1>8, <1>9 DEF R, TakesLast

\* A fold leaves a projection.
LEMMA FoldTyped ==
  ASSUME NEW l, NEW creds, NEW revs, NEW all \in SUBSET Event, NEW p \in Projections,
         NEW S, Told(l, S)
  PROVE  FoldFrom(l, creds, revs, all, p, S) \in Projections
<1> DEFINE f == Course(l, creds, revs, all, p, S)
<1>1. f \in [SUBSET S -> Projections] /\ FoldFrom(l, creds, revs, all, p, S) = f[S]
  <2>1. HasCourse(l, creds, revs, all, p, S)
    BY FoldIsFolding
  <2> QED BY <2>1 DEF HasCourse
<1> HIDE DEF f
<1> QED BY <1>1

\* Every part of the told events is told.
LEMMA PartIsTold ==
  ASSUME NEW l, NEW S, Told(l, S), NEW T, T \subseteq S
  PROVE  Told(l, T)
  BY FS_Subset DEF Told

\* An event is applied or set aside, and nothing else is.
LEMMA TryApplyTakes ==
  ASSUME NEW l, NEW creds, NEW revs, NEW all \in SUBSET Event,
         NEW p \in Projections, NEW n \in Event, l[n] \in Entry
  PROVE  /\ TryApply(l, creds, revs, all, p, n).applied \subseteq p.applied \cup {n}
         /\ p.rejected \subseteq TryApply(l, creds, revs, all, p, n).rejected
<1> DEFINE q == Effect(l, all, p, n)
<1>1. q.applied \subseteq p.applied \cup {n} /\ q.rejected = p.rejected
  <2>1. ASSUME NEW S PROVE LET c == AddConflict(p, n, S) IN c.applied = p.applied /\ c.rejected = p.rejected
    BY DEF AddConflict, Projections
  <2>2. ASSUME NEW h, NEW i PROVE LET c == Stock(p, n, h, i) IN c.applied = p.applied \cup {n} /\ c.rejected = p.rejected
    BY DEF Stock, Projections
  <2>3. ASSUME NEW d, NEW s, NEW r, NEW c, NEW b
        PROVE  LET m == SetMember(p, d, s, r, c, b) IN m.applied = p.applied /\ m.rejected = p.rejected
    BY DEF SetMember, Projections
  <2>4. LET r == RevokeMember(l, p, n) IN r.applied = p.applied /\ r.rejected = p.rejected
    BY DEF RevokeMember, Projections
  <2>5. l[n].type \in EventTypes
    BY DEF Entry
  <2>6. CASE l[n].type = "INVENTORY_RECEIVED"
    BY <2>2, <2>6 DEF Effect, ReceiveStock
  <2>7. CASE l[n].type = "ITEM_ISSUED"
    <3>1. q = AddConflict(p, n, Consumers(l, p)) \/ \E h, i : q = Stock(p, n, h, i)
      BY <2>7 DEF Effect, IssueItem
    <3> HIDE DEF q
    <3> QED BY <2>1, <2>2, <3>1
  <2>8. CASE l[n].type = "INVENTORY_COUNT_SUBMITTED"
    <3>1. q = AddConflict(p, n, SameBase(l, all, n)) \/ \E h, i : q = Stock(p, n, h, i)
      BY <2>8 DEF Effect, SubmitCount
    <3> HIDE DEF q
    <3> QED BY <2>1, <2>2, <3>1
  <2>9. CASE l[n].type \in {"AUTHORITY_GRANTED", "TICKET_REDEEMED", "ROLE_CHANGED"}
    <3>1. \E b : q = SetMember(p, l[n].subject, "ACTIVE", l[n].role, n, b)
      BY <2>9 DEF Effect
    <3> HIDE DEF q
    <3> QED BY <2>3, <3>1
  <2>10. CASE l[n].type = "AUTHORITY_REVOKED"
    BY <2>4, <2>10 DEF Effect
  <2> QED BY <2>5, <2>6, <2>7, <2>8, <2>9, <2>10 DEF EventTypes, StockTypes
<1>2. q \in Projections
  BY EffectTyped
<1> HIDE DEF q
<1> DEFINE a == [q EXCEPT !.clock = IF @ < l[n].clock THEN l[n].clock ELSE @]
<1> DEFINE b == [p EXCEPT !.rejected = @ \cup {n}]
<1>3. a.applied = q.applied /\ a.rejected = q.rejected
  BY <1>2 DEF Projections
<1>4. b.applied = p.applied /\ b.rejected = p.rejected \cup {n}
  BY DEF Projections
<1>5. TryApply(l, creds, revs, all, p, n) = a \/ TryApply(l, creds, revs, all, p, n) = b
  BY DEF TryApply, q
<1> HIDE DEF a, b
<1> QED BY <1>1, <1>3, <1>4, <1>5

\* A fold applies no other events, and takes back no refusal.
LEMMA FoldTakes ==
  ASSUME NEW l, NEW creds, NEW revs, NEW all \in SUBSET Event, NEW p \in Projections,
         NEW S, Told(l, S)
  PROVE  /\ FoldFrom(l, creds, revs, all, p, S).applied \subseteq p.applied \cup S
         /\ p.rejected \subseteq FoldFrom(l, creds, revs, all, p, S).rejected
<1> DEFINE F(T) == FoldFrom(l, creds, revs, all, p, T)
<1> DEFINE P == {T \in SUBSET S : F(T).applied \subseteq p.applied \cup T /\ p.rejected \subseteq F(T).rejected}
<1> DEFINE pick == [T \in (SUBSET S) \ {{}} |-> LastOf(l, T)]
<1>1. pick \in Picks(S) /\ IsFiniteSet(S)
  BY LastPicks DEF Told
<1>2. {} \in P
  <2>1. F({}) = p
    BY FoldOfNone
  <2> QED BY <2>1
<1>3. ASSUME NEW T \in SUBSET S, T # {}, T \ {pick[T]} \in P PROVE T \in P
  <2> DEFINE n == LastOf(l, T)
  <2> DEFINE q == F(T \ {n})
  <2>1. Told(l, T)
    BY PartIsTold
  <2>2. n \in T /\ q \in Projections /\ F(T) = TryApply(l, creds, revs, all, q, n)
    <3>1. TakesLast(l, creds, revs, all, p, T, LastOf(l, T))
      BY <1>3, <2>1, FoldOfLast
    <3> QED BY <3>1 DEF TakesLast
  <2>3. q.applied \subseteq p.applied \cup (T \ {n}) /\ p.rejected \subseteq q.rejected
    BY <1>3
  <2>4. n \in Event /\ l[n] \in Entry
    BY <2>1, <2>2 DEF Told
  <2> HIDE DEF n, q, F
  <2>5. F(T).applied \subseteq q.applied \cup {n} /\ q.rejected \subseteq F(T).rejected
    <3> DEFINE r == TryApply(l, creds, revs, all, q, n)
    <3>1. r.applied \subseteq q.applied \cup {n} /\ q.rejected \subseteq r.rejected
      BY <2>2, <2>4, TryApplyTakes
    <3> HIDE DEF r
    <3>2. F(T) = r
      BY <2>2 DEF r
    <3> QED BY <3>1, <3>2
  <2> QED BY <2>2, <2>3, <2>5
<1> HIDE DEF P, pick
<1>4. S \in P
  BY <1>1, <1>2, <1>3, TakenOneByOne
<1> QED BY <1>4 DEF P

\* Two histories, authorities or stores of events judge alike what is in S, as long as
\* the first refuses no more than X.
Alike(l, creds, revs, all, l2, creds2, revs2, all2, A, S, X) ==
  /\ \A m, n \in S : Before(l, m, n) <=> Before(l2, m, n)
  /\ \A q \in Projections, n \in S :
       q.applied \subseteq A /\ TryApply(l, creds, revs, all, q, n).rejected \subseteq X
         => TryApply(l2, creds2, revs2, all2, q, n) = TryApply(l, creds, revs, all, q, n)

\* What judges alike folds alike.
LEMMA FoldsAgree ==
  ASSUME NEW l, NEW creds, NEW revs, NEW all \in SUBSET Event,
         NEW l2, NEW creds2, NEW revs2, NEW all2 \in SUBSET Event,
         NEW p \in Projections, NEW S, Told(l, S), Told(l2, S), NEW X,
         Alike(l, creds, revs, all, l2, creds2, revs2, all2, p.applied \cup S, S, X),
         FoldFrom(l, creds, revs, all, p, S).rejected \subseteq X
  PROVE  FoldFrom(l2, creds2, revs2, all2, p, S) = FoldFrom(l, creds, revs, all, p, S)
<1> DEFINE F(T) == FoldFrom(l, creds, revs, all, p, T)
<1> DEFINE G(T) == FoldFrom(l2, creds2, revs2, all2, p, T)
<1> DEFINE P == {T \in SUBSET S : F(T).rejected \subseteq X => G(T) = F(T)}
<1> DEFINE pick == [T \in (SUBSET S) \ {{}} |-> LastOf(l, T)]
<1>1. pick \in Picks(S) /\ IsFiniteSet(S)
  BY LastPicks DEF Told
<1>2. {} \in P
  <2>1. F({}) = p /\ G({}) = p
    BY FoldOfNone
  <2> QED BY <2>1
<1>3. ASSUME NEW T \in SUBSET S, T # {}, T \ {pick[T]} \in P PROVE T \in P
  <2> SUFFICES ASSUME F(T).rejected \subseteq X PROVE G(T) = F(T)
    OBVIOUS
  <2> DEFINE n == LastOf(l, T)
  <2> DEFINE R == T \ {n}
  <2>1. Told(l, T) /\ Told(l2, T)
    BY PartIsTold
  <2>2. n \in T /\ \A m \in T \ {n} : Before(l, m, n)
    BY <1>3, ToldIsPlaced, LastIsLast
  <2>3. LastOf(l2, T) = n
    <3>1. \A m \in T \ {n} : Before(l2, m, n)
      BY <2>2 DEF Alike
    <3> HIDE DEF n
    <3> QED BY <2>2, <3>1, ToldIsPlaced, LastIsUnique
  <2>4. F(R) \in Projections /\ F(T) = TryApply(l, creds, revs, all, F(R), n)
    <3>1. TakesLast(l, creds, revs, all, p, T, LastOf(l, T))
      BY <1>3, <2>1, FoldOfLast
    <3> QED BY <3>1 DEF TakesLast
  <2>5. G(T) = TryApply(l2, creds2, revs2, all2, G(R), n)
    <3>1. TakesLast(l2, creds2, revs2, all2, p, T, LastOf(l2, T))
      BY <1>3, <2>1, FoldOfLast
    <3> QED BY <2>3, <3>1 DEF TakesLast
  <2>6. n \in Event /\ l[n] \in Entry /\ n \in S /\ R \subseteq S
    BY <2>1, <2>2 DEF Told
  <2>7. R \in P
    BY <1>3
  <2>8. Told(l, R)
    BY <2>6, PartIsTold
  <2> HIDE DEF n, R
  <2>9. F(R).rejected \subseteq X
    <3>1. F(R).rejected \subseteq F(T).rejected
      <4> DEFINE q == F(R)
      <4> DEFINE r == TryApply(l, creds, revs, all, q, n)
      <4>1. q \in Projections /\ F(T) = r
        BY <2>4
      <4> HIDE DEF q, F
      <4>2. q.rejected \subseteq r.rejected
        BY <2>6, <4>1, TryApplyTakes
      <4> HIDE DEF r
      <4>3. q.rejected \subseteq F(T).rejected
        BY <4>1, <4>2
      <4> QED BY <4>3 DEF q
    <3> QED BY <3>1
  <2>10. F(R).applied \subseteq p.applied \cup S
    <3>1. F(R).applied \subseteq p.applied \cup R
      BY <2>8, FoldTakes
    <3> QED BY <2>6, <3>1
  <2>11. G(R) = F(R)
    BY <2>7, <2>9
  <2> HIDE DEF F, G, P
  <2> QED BY <2>4, <2>5, <2>6, <2>10, <2>11 DEF Alike
<1> HIDE DEF P, pick
<1>4. S \in P
  BY <1>1, <1>2, <1>3, TakenOneByOne
<1> QED BY <1>4 DEF P

\* What comes after A is folded on top of the fold of A.
LEMMA FoldSplits ==
  ASSUME NEW l, NEW creds, NEW revs, NEW all \in SUBSET Event, NEW p \in Projections,
         NEW A, NEW B, Told(l, A \cup B), \A a \in A, b \in B : Before(l, a, b)
  PROVE  FoldFrom(l, creds, revs, all, p, A \cup B)
           = FoldFrom(l, creds, revs, all, FoldFrom(l, creds, revs, all, p, A), B)
<1> DEFINE q == FoldFrom(l, creds, revs, all, p, A)
<1> DEFINE F(T) == FoldFrom(l, creds, revs, all, p, A \cup T)
<1> DEFINE G(T) == FoldFrom(l, creds, revs, all, q, T)
<1> DEFINE P == {T \in SUBSET B : F(T) = G(T)}
<1> DEFINE pick == [T \in (SUBSET B) \ {{}} |-> LastOf(l, T)]
<1>1. Told(l, A) /\ Told(l, B)
  BY PartIsTold
<1>2. pick \in Picks(B) /\ IsFiniteSet(B) /\ q \in Projections
  BY <1>1, LastPicks, FoldTyped DEF Told
<1> HIDE DEF q
<1>3. {} \in P
  <2>1. G({}) = q
    BY <1>2, FoldOfNone
  <2>2. F({}) = q
    BY DEF q
  <2> QED BY <2>1, <2>2
<1>4. ASSUME NEW T \in SUBSET B, T # {}, T \ {pick[T]} \in P PROVE T \in P
  <2> DEFINE n == LastOf(l, T)
  <2> DEFINE R == T \ {n}
  <2>1. Told(l, T) /\ Told(l, A \cup T)
    BY PartIsTold
  <2>2. n \in T /\ \A m \in T \ {n} : Before(l, m, n)
    BY <1>4, <2>1, ToldIsPlaced, LastIsLast
  <2>3. n \notin A
    <3>1. Placed(l, A \cup T) /\ n \in A \cup T
      BY <2>1, <2>2, ToldIsPlaced
    <3>2. ~ Before(l, n, n)
      BY <3>1, OrderIsTotal
    <3> QED BY <2>2, <3>2
  <2>4. LastOf(l, A \cup T) = n
    <3>1. \A m \in (A \cup T) \ {n} : Before(l, m, n)
      BY <2>2
    <3>2. Placed(l, A \cup T) /\ n \in A \cup T
      BY <2>1, <2>2, ToldIsPlaced
    <3> HIDE DEF n
    <3> DEFINE U == A \cup T
    <3>3. U \in SUBSET U /\ n \in U /\ \A m \in U \ {n} : Before(l, m, n)
      BY <3>1, <3>2
    <3>4. Placed(l, U)
      BY <3>2
    <3> HIDE DEF U
    <3>5. LastOf(l, U) = n
      BY <3>3, <3>4, LastIsUnique
    <3> QED BY <3>5 DEF U
  <2>5. (A \cup T) \ {n} = A \cup R
    BY <2>3
  <2>6. F(T) = TryApply(l, creds, revs, all, F(R), n)
    <3> DEFINE U == A \cup T
    <3>1. Told(l, U) /\ U # {}
      BY <1>4, <2>1
    <3>2. LastOf(l, U) = n /\ U \ {n} = A \cup R
      BY <2>4, <2>5
    <3> HIDE DEF U, n
    <3>3. FoldFrom(l, creds, revs, all, p, U)
            = TryApply(l, creds, revs, all, FoldFrom(l, creds, revs, all, p, U \ {n}), n)
      <4>1. TakesLast(l, creds, revs, all, p, U, LastOf(l, U))
        BY <3>1, FoldOfLast
      <4> QED BY <3>2, <4>1 DEF TakesLast
    <3> QED BY <3>2, <3>3 DEF U
  <2>7. G(T) = TryApply(l, creds, revs, all, G(R), n)
    <3>1. TakesLast(l, creds, revs, all, q, T, LastOf(l, T))
      BY <1>2, <1>4, <2>1, FoldOfLast
    <3> QED BY <3>1 DEF TakesLast
  <2>8. F(R) = G(R)
    BY <1>4
  <2> HIDE DEF F, G, n, R
  <2>9. F(T) = G(T)
    BY <2>6, <2>7, <2>8
  <2> QED BY <2>9
<1> HIDE DEF P, pick
<1>5. B \in P
  BY <1>2, <1>3, <1>4, TakenOneByOne
<1> QED BY <1>5 DEF P, q

-----------------------------------------------------------------------------
(* What was folded stays folded: events that come later in the order, and  *)
(* credentials accepted since, change nothing in a fold that set nothing   *)
(* aside.                                                                  *)

\* The second history says the same of the events of S.
SaysAlike(l, l2, S) == \A n \in S : l2[n] = l[n]

\* All events of A come before those of B.
AllBefore(l, A, B) == \A a \in A, b \in B : Before(l, a, b)

\* A credential that is active stays so, and authorizes what it did.
LEMMA StaysAllowed ==
  ASSUME NEW l, NEW l2, NEW creds, NEW creds2, creds \subseteq creds2, NEW revs,
         SaysAlike(l, l2, creds), NEW device, NEW type, NEW at,
         Allowed(l, creds, revs, device, type, at)
  PROVE  Allowed(l2, creds2, revs, device, type, at)
<1>1. PICK c \in creds : /\ l[c].subject = device /\ l[c].role \in RolesFor(type)
                         /\ CredentialActiveAt(revs, c, at)
                         /\ ChainValid(l, creds, revs, c)
  BY DEF Allowed
<1>2. ChainValid(l2, creds2, revs, c)
  BY <1>1 DEF ChainValid, IssuerCanAuthorize, SaysAlike
<1> QED BY <1>1, <1>2 DEF Allowed, SaysAlike

\* So does the one that came with the event itself.
LEMMA StaysValid ==
  ASSUME NEW l, NEW l2, NEW creds, NEW creds2, creds \subseteq creds2, NEW revs,
         SaysAlike(l, l2, creds), NEW n, l2[n] = l[n], ChainValid(l, creds, revs, n)
  PROVE  ChainValid(l2, creds2, revs, n)
BY DEF ChainValid, IssuerCanAuthorize, SaysAlike

\* An event does the same, whatever else is stored that does not come before it.
LEMMA SameEffect ==
  ASSUME NEW l, NEW l2, NEW all, NEW all2, all \subseteq all2, SaysAlike(l, l2, all),
         NEW q, SaysAlike(l, l2, q.applied),
         NEW n, l2[n] = l[n], \A m \in all2 \ all : ~ Before(l2, m, n)
  PROVE  Effect(l2, all2, q, n) = Effect(l, all, q, n)
<1>1. SameBase(l2, all2, n) = SameBase(l, all, n)
  <2>1. \A m \in all : Before(l2, m, n) <=> Before(l, m, n)
    BY DEF SaysAlike, Before
  <2> QED BY <2>1 DEF SameBase, SaysAlike
<1>2. Consumers(l2, q) = Consumers(l, q)
  BY DEF Consumers, SaysAlike
<1>3. SubmitCount(l2, all2, q, n) = SubmitCount(l, all, q, n)
  BY <1>1 DEF SubmitCount
<1>4. IssueItem(l2, q, n) = IssueItem(l, q, n)
  BY <1>2 DEF IssueItem
<1>5. ReceiveStock(l2, q, n) = ReceiveStock(l, q, n) /\ RevokeMember(l2, q, n) = RevokeMember(l, q, n)
  BY DEF ReceiveStock, RevokeMember
<1> QED BY <1>3, <1>4, <1>5 DEF Effect

\* What was applied is applied again.
LEMMA StaysApplied ==
  ASSUME NEW l, NEW l2, NEW creds, NEW creds2, creds \subseteq creds2, NEW revs,
         SaysAlike(l, l2, creds),
         NEW all, NEW all2, all \subseteq all2, SaysAlike(l, l2, all),
         NEW q, SaysAlike(l, l2, q.applied),
         NEW n, l2[n] = l[n], \A m \in all2 \ all : ~ Before(l2, m, n),
         TryApply(l, creds, revs, all, q, n).rejected = {}, q \in Projections
  PROVE  TryApply(l2, creds2, revs, all2, q, n) = TryApply(l, creds, revs, all, q, n)
<1>1. AuthorMay(l, creds, revs, q, n) /\ Applicable(l, creds, revs, q, n)
  <2>1. SUFFICES ASSUME ~ (AuthorMay(l, creds, revs, q, n) /\ Applicable(l, creds, revs, q, n)) PROVE FALSE
    OBVIOUS
  <2>2. TryApply(l, creds, revs, all, q, n) = [q EXCEPT !.rejected = @ \cup {n}]
    BY <2>1 DEF TryApply
  <2>3. [q EXCEPT !.rejected = @ \cup {n}].rejected = q.rejected \cup {n}
    BY DEF Projections
  <2> QED BY <2>2, <2>3
<1>2. AuthorMay(l2, creds2, revs, q, n)
  <2>1. \A device, type, at : Allowed(l, creds, revs, device, type, at)
                                => Allowed(l2, creds2, revs, device, type, at)
    BY StaysAllowed
  <2> QED BY <1>1, <2>1 DEF AuthorMay
<1>3. Applicable(l2, creds2, revs, q, n)
  <2>1. ChainValid(l, creds, revs, n) => ChainValid(l2, creds2, revs, n)
    BY StaysValid
  <2> QED BY <1>1, <2>1 DEF Applicable
<1>4. Effect(l2, all2, q, n) = Effect(l, all, q, n)
  BY SameEffect
<1> QED BY <1>1, <1>2, <1>3, <1>4 DEF TryApply

\* A fold from the beginning that sets nothing aside is the one that a device makes of
\* the same events later, when it holds more credentials and stores more events.
LEMMA StaysFolded ==
  ASSUME NEW l, NEW l2, NEW creds, NEW creds2, creds \subseteq creds2, NEW revs,
         SaysAlike(l, l2, creds),
         NEW S \in SUBSET Event, NEW all2 \in SUBSET Event, S \subseteq all2,
         Told(l, S), Told(l2, S), SaysAlike(l, l2, S),
         \A m \in all2 \ S, n \in S : ~ Before(l2, m, n),
         Rebuild(l, creds, revs, S).rejected = {}
  PROVE  FoldFrom(l2, creds2, revs, all2, Genesis, S) = Rebuild(l, creds, revs, S)
<1>1. Alike(l, creds, revs, S, l2, creds2, revs, all2, S, S, {})
  <2>1. ASSUME NEW m \in S, NEW n \in S PROVE Before(l, m, n) <=> Before(l2, m, n)
    BY DEF SaysAlike, Before
  <2>2. ASSUME NEW q \in Projections, NEW n \in S, q.applied \subseteq S,
               TryApply(l, creds, revs, S, q, n).rejected \subseteq {}
        PROVE  TryApply(l2, creds2, revs, all2, q, n) = TryApply(l, creds, revs, S, q, n)
    <3>1. SaysAlike(l, l2, q.applied) /\ l2[n] = l[n] /\ \A m \in all2 \ S : ~ Before(l2, m, n)
      BY <2>2 DEF SaysAlike
    <3>2. TryApply(l, creds, revs, S, q, n).rejected = {}
      BY <2>2
    <3> QED BY <3>1, <3>2, StaysApplied
  <2> QED BY <2>1, <2>2 DEF Alike
<1>2. Genesis \in Projections /\ Genesis.applied = {}
  BY GenesisTyped DEF Genesis
<1>3. Alike(l, creds, revs, S, l2, creds2, revs, all2, Genesis.applied \cup S, S, {})
  <2>1. Genesis.applied \cup S = S
    BY <1>2
  <2> QED BY <1>1, <2>1
<1>4. FoldFrom(l, creds, revs, S, Genesis, S).rejected \subseteq {}
  BY DEF Rebuild
<1>5. FoldFrom(l2, creds2, revs, all2, Genesis, S) = FoldFrom(l, creds, revs, S, Genesis, S)
  BY <1>2, <1>3, <1>4, FoldsAgree
<1> QED BY <1>5 DEF Rebuild

\* Folding what is new on top of what was folded is folding everything from the
\* beginning, when it all comes later and nothing was set aside (the comment above
\* `integrate`): even though credentials were accepted in between.
THEOREM ExtendingIsFolding ==
  ASSUME NEW l, NEW creds, NEW creds2, creds \subseteq creds2, NEW revs,
         NEW old \in SUBSET Event, NEW fresh \in SUBSET Event, Told(l, old \cup fresh),
         AllBefore(l, old, fresh), NEW p, p = Rebuild(l, creds, revs, old), p.rejected = {}
  PROVE  FoldFrom(l, creds2, revs, old \cup fresh, p, fresh) = Rebuild(l, creds2, revs, old \cup fresh)
<1> DEFINE all == old \cup fresh
<1>1. Told(l, old) /\ Placed(l, all)
  BY PartIsTold, ToldIsPlaced
<1>2. \A m \in all \ old, n \in old : ~ Before(l, m, n)
  BY <1>1, OrderIsTotal DEF AllBefore
<1>3. all \in SUBSET Event /\ old \subseteq all
  OBVIOUS
<1> HIDE DEF all
<1>4. SaysAlike(l, l, creds) /\ SaysAlike(l, l, old)
  BY DEF SaysAlike
<1>5. FoldFrom(l, creds2, revs, all, Genesis, old) = p
  BY <1>1, <1>2, <1>3, <1>4, StaysFolded
<1>6. FoldFrom(l, creds2, revs, all, Genesis, old \cup fresh)
        = FoldFrom(l, creds2, revs, all, FoldFrom(l, creds2, revs, all, Genesis, old), fresh)
  BY <1>3, FoldSplits, GenesisTyped DEF AllBefore
<1> QED BY <1>5, <1>6 DEF Rebuild, all

-----------------------------------------------------------------------------
(* What one device does with new events.                                   *)

\* The last of some events and of later ones is the last of the later ones.
LEMMA LastOfLater ==
  ASSUME NEW l, NEW A, NEW B, Placed(l, A \cup B), B # {}, AllBefore(l, A, B)
  PROVE  LastOf(l, A \cup B) = LastOf(l, B)
<1> DEFINE U == A \cup B
<1> DEFINE n == LastOf(l, B)
<1>1. B \in SUBSET U /\ Placed(l, U)
  OBVIOUS
<1>2. n \in B /\ \A m \in B \ {n} : Before(l, m, n)
  <2> HIDE DEF U
  <2> QED BY <1>1, LastIsLast
<1>3. n \in U /\ \A m \in U \ {n} : Before(l, m, n)
  BY <1>2 DEF AllBefore
<1> HIDE DEF U, n
<1>4. U \in SUBSET U
  OBVIOUS
<1>5. LastOf(l, U) = n
  BY <1>1, <1>3, <1>4, LastIsUnique
<1> QED BY <1>5 DEF U, n

\* Events whose first comes after the last of some others come after all of those.
LEMMA FirstAfterLast ==
  ASSUME NEW l, NEW A, NEW B, Placed(l, A \cup B), A # {}, B # {},
         Before(l, LastOf(l, A), FirstOf(l, B))
  PROVE  AllBefore(l, A, B)
<1> DEFINE U == A \cup B
<1>1. A \in SUBSET U /\ B \in SUBSET U /\ Placed(l, U)
  OBVIOUS
<1> HIDE DEF U
<1>2. LastOf(l, A) \in A /\ \A m \in A \ {LastOf(l, A)} : Before(l, m, LastOf(l, A))
  BY <1>1, LastIsLast
<1>3. FirstOf(l, B) \in B /\ \A m \in B \ {FirstOf(l, B)} : Before(l, FirstOf(l, B), m)
  BY <1>1, FirstIsFirst
<1> DEFINE a == LastOf(l, A)
<1> DEFINE b == FirstOf(l, B)
<1> HIDE DEF a, b
<1>4. a \in U /\ b \in U /\ Before(l, a, b)
  BY <1>1, <1>2, <1>3 DEF a, b
<1>5. ASSUME NEW m \in A, NEW n \in B PROVE Before(l, m, n)
  <2>1. m \in U /\ n \in U
    BY <1>1
  <2>2. m = a \/ Before(l, m, a)
    BY <1>2 DEF a
  <2>3. n = b \/ Before(l, b, n)
    BY <1>3 DEF b
  <2>4. Before(l, m, b)
    BY <1>1, <1>4, <2>1, <2>2, OrderIsTotal
  <2> QED BY <1>1, <1>4, <2>1, <2>3, <2>4, OrderIsTotal
<1> QED BY <1>5 DEF AllBefore

\* lastKey belongs to the last event that the device knows.
KeyOf(l, S) == IF S = {} THEN NoEvent ELSE LastOf(l, S)
KeyIsLast(d) == lastKey[d] = KeyOf(log, known[d])

\* New events extend the history only from behind.
LEMMA ExtendsFromBehind ==
  ASSUME NEW d, NEW fresh, fresh # {}, Told(log, known[d] \cup fresh), KeyIsLast(d),
         ExtendsHistory(d, fresh)
  PROVE  AllBefore(log, known[d], fresh)
<1>1. CASE known[d] = {}
  BY <1>1 DEF AllBefore
<1>2. CASE known[d] # {}
  <2>1. Placed(log, known[d] \cup fresh)
    BY ToldIsPlaced
  <2>2. lastKey[d] = LastOf(log, known[d])
    BY <1>2 DEF KeyIsLast, KeyOf
  <2>3. Told(log, known[d])
    BY PartIsTold
  <2>4. LastOf(log, known[d]) \in known[d]
    BY <1>2, <2>3, ToldIsPlaced, LastIsLast
  <2>5. lastKey[d] # NoEvent
    BY <2>2, <2>3, <2>4 DEF Told, Event, NoEvent
  <2>6. Before(log, LastOf(log, known[d]), FirstOf(log, fresh))
    BY <2>2, <2>5 DEF ExtendsHistory
  <2> QED BY <1>2, <2>1, <2>6, FirstAfterLast
<1> QED BY <1>1, <1>2

\* A device that folded what it knew with the credentials of that moment has, after
\* `integrate`, the fold of everything with the credentials of now.
LEMMA IntegratedIsFolded ==
  ASSUME NEW d, NEW fresh, fresh # {}, Told(log, known[d] \cup fresh), KeyIsLast(d),
         NEW creds, creds \subseteq auth[d].creds,
         projection[d] = Rebuild(log, creds, auth[d].revs, known[d])
  PROVE  Integrated(d, fresh) = Folded(d, known[d] \cup fresh)
<1>1. CASE ~ ExtendsHistory(d, fresh)
  BY <1>1 DEF Integrated
<1>2. CASE ExtendsHistory(d, fresh)
  <2> DEFINE old == known[d]
  <2> DEFINE p == projection[d]
  <2> DEFINE creds2 == auth[d].creds
  <2> DEFINE revs == auth[d].revs
  <2>1. p.rejected = {} /\ AllBefore(log, old, fresh)
    BY <1>2, ExtendsFromBehind DEF ExtendsHistory
  <2>2. old \in SUBSET Event /\ fresh \in SUBSET Event
    BY DEF Told
  <2>3. creds \subseteq creds2 /\ p = Rebuild(log, creds, revs, old) /\ Told(log, old \cup fresh)
    OBVIOUS
  <2>4. Integrated(d, fresh) = FoldFrom(log, creds2, revs, old \cup fresh, p, fresh)
    BY <1>2 DEF Integrated
  <2>5. Folded(d, old \cup fresh) = Rebuild(log, creds2, revs, old \cup fresh)
    BY DEF Folded
  <2> HIDE DEF old, p, creds2, revs
  <2>6. FoldFrom(log, creds2, revs, old \cup fresh, p, fresh) = Rebuild(log, creds2, revs, old \cup fresh)
    BY <2>1, <2>2, <2>3, ExtendingIsFolding
  <2> QED BY <2>4, <2>5, <2>6 DEF old
<1> QED BY <1>1, <1>2

\* Storing keeps the key of the last event.
LEMMA KeyStaysLast ==
  ASSUME NEW d \in Device, NEW fresh, fresh # {}, Told(log, known[d] \cup fresh), KeyIsLast(d)
  PROVE  KeyOf(log, known[d] \cup fresh) = LastOf(log, IF ExtendsHistory(d, fresh) THEN fresh ELSE known[d] \cup fresh)
<1>1. KeyOf(log, known[d] \cup fresh) = LastOf(log, known[d] \cup fresh)
  BY DEF KeyOf
<1>2. CASE ExtendsHistory(d, fresh)
  <2>1. LastOf(log, known[d] \cup fresh) = LastOf(log, fresh)
    BY <1>2, ExtendsFromBehind, LastOfLater, ToldIsPlaced
  <2> QED BY <1>1, <1>2, <2>1
<1> QED BY <1>1, <1>2

-----------------------------------------------------------------------------
(* A device takes its records by event ID: each place in that order has    *)
(* its record.                                                             *)

RanksTaken(l, S) ==
  \A i \in 1 .. Cardinality(S) : \E n \in S : Cardinality({m \in S : Before(l, m, n)}) = i - 1

\* In a finite set in total order, there is an element with any number before it.
LEMMA RankTaken ==
  ASSUME NEW l, NEW S, Placed(l, S)
  PROVE  RanksTaken(l, S)
<1> DEFINE P == {T \in SUBSET S : \A i \in 1 .. Cardinality(T) :
                   \E n \in T : Cardinality({m \in T : Before(l, m, n)}) = i - 1}
<1> DEFINE pick == [T \in (SUBSET S) \ {{}} |-> LastOf(l, T)]
<1>1. IsFiniteSet(S)
  BY DEF Placed
<1>2. pick \in Picks(S)
  <2>1. \A T \in (SUBSET S) \ {{}} : LastOf(l, T) \in T
    BY LastIsLast
  <2> QED BY <2>1 DEF Picks
<1>3. {} \in P
  <2>1. Cardinality({}) = 0
    BY FS_EmptySet
  <2> QED BY <2>1
<1>4. ASSUME NEW T \in SUBSET S, T # {}, T \ {pick[T]} \in P PROVE T \in P
  <2> DEFINE k == LastOf(l, T)
  <2> DEFINE R == T \ {k}
  <2>1. k \in T /\ \A m \in R : Before(l, m, k)
    BY <1>4, LastIsLast
  <2>2. R \in P
    BY <1>4
  <2>3. IsFiniteSet(T) /\ Cardinality(R) = Cardinality(T) - 1 /\ Cardinality(T) \in Nat
    BY <1>1, <2>1, FS_Subset, FS_RemoveElement, FS_CardinalityType
  <2>4. R = T \ {k}
    OBVIOUS
  <2> HIDE DEF k, R
  <2>5. ASSUME NEW i \in 1 .. Cardinality(T) PROVE \E n \in T : Cardinality({m \in T : Before(l, m, n)}) = i - 1
    <3>1. CASE i = Cardinality(T)
      <4>1. ~ Before(l, k, k)
        BY <2>1, OrderIsTotal
      <4>2. {m \in T : Before(l, m, k)} = R
        BY <2>1, <2>4, <4>1
      <4> QED BY <2>1, <2>3, <3>1, <4>2
    <3>2. CASE i # Cardinality(T)
      <4>1. i \in 1 .. Cardinality(R)
        BY <2>3, <3>2
      <4>2. PICK n \in R : Cardinality({m \in R : Before(l, m, n)}) = i - 1
        BY <2>2, <4>1
      <4>3. ~ Before(l, k, n) /\ n \in T
        BY <2>1, <2>4, OrderIsTotal
      <4>4. {m \in T : Before(l, m, n)} = {m \in R : Before(l, m, n)}
        BY <2>4, <4>3
      <4> QED BY <4>2, <4>3, <4>4
    <3> QED BY <3>1, <3>2
  <2> QED BY <2>5
<1> HIDE DEF P, pick
<1>5. S \in P
  BY <1>1, <1>2, <1>3, <1>4, TakenOneByOne
<1> QED BY <1>5 DEF P, RanksTaken

\* And the later of two has more before it.
LEMMA RanksRise ==
  ASSUME NEW l, NEW S, Placed(l, S), NEW n \in S
  PROVE  /\ Cardinality({m \in S : Before(l, m, n)}) \in 0 .. Cardinality(S) - 1
         /\ \A k \in S : k # n => Cardinality({m \in S : Before(l, m, k)}) # Cardinality({m \in S : Before(l, m, n)})
<1> DEFINE B(k) == {m \in S : Before(l, m, k)}
<1>1. IsFiniteSet(S) /\ Cardinality(S) \in Nat
  BY FS_CardinalityType DEF Placed
<1>2. ASSUME NEW k \in S
      PROVE  /\ B(k) \subseteq S /\ k \notin B(k) /\ IsFiniteSet(B(k)) /\ Cardinality(B(k)) \in Nat
             /\ IsFiniteSet(B(k) \cup {k}) /\ Cardinality(B(k) \cup {k}) = Cardinality(B(k)) + 1
  <2>1. B(k) \subseteq S /\ k \notin B(k)
    BY OrderIsTotal
  <2> HIDE DEF B
  <2> QED BY <1>1, <2>1, FS_Subset, FS_CardinalityType, FS_AddElement
<1>3. ASSUME NEW k \in S, NEW j \in S, Before(l, k, j) PROVE Cardinality(B(k)) < Cardinality(B(j))
  <2>1. B(k) \cup {k} \subseteq B(j)
    BY <1>3, OrderIsTotal
  <2>2. IsFiniteSet(B(j)) /\ Cardinality(B(j)) \in Nat
    BY <1>2
  <2>3. Cardinality(B(k)) \in Nat /\ Cardinality(B(k) \cup {k}) = Cardinality(B(k)) + 1
    BY <1>2
  <2> HIDE DEF B
  <2>4. Cardinality(B(k) \cup {k}) <= Cardinality(B(j))
    BY <2>1, <2>2, FS_Subset
  <2> QED BY <2>2, <2>3, <2>4
<1>4. Cardinality(B(n)) \in 0 .. Cardinality(S) - 1
  <2>1. B(n) \cup {n} \subseteq S
    BY <1>2
  <2>2. Cardinality(B(n)) \in Nat /\ Cardinality(B(n) \cup {n}) = Cardinality(B(n)) + 1
    BY <1>2
  <2> HIDE DEF B
  <2>3. Cardinality(B(n) \cup {n}) <= Cardinality(S)
    BY <1>1, <2>1, FS_Subset
  <2> QED BY <1>1, <2>2, <2>3
<1>5. ASSUME NEW k \in S, k # n PROVE Cardinality(B(k)) # Cardinality(B(n))
  <2>1. Before(l, k, n) \/ Before(l, n, k)
    BY <1>5, OrderIsTotal
  <2>2. Cardinality(B(k)) \in Nat /\ Cardinality(B(n)) \in Nat
    BY <1>2
  <2>3. Cardinality(B(k)) < Cardinality(B(n)) \/ Cardinality(B(n)) < Cardinality(B(k))
    BY <1>3, <2>1
  <2> HIDE DEF B
  <2> QED BY <2>2, <2>3
<1> QED BY <1>4, <1>5

\* The records by event ID are all there, each at its place.
LEMMA ByIdListed ==
  ASSUME NEW S, Told(log, S)
  PROVE  /\ ById(S) \in Seq(S)
         /\ S # {} => ById(S) # <<>>
         /\ ToSet(ById(S)) = S
<1> DEFINE l == [n \in S |-> [clock |-> 0, author |-> log[n].author]]
<1> DEFINE Earlier(m, n) == \/ log[m].author < log[n].author
                            \/ log[m].author = log[n].author /\ m < n
<1>1. Placed(log, S) /\ IsFiniteSet(S)
  BY ToldIsPlaced DEF Told
<1>2. Placed(l, S)
  BY <1>1 DEF Placed
<1>3. \A m, n \in S : Before(l, m, n) <=> Earlier(m, n)
  BY DEF Before
<1> HIDE DEF l
<1>4. Cardinality(S) \in Nat
  BY <1>1, FS_CardinalityType
<1> DEFINE at == [i \in 1 .. Cardinality(S) |-> CHOOSE n \in S : Cardinality({m \in S : Earlier(m, n)}) = i - 1]
<1>5. ASSUME NEW i \in 1 .. Cardinality(S) PROVE at[i] \in S
  <2>0. RanksTaken(l, S)
    BY <1>2, RankTaken
  <2>1. PICK n \in S : Cardinality({m \in S : Before(l, m, n)}) = i - 1
    BY <2>0 DEF RanksTaken
  <2>2. {m \in S : Before(l, m, n)} = {m \in S : Earlier(m, n)}
    BY <1>3
  <2>3. \E k \in S : Cardinality({m \in S : Earlier(m, k)}) = i - 1
    BY <2>1, <2>2
  <2> HIDE DEF Earlier
  <2> QED BY <2>3
<1>6. ById(S) = at
  BY DEF ById
<1>7. at \in [1 .. Cardinality(S) -> S]
  <2> HIDE DEF Earlier
  <2> QED BY <1>5
<1> HIDE DEF at
<1>8. at \in Seq(S) /\ Len(at) = Cardinality(S)
  BY <1>4, <1>7
<1>9. S # {} => Cardinality(S) # 0
  BY <1>1, FS_EmptySet
<1>10. \A n \in S : \E i \in 1 .. Cardinality(S) : at[i] = n
  <2> SUFFICES ASSUME NEW n \in S PROVE \E i \in 1 .. Cardinality(S) : at[i] = n
    OBVIOUS
  <2> DEFINE rank(k) == Cardinality({m \in S : Earlier(m, k)})
  <2>1. \A k \in S : {m \in S : Before(l, m, k)} = {m \in S : Earlier(m, k)}
    BY <1>3
  <2>2. rank(n) \in 0 .. Cardinality(S) - 1 /\ \A k \in S : k # n => rank(k) # rank(n)
    <3>1. /\ Cardinality({m \in S : Before(l, m, n)}) \in 0 .. Cardinality(S) - 1
          /\ \A k \in S : k # n => Cardinality({m \in S : Before(l, m, k)}) # Cardinality({m \in S : Before(l, m, n)})
      BY <1>2, RanksRise
    <3> HIDE DEF Earlier
    <3> QED BY <2>1, <3>1
  <2>3. \A i \in 1 .. Cardinality(S) : at[i] = CHOOSE k \in S : rank(k) = i - 1
    BY DEF at
  <2> HIDE DEF rank
  <2>4. PICK i \in 1 .. Cardinality(S) : i - 1 = rank(n)
    <3>1. rank(n) + 1 \in 1 .. Cardinality(S) /\ (rank(n) + 1) - 1 = rank(n)
      BY <1>4, <2>2
    <3> QED BY <3>1
  <2>5. \A k \in S : rank(k) = i - 1 <=> k = n
    BY <2>2, <2>4
  <2>6. at[i] = n
    BY <2>3, <2>5
  <2> QED BY <2>6
<1>11. ToSet(at) = S
  <2>1. DOMAIN at = 1 .. Cardinality(S)
    BY <1>7
  <2> QED BY <1>7, <1>10, <2>1 DEF ToSet
<1> QED BY <1>6, <1>8, <1>9, <1>11

\* The elements of two lists, one behind the other.
LEMMA SetOfBoth ==
  ASSUME NEW S, NEW s \in Seq(S), NEW t \in Seq(S)
  PROVE  ToSet(s \o t) = ToSet(s) \cup ToSet(t)
<1>1. /\ Len(s \o t) = Len(s) + Len(t) /\ DOMAIN (s \o t) = 1 .. Len(s) + Len(t)
      /\ \A i \in 1 .. Len(s) + Len(t) : (s \o t)[i] = IF i <= Len(s) THEN s[i] ELSE t[i - Len(s)]
  BY ConcatProperties
<1>2. Len(s) \in Nat /\ Len(t) \in Nat /\ DOMAIN s = 1 .. Len(s) /\ DOMAIN t = 1 .. Len(t)
  OBVIOUS
<1>3. ASSUME NEW v \in ToSet(s \o t) PROVE v \in ToSet(s) \cup ToSet(t)
  <2>1. PICK i \in 1 .. Len(s) + Len(t) : v = (s \o t)[i]
    BY <1>1 DEF ToSet
  <2>2. CASE i <= Len(s)
    BY <1>1, <1>2, <2>1, <2>2 DEF ToSet
  <2>3. CASE i > Len(s)
    <3>1. v = t[i - Len(s)] /\ i - Len(s) \in 1 .. Len(t)
      BY <1>1, <1>2, <2>1, <2>3
    <3> QED BY <1>2, <3>1 DEF ToSet
  <2> QED BY <1>2, <2>2, <2>3
<1>4. ASSUME NEW v \in ToSet(s) PROVE v \in ToSet(s \o t)
  <2>1. PICK i \in 1 .. Len(s) : v = s[i]
    BY <1>2 DEF ToSet
  <2>2. i \in 1 .. Len(s) + Len(t) /\ v = (s \o t)[i]
    BY <1>1, <1>2, <2>1
  <2> QED BY <1>1, <2>2 DEF ToSet
<1>5. ASSUME NEW v \in ToSet(t) PROVE v \in ToSet(s \o t)
  <2>1. PICK i \in 1 .. Len(t) : v = t[i]
    BY <1>2 DEF ToSet
  <2>2. i + Len(s) \in 1 .. Len(s) + Len(t) /\ v = (s \o t)[i + Len(s)]
    BY <1>1, <1>2, <2>1
  <2> QED BY <1>1, <2>2 DEF ToSet
<1> QED BY <1>3, <1>4, <1>5

\* And of a list with one more.
LEMMA SetWithOneMore ==
  ASSUME NEW S, NEW s \in Seq(S), NEW n
  PROVE  ToSet(Append(s, n)) = ToSet(s) \cup {n}
<1> DEFINE U == S \cup {n}
<1>1. s \in Seq(U) /\ n \in U
  OBVIOUS
<1> HIDE DEF U
<1>2. /\ DOMAIN Append(s, n) = 1 .. Len(s) + 1 /\ DOMAIN s = 1 .. Len(s) /\ Len(s) \in Nat
      /\ \A i \in 1 .. Len(s) : Append(s, n)[i] = s[i]
      /\ Append(s, n)[Len(s) + 1] = n
  BY <1>1
<1>3. \A i : i \in 1 .. Len(s) + 1 <=> i \in 1 .. Len(s) \/ i = Len(s) + 1
  BY <1>2
<1> QED BY <1>2, <1>3 DEF ToSet

-----------------------------------------------------------------------------
(* What every device holds has its type: in particular no stock is ever    *)
(* negative, whatever order the events are folded in.                      *)

\* There is room for every event, and each says what events say.
LogTyped == Len(log) <= MaxEvents /\ \A n \in 1 .. Len(log) : log[n] \in Entry

ProjectionTyped == projection \in [Device -> Projections]

\* What waits to be pulled is in the ledger.
BacklogHolds == \A d \in Device : backlog[d] \in Seq(ledger[d])

\* What failed is still queued, and a command that waits for nothing has no event.
QueueHolds ==
  \A d \in Device :
    /\ failed[d] \subseteq outbox[d]
    /\ command[d].waits \in {"none", "opening"} => command[d].event = NoEvent

TypedInv ==
  /\ LogTyped /\ ProjectionTyped /\ BacklogHolds /\ QueueHolds
  /\ DOMAIN backlog = Device /\ faults \in 0 .. MaxFaults

\* Events that were signed have their place in the order.
LEMMA SignedIsTold ==
  ASSUME LogShape, LogTyped, NEW S \in SUBSET (1 .. Len(log))
  PROVE  Told(log, S)
<1>1. Len(log) \in Nat /\ Len(log) <= MaxEvents /\ MaxEvents \in Nat
  BY ReplicaAssumption DEF LogShape, LogTyped
<1>2. 1 .. Len(log) \subseteq Event
  BY <1>1 DEF Event
<1>3. IsFiniteSet(S)
  <2>1. IsFiniteSet(1 .. Len(log))
    BY <1>1, FS_Interval
  <2> QED BY <2>1, FS_Subset
<1> QED BY <1>2, <1>3 DEF Told, LogTyped

\* A fold of signed events leaves a projection.
LEMMA FoldedTyped ==
  ASSUME LogShape, LogTyped, NEW S \in SUBSET (1 .. Len(log)), NEW creds, NEW revs
  PROVE  Rebuild(log, creds, revs, S) \in Projections
<1>1. Told(log, S)
  BY SignedIsTold
<1>2. S \in SUBSET Event
  BY <1>1 DEF Told
<1> QED BY <1>1, <1>2, GenesisTyped, FoldTyped DEF Rebuild

\* So does adding some to a projection.
LEMMA IntegratedTyped ==
  ASSUME LogShape, LogTyped, NEW d, known[d] \subseteq 1 .. Len(log), projection[d] \in Projections,
         NEW fresh \in SUBSET (1 .. Len(log))
  PROVE  Integrated(d, fresh) \in Projections
<1> DEFINE all == known[d] \cup fresh
<1>1. all \in SUBSET (1 .. Len(log))
  OBVIOUS
<1> HIDE DEF all
<1>2. Told(log, fresh) /\ Told(log, all)
  BY <1>1, SignedIsTold
<1>3. all \in SUBSET Event
  BY <1>2 DEF Told
<1>4. FoldFrom(log, auth[d].creds, auth[d].revs, all, projection[d], fresh) \in Projections
  BY <1>2, <1>3, FoldTyped
<1>5. Folded(d, all) \in Projections
  BY <1>1, FoldedTyped DEF Folded
<1> QED BY <1>4, <1>5 DEF Integrated, all

\* The founding events have their type.
LEMMA InitTyped == Init => TypedInv
<1> SUFFICES ASSUME Init PROVE TypedInv
  OBVIOUS
<1> DEFINE F == [author : Device, type : EventTypes, clock : Nat, subject : Device \cup {NoEvent},
                 role : Roles \cup {"NONE"}, old : {NoEvent}, issuer : Device \cup {Authority},
                 quantity : Nat, base : {-1}]
<1>1. log \in Seq(F) /\ Len(log) <= MaxEvents
  BY UnitAssumption DEF Init
<1>2. \A e \in F : e \in Entry
  BY DEF Entry
<1> HIDE DEF F
<1>3. LogTyped
  <2>1. \A n \in 1 .. Len(log) : log[n] \in F
    BY <1>1
  <2> QED BY <1>1, <1>2, <2>1 DEF LogTyped
<1>4. LogShape
  BY InitIInv DEF IInv
<1>5. Heard \in [Device -> SUBSET (1 .. Len(log))]
  <2>1. DOMAIN Founding = 1 .. Len(Founding)
    BY UnitAssumption
  <2> QED BY <2>1, UnitAssumption DEF Init
<1>6. ProjectionTyped
  <2>1. ASSUME NEW d \in Device PROVE Folded(d, Heard[d]) \in Projections
    <3>1. Heard[d] \in SUBSET (1 .. Len(log))
      BY <1>5
    <3> QED BY <1>3, <1>4, <3>1, FoldedTyped DEF Folded
  <2>2. projection = [d \in Device |-> Folded(d, Heard[d])]
    BY DEF Init
  <2> QED BY <2>1, <2>2 DEF ProjectionTyped
<1>7. BacklogHolds /\ QueueHolds /\ DOMAIN backlog = Device
  BY DEF Init, BacklogHolds, QueueHolds, NoEvent
<1>8. faults \in 0 .. MaxFaults
  BY UnitAssumption DEF Init
<1> QED BY <1>3, <1>6, <1>7, <1>8 DEF TypedInv

\* What a command drafts says what events say.
LEMMA DraftedTyped ==
  ASSUME NEW d \in Device, projection[d] \in Projections, NEW type \in EventTypes,
         NEW subject \in Device \cup {NoEvent}, NEW role \in Roles \cup {"NONE"},
         NEW old \in Event \cup {NoEvent}, NEW issuer \in Device \cup {Authority}, NEW quantity \in Nat
  PROVE  Drafted(d, type, subject, role, old, issuer, quantity) \in Entry
<1>1. projection[d].clock + 1 \in Nat /\ projection[d].version \in Nat
  BY DEF Projections
<1>2. (IF type \in {"ITEM_ISSUED", "INVENTORY_COUNT_SUBMITTED"} THEN projection[d].version ELSE -1) \in Nat \cup {-1}
  BY <1>1
<1> QED BY <1>1, <1>2 DEF Drafted, Entry

\* What a command that drafts does to what TypedInv speaks of.
DraftsTyped ==
  /\ Len(log) < MaxEvents
  /\ \E e \in Entry : log' = Append(log, e)
  /\ UNCHANGED <<ledger, projection, outbox, failed, command, backlog, faults>>

\* Every command that drafts does this.
LEMMA CommandDraftsTyped ==
  ASSUME ProjectionTyped, NEW d \in Device,
         \/ \E type \in StockTypes, quantity \in Quantities : DraftStock(d, type, quantity)
         \/ \E subject \in Device : DraftRevocation(d, subject)
         \/ \E subject \in Device, role \in Roles : DraftRoleChange(d, subject, role)
  PROVE  DraftsTyped
<1>1. projection[d] \in Projections
  BY DEF ProjectionTyped
<1>2. \A s \in Device : projection[d].members[s].credential \in Event \cup {NoEvent}
  BY <1>1 DEF Projections, Membership
<1>3. Signer(d) \in Device \cup {Authority}
  BY DEF Signer
<1>4. ASSUME NEW type \in StockTypes, NEW quantity \in Quantities, DraftStock(d, type, quantity)
      PROVE  DraftsTyped
  <2>1. quantity \in Nat /\ type \in EventTypes
    BY UnitAssumption DEF EventTypes
  <2>2. Drafted(d, type, NoEvent, "NONE", NoEvent, d, quantity) \in Entry
    BY <1>1, <2>1, DraftedTyped
  <2> QED BY <1>4, <2>2 DEF DraftStock, MayDraft, DraftsTyped, replicaVars, syncVars
<1>5. ASSUME NEW e \in Entry, NEW a, Administer(d, e, a), Len(log) < MaxEvents PROVE DraftsTyped
  BY <1>5 DEF Administer, DraftsTyped, replicaVars, syncVars
<1>6. ASSUME NEW subject \in Device, DraftRevocation(d, subject) PROVE DraftsTyped
  <2> DEFINE e == Drafted(d, "AUTHORITY_REVOKED", subject, "NONE",
                          projection[d].members[subject].credential, Signer(d), 0)
  <2>1. e \in Entry
    BY <1>1, <1>2, <1>3, DraftedTyped DEF EventTypes
  <2> HIDE DEF e
  <2>2. Len(log) < MaxEvents /\ \E a : Administer(d, e, a)
    BY <1>6 DEF DraftRevocation, MayDraft, e
  <2> QED BY <1>5, <2>1, <2>2
<1>7. ASSUME NEW subject \in Device, NEW role \in Roles, DraftRoleChange(d, subject, role) PROVE DraftsTyped
  <2> DEFINE e == Drafted(d, "ROLE_CHANGED", subject, role,
                          projection[d].members[subject].credential, Signer(d), 0)
  <2>1. e \in Entry
    BY <1>1, <1>2, <1>3, DraftedTyped DEF EventTypes
  <2> HIDE DEF e
  <2>2. Len(log) < MaxEvents /\ \E a : Administer(d, e, a)
    BY <1>7 DEF DraftRoleChange, MayDraft, e
  <2> QED BY <1>5, <2>1, <2>2
<1> QED BY <1>4, <1>6, <1>7

\* A draft takes the place after all others.
LEMMA DraftsKeepTypes ==
  ASSUME IInv, TypedInv, DraftsTyped
  PROVE  TypedInv'
<1>1. PICK e \in Entry : log' = Append(log, e)
  BY DEF DraftsTyped
<1>2. /\ Len(log') = Len(log) + 1 /\ Len(log) \in Nat
      /\ \A i \in 1 .. Len(log) : log'[i] = log[i]
      /\ log'[Len(log) + 1] = e
  BY <1>1, Appended DEF IInv, LogShape
<1>3. LogTyped'
  <2>1. Len(log') <= MaxEvents
    BY <1>2, ReplicaAssumption DEF DraftsTyped
  <2>2. \A n \in 1 .. Len(log') : n \in 1 .. Len(log) \/ n = Len(log) + 1
    BY <1>2
  <2> QED BY <1>1, <1>2, <2>1, <2>2 DEF TypedInv, LogTyped
<1>4. UNCHANGED <<ledger, projection, outbox, failed, command, backlog, faults>>
  BY DEF DraftsTyped
<1> QED BY <1>3, <1>4 DEF TypedInv, ProjectionTyped, BacklogHolds, QueueHolds

\* A device folds signed events only.
LEMMA StoreKeepsTypes ==
  ASSUME IInv, TypedInv, NEW d \in Device, NEW fresh \in SUBSET (1 .. Len(log)), Store(d, fresh)
  PROVE  ProjectionTyped'
<1>1. Integrated(d, fresh) \in Projections
  <2>1. known[d] \subseteq 1 .. Len(log) /\ projection[d] \in Projections /\ LogShape /\ LogTyped
    BY DEF IInv, MemoryShape, TypedInv, ProjectionTyped
  <2> QED BY <2>1, IntegratedTyped
<1>2. projection' = [projection EXCEPT ![d] = Integrated(d, fresh)]
  BY DEF Store
<1> QED BY <1>1, <1>2 DEF TypedInv, ProjectionTyped

\* Every step of every device keeps the types.
LEMMA StepTyped ==
  ASSUME IInv, TypedInv, [Next]_vars
  PROVE  TypedInv'
<1> USE DEF NoEvent
<1>1. CASE UNCHANGED vars
  BY <1>1
  DEF vars, replicaVars, commandVars, syncVars, TypedInv, LogTyped, ProjectionTyped, BacklogHolds, QueueHolds
<1>2. ASSUME NEW d \in Device,
             \/ \E type \in StockTypes, quantity \in Quantities : DraftStock(d, type, quantity)
             \/ \E subject \in Device : DraftRevocation(d, subject)
             \/ \E subject \in Device, role \in Roles : DraftRoleChange(d, subject, role)
      PROVE  TypedInv'
  <2>1. DraftsTyped
    BY <1>2, CommandDraftsTyped DEF TypedInv
  <2> QED BY <2>1, DraftsKeepTypes
<1>3. ASSUME UNCHANGED log PROVE LogTyped'
  BY <1>3 DEF TypedInv, LogTyped
<1>4. ASSUME UNCHANGED <<backlog, ledger>> PROVE BacklogHolds' /\ DOMAIN backlog' = Device
  BY <1>4 DEF TypedInv, BacklogHolds
<1>5. ASSUME UNCHANGED faults PROVE faults' \in 0 .. MaxFaults
  BY <1>5 DEF TypedInv
<1>6. ASSUME faults < MaxFaults, faults' = faults + 1 PROVE faults' \in 0 .. MaxFaults
  BY <1>6, UnitAssumption DEF TypedInv
<1>7. ASSUME UNCHANGED projection PROVE ProjectionTyped'
  BY <1>7 DEF TypedInv, ProjectionTyped
<1>8. /\ outbox \in [Device -> SUBSET (1 .. Len(log))] /\ failed \in [Device -> SUBSET (1 .. Len(log))]
      /\ command \in [Device -> [event : 1 .. Len(log) \cup {0},
                                 waits : {"none", "due", "behind", "joined", "opening"}]]
      /\ \A d \in Device : draft[d] \in 1 .. Len(log) \cup {0}
  BY DEF IInv, MemoryShape
<1>9. ASSUME NEW d \in Device, EndSync(d), UNCHANGED <<outbox, failed>> PROVE QueueHolds'
  <2> DEFINE c == command[d]
  <2>1. PICK r : command' = [command EXCEPT ![d] = r] /\
          r = CASE c.waits \in {"joined", "opening"} -> [event |-> NoEvent, waits |-> "none"]
                [] c.waits = "behind" -> [c EXCEPT !.waits = "due"]
                [] OTHER -> c
    BY <1>9 DEF EndSync
  <2>2. \/ r = [event |-> NoEvent, waits |-> "none"]
        \/ c.waits = "behind" /\ r = [c EXCEPT !.waits = "due"]
        \/ r = c
    BY <2>1
  <2>3. r.waits \in {"none", "opening"} => r.event = NoEvent
    BY <1>8, <2>2 DEF TypedInv, QueueHolds
  <2>4. \A x \in Device : command'[x] = IF x = d THEN r ELSE command[x]
    BY <1>8, <2>1
  <2> HIDE DEF c
  <2> QED BY <1>9, <2>3, <2>4 DEF TypedInv, QueueHolds
<1>10. ASSUME NEW d \in Device, Commit(d) PROVE TypedInv'
  <2> DEFINE n == draft[d]
  <2>1. n # NoEvent /\ UNCHANGED <<log, backlog, ledger, faults, failed>>
    BY <1>10 DEF Commit, syncVars
  <2>2. \/ UNCHANGED <<projection, outbox, command>>
        \/ /\ Store(d, {n})
           /\ outbox' = [outbox EXCEPT ![d] = @ \cup {n}]
           /\ command' = [command EXCEPT ![d] = [event |-> n, waits |-> NextSync(d)]]
    BY <1>10 DEF Commit, replicaVars
  <2>3. {n} \in SUBSET (1 .. Len(log))
    BY <1>8, <2>1
  <2> HIDE DEF n
  <2>4. ProjectionTyped'
    BY <1>7, <2>2, <2>3, StoreKeepsTypes
  <2>5. QueueHolds'
    <3>1. NextSync(d) \in {"due", "behind"}
      BY DEF NextSync
    <3> QED BY <1>8, <2>1, <2>2, <3>1 DEF TypedInv, QueueHolds
  <2> QED BY <1>3, <1>4, <1>5, <2>1, <2>4, <2>5 DEF TypedInv
<1>11. ASSUME NEW d \in Device, StartSync(d) PROVE TypedInv'
  <2>1. UNCHANGED <<log, backlog, ledger, faults, projection, outbox, failed>>
    BY <1>11 DEF StartSync, replicaVars
  <2>2. command' = [command EXCEPT ![d].waits = IF @ = "due" THEN "joined" ELSE @]
    BY <1>11 DEF StartSync
  <2>3. QueueHolds'
    BY <1>8, <2>1, <2>2 DEF TypedInv, QueueHolds
  <2> QED BY <1>3, <1>4, <1>5, <1>7, <2>1, <2>3 DEF TypedInv
<1>12. ASSUME NEW d \in Device, Publish(d) PROVE TypedInv'
  <2>1. UNCHANGED <<log, backlog, faults, projection, command>>
    BY <1>12 DEF Publish, replicaVars, commandVars
  <2>2. PICK n \in batch[d] : /\ ledger' = [ledger EXCEPT ![d] = @ \cup {n}]
                              /\ outbox' = [outbox EXCEPT ![d] = @ \ {n}]
                              /\ failed' = [failed EXCEPT ![d] = @ \ {n}]
    BY <1>12 DEF Publish
  <2>3. QueueHolds'
    BY <1>8, <2>1, <2>2 DEF TypedInv, QueueHolds
  <2>4. BacklogHolds'
    <3>1. \A x \in Device : ledger[x] \subseteq ledger'[x]
      BY <2>2 DEF IInv, MemoryShape
    <3>2. ASSUME NEW x \in Device PROVE backlog[x] \in Seq(ledger'[x])
      <4>1. backlog[x] \in Seq(ledger[x])
        BY DEF TypedInv, BacklogHolds
      <4> QED BY <3>1, <4>1
    <3> QED BY <2>1, <3>2 DEF BacklogHolds
  <2> QED BY <1>3, <1>5, <1>7, <2>1, <2>3, <2>4 DEF TypedInv
<1>13. ASSUME NEW d \in Device, PublishFails(d) PROVE TypedInv'
  <2>1. UNCHANGED <<log, backlog, ledger, projection, command, outbox>> /\ faults < MaxFaults /\ faults' = faults + 1
    BY <1>13 DEF PublishFails, replicaVars, commandVars
  <2>2. PICK n \in batch[d] : failed' = [failed EXCEPT ![d] = @ \cup {n}]
    BY <1>13 DEF PublishFails
  <2>3. n \in outbox[d]
    BY DEF IInv, SyncHolds
  <2>4. QueueHolds'
    BY <1>8, <2>1, <2>2, <2>3 DEF TypedInv, QueueHolds
  <2> QED BY <1>3, <1>4, <1>6, <1>7, <2>1, <2>4 DEF TypedInv
<1>14. ASSUME NEW d \in Device, Pull(d) PROVE TypedInv'
  <2>1. UNCHANGED <<log, ledger, projection, outbox, failed, faults>> /\ backlog' = [backlog EXCEPT ![d] = <<>>]
    BY <1>14 DEF Pull, replicaVars
  <2>2. EndSync(d) \/ UNCHANGED command
    BY <1>14 DEF Pull
  <2>3. QueueHolds'
    BY <1>9, <2>1, <2>2 DEF TypedInv, QueueHolds
  <2>4. BacklogHolds' /\ DOMAIN backlog' = Device
    <3>1. \A x \in Device : backlog'[x] = backlog[x] \/ backlog'[x] = <<>>
      BY <2>1 DEF TypedInv
    <3>2. \A x \in Device : <<>> \in Seq(ledger[x]) /\ backlog[x] \in Seq(ledger[x])
      BY DEF TypedInv, BacklogHolds
    <3>3. \A x \in Device : backlog'[x] \in Seq(ledger'[x])
      BY <2>1, <3>1, <3>2
    <3> QED BY <2>1, <3>3 DEF TypedInv, BacklogHolds
  <2> QED BY <1>3, <1>5, <1>7, <2>1, <2>3, <2>4 DEF TypedInv
<1>15. ASSUME NEW d \in Device, Receive(d) PROVE TypedInv'
  <2>1. UNCHANGED <<log, ledger, backlog, outbox, failed, faults>> /\ EndSync(d)
    BY <1>15 DEF Receive
  <2>2. projection' = projection \/ Store(d, pulled[d] \ known[d])
    BY <1>15 DEF Receive, replicaVars
  <2>3. pulled[d] \ known[d] \in SUBSET (1 .. Len(log))
    BY DEF IInv, MemoryShape
  <2>4. ProjectionTyped'
    BY <1>7, <2>2, <2>3, StoreKeepsTypes
  <2> QED BY <1>3, <1>4, <1>5, <1>9, <2>1, <2>4 DEF TypedInv
<1>16. ASSUME NEW S \in SUBSET (1 .. Len(log)) PROVE ById(S) \in Seq(S)
  BY SignedIsTold, ByIdListed DEF IInv, TypedInv
<1>17. ASSUME NEW d \in Device, ReceiveFails(d) PROVE TypedInv'
  <2>1. /\ UNCHANGED <<log, ledger, projection, outbox, failed>> /\ EndSync(d)
        /\ faults < MaxFaults /\ faults' = faults + 1
        /\ backlog' = [backlog EXCEPT ![d] = @ \o ById(pulled[d])]
    BY <1>17 DEF ReceiveFails, replicaVars
  <2>2. BacklogHolds' /\ DOMAIN backlog' = Device
    <3>1. ById(pulled[d]) \in Seq(ledger[d])
      <4>1. pulled[d] \in SUBSET (1 .. Len(log)) /\ pulled[d] \subseteq ledger[d]
        BY DEF IInv, MemoryShape, SyncHolds
      <4>2. ById(pulled[d]) \in Seq(pulled[d])
        BY <1>16, <4>1
      <4> QED BY <4>1, <4>2
    <3>2. backlog[d] \in Seq(ledger[d])
      BY DEF TypedInv, BacklogHolds
    <3>3. backlog[d] \o ById(pulled[d]) \in Seq(ledger[d])
      <4>1. \A s, t \in Seq(ledger[d]) : s \o t \in Seq(ledger[d])
        OBVIOUS
      <4> QED BY ONLY <3>1, <3>2, <4>1
    <3> QED BY <2>1, <3>3 DEF TypedInv, BacklogHolds
  <2> QED BY <1>3, <1>6, <1>7, <1>9, <2>1, <2>2 DEF TypedInv
<1>18. ASSUME NEW d \in Device, AdoptOwnCredential(d) PROVE TypedInv'
  BY <1>18 DEF AdoptOwnCredential, replicaVars, commandVars, syncVars, TypedInv, LogTyped, ProjectionTyped,
               BacklogHolds, QueueHolds
<1>19. ASSUME NEW d \in Device, NEW n \in DOMAIN log, Arrive(d, n) PROVE TypedInv'
  <2>1. /\ UNCHANGED <<log, projection, outbox, failed, command, faults>>
        /\ ledger' = [ledger EXCEPT ![d] = @ \cup {n}]
        /\ backlog' = [backlog EXCEPT ![d] = Append(@, n)]
    BY <1>19 DEF Arrive, replicaVars, commandVars
  <2>2. BacklogHolds' /\ DOMAIN backlog' = Device
    <3>1. \A x \in Device : ledger'[x] = IF x = d THEN ledger[d] \cup {n} ELSE ledger[x]
      BY <2>1 DEF IInv, MemoryShape
    <3>2. \A x \in Device : backlog'[x] = IF x = d THEN Append(backlog[d], n) ELSE backlog[x]
      BY <2>1 DEF TypedInv
    <3>3. \A x \in Device : backlog[x] \in Seq(ledger[x])
      BY DEF TypedInv, BacklogHolds
    <3>4. Append(backlog[d], n) \in Seq(ledger[d] \cup {n})
      <4>1. backlog[d] \in Seq(ledger[d] \cup {n}) /\ n \in ledger[d] \cup {n}
        BY <3>3
      <4> QED BY <4>1
    <3>5. \A x \in Device : backlog'[x] \in Seq(ledger'[x])
      BY <3>1, <3>2, <3>3, <3>4
    <3> QED BY <2>1, <3>5 DEF TypedInv, BacklogHolds
  <2>3. QueueHolds'
    BY <2>1 DEF TypedInv, QueueHolds
  <2> QED BY <1>3, <1>5, <1>7, <2>1, <2>2, <2>3 DEF TypedInv
<1>20. ASSUME NEW d \in Device, Restart(d) PROVE TypedInv'
  <2>1. /\ UNCHANGED <<log, ledger>> /\ faults < MaxFaults /\ faults' = faults + 1
        /\ projection' = [projection EXCEPT ![d] = Genesis]
        /\ outbox' = [outbox EXCEPT ![d] = {}] /\ failed' = [failed EXCEPT ![d] = {}]
        /\ command' = [command EXCEPT ![d] = [event |-> NoEvent, waits |-> "opening"]]
        /\ backlog' = [backlog EXCEPT ![d] = ById(ledger[d])]
    BY <1>20 DEF Restart
  <2>2. BacklogHolds' /\ DOMAIN backlog' = Device
    <3>1. ById(ledger[d]) \in Seq(ledger[d])
      BY <1>16 DEF IInv, MemoryShape
    <3> QED BY <2>1, <3>1 DEF TypedInv, BacklogHolds
  <2>3. ProjectionTyped'
    BY <2>1, GenesisTyped DEF TypedInv, ProjectionTyped
  <2>4. QueueHolds'
    BY <1>8, <2>1 DEF TypedInv, QueueHolds
  <2> QED BY <1>3, <1>6, <2>1, <2>2, <2>3, <2>4 DEF TypedInv
<1>21. ASSUME NEW d \in Device, NEW n \in DOMAIN log, Again(d, n) PROVE TypedInv'
  <2>1. UNCHANGED <<log, ledger, projection, outbox, failed, command, backlog, faults>>
    BY <1>21 DEF Again, replicaVars, syncVars
  <2>2. QueueHolds'
    BY <2>1 DEF TypedInv, QueueHolds
  <2> QED BY <1>3, <1>4, <1>5, <1>7, <2>1, <2>2 DEF TypedInv
<1> QED
  BY <1>1, <1>2, <1>10, <1>11, <1>12, <1>13, <1>14, <1>15, <1>17, <1>18, <1>19, <1>20, <1>21 DEF Next

\* The two invariants say the types.
LEMMA TypesFollow == IInv /\ TypedInv => TypeOK
<1> SUFFICES ASSUME IInv, TypedInv PROVE TypeOK
  OBVIOUS
<1>1. DOMAIN log = 1 .. Len(log)
  BY DEF IInv, LogShape
<1>2. ASSUME NEW d \in Device PROVE ToSet(backlog[d]) \subseteq ledger[d]
  <2>1. backlog[d] \in Seq(ledger[d])
    BY DEF TypedInv, BacklogHolds
  <2> QED BY <2>1 DEF ToSet
<1>3. ASSUME NEW d \in Device
      PROVE  /\ ledger[d] \cup known[d] \cup outbox[d] \cup batch[d] \subseteq DOMAIN log
             /\ failed[d] \subseteq outbox[d] /\ batch[d] \subseteq outbox[d]
             /\ pulled[d] \subseteq ledger[d]
             /\ draft[d] \in DOMAIN log \cup {NoEvent}
             /\ phase[d] \in {"idle", "publish", "receive"}
             /\ command[d].waits \in {"none", "due", "behind", "joined", "opening"}
  BY <1>1 DEF IInv, MemoryShape, SyncHolds, TypedInv, QueueHolds
<1>4. ASSUME NEW d \in Device
      PROVE  command[d].event = NoEvent <=> command[d].waits \in {"none", "opening"}
  BY <1>3 DEF IInv, CommandHolds, TypedInv, QueueHolds
<1>5. ASSUME NEW d \in Device PROVE projection[d].onHand \in Nat
  BY DEF TypedInv, ProjectionTyped, Projections
<1>6. Len(log) <= MaxEvents /\ acknowledged \cup unsaved \subseteq DOMAIN log /\ faults \in 0 .. MaxFaults
  BY <1>1 DEF IInv, MemoryShape, TypedInv, LogTyped
<1> QED BY <1>2, <1>3, <1>4, <1>5, <1>6 DEF TypeOK

\* What a device holds has its type at all times; the stock it shows is never negative,
\* in whatever order the events came (applyEvent's ITEM_ISSUED and its version check).
THEOREM ReplicaTypes == Spec => []TypeOK
<1>1. Init => TypedInv
  BY InitTyped
<1>2. IInv /\ TypedInv /\ [Next]_vars => TypedInv'
  BY StepTyped
<1>3. IInv /\ TypedInv => TypeOK
  BY TypesFollow
<1> QED BY <1>1, <1>2, <1>3, ReplicaInvariant, PTL DEF Spec

-----------------------------------------------------------------------------
(* The authorizations of a unit in which nobody is removed and no role     *)
(* changes: credentials arrive in any order, and wait for their issuers.   *)

NoneRevoked == [c \in Event |-> NoEvent]

\* What a device may hold of the events in E.
Authorities(E) ==
  [creds : SUBSET E, revs : {NoneRevoked}, accepted : {{}}, waitingCreds : Seq(E), waitingRevs : {<<>>}]

\* No credential waits that could be accepted.
Saturated(a) == \A i \in DOMAIN a.waitingCreds : ~ MayAccept(a, a.waitingCreds[i])

\* The credentials that a device was told of, accepted or not.
Held(a) == a.creds \cup ToSet(a.waitingCreds)

\* What was accepted could be accepted.
Sound(a) == \A c \in a.creds : MayAccept(a, c)

\* b is a with more accepted, of the events in E, and nothing forgotten.
Grown(a, E) ==
  {b \in Authorities(E) : a.creds \subseteq b.creds /\ Held(a) \subseteq Held(b) /\ (Sound(a) => Sound(b))}

\* Taking out one element makes a sequence shorter, and takes out no other.
LEMMA WithoutShorter ==
  ASSUME NEW E, NEW s \in Seq(E), NEW n
  PROVE  /\ Without(s, n) \in Seq(E)
         /\ Len(Without(s, n)) <= Len(s)
         /\ (\E i \in 1 .. Len(s) : s[i] = n) => Len(Without(s, n)) < Len(s)
         /\ ToSet(s) \subseteq ToSet(Without(s, n)) \cup {n}
<1> DEFINE I == {i \in 1 .. Len(s) : s[i] = n}
<1> DEFINE k == SelectInSeq(s, LAMBDA v : v = n)
<1>1. CASE I = {}
  <2>1. Without(s, n) = s
    BY <1>1, Zenon DEF Without, RemoveFirst
  <2> QED BY <1>1, <2>1
<1>2. CASE I # {}
  <2>1. k = Min(I)
    BY <1>2, Zenon DEF SelectInSeq
  <2>2. Min(I) \in I
    <3>1. I \subseteq Nat
      OBVIOUS
    <3>2. \E m \in I : \A j \in I : m <= j
      <4> HIDE DEF I
      <4> QED BY <1>2, <3>1, LeastNumber
    <3> QED BY <3>2 DEF Min
  <2>3. Without(s, n) = RemoveAt(s, k)
    BY <1>2, Zenon DEF Without, RemoveFirst
  <2> HIDE DEF k
  <2>4. k \in 1 .. Len(s)
    BY <2>1, <2>2
  <2>5. RemoveAt(s, k) = SubSeq(s, 1, k - 1) \o SubSeq(s, k + 1, Len(s))
    BY DEF RemoveAt
  <2>6. SubSeq(s, 1, k - 1) \in Seq(E) /\ Len(SubSeq(s, 1, k - 1)) = k - 1
    BY <2>4, SubSeqProperties
  <2>7. SubSeq(s, k + 1, Len(s)) \in Seq(E) /\ Len(SubSeq(s, k + 1, Len(s))) = Len(s) - k
    BY <2>4, SubSeqProperties
  <2> DEFINE t == SubSeq(s, 1, k - 1)
  <2> DEFINE u == SubSeq(s, k + 1, Len(s))
  <2>8. t \in Seq(E) /\ u \in Seq(E) /\ Len(t) + Len(u) = Len(s) - 1
    <3>1. t \in Seq(E) /\ Len(t) = k - 1
      BY <2>6
    <3>2. u \in Seq(E) /\ Len(u) = Len(s) - k
      BY <2>7
    <3>3. k \in Int /\ Len(s) \in Int
      BY <2>4
    <3> HIDE DEF t, u
    <3> QED BY <3>1, <3>2, <3>3
  <2>9. Without(s, n) = t \o u
    BY <2>3, <2>5
  <2> HIDE DEF t, u
  <2>10. t \o u \in Seq(E)
    BY <2>8
  <2>11. Len(t \o u) = Len(t) + Len(u)
    BY <2>8
  <2>12. Len(s) \in Nat
    OBVIOUS
  <2>13. ToSet(s) \subseteq ToSet(t \o u) \cup {n}
    <3>1. s[k] = n
      BY <2>1, <2>2 DEF k
    <3>2. \A i \in 1 .. k - 1 : t[i] = s[i]
      BY <2>4, SubSeqProperties DEF t
    <3>3. \A i \in 1 .. Len(s) - k : u[i] = s[i + k]
      <4>1. k + 1 \in 1 .. Len(s) + 1 /\ Len(s) \in 0 .. Len(s) /\ k \in Int /\ Len(s) \in Int
        BY <2>4
      <4>2. \A i \in 1 .. Len(s) - k : u[i] = s[(k + 1) + i - 1]
        BY <4>1, SubSeqProperties DEF u
      <4>3. \A i \in 1 .. Len(s) - k : (k + 1) + i - 1 = i + k
        BY <4>1
      <4> QED BY <4>2, <4>3
    <3>4. Len(t) = k - 1 /\ Len(u) = Len(s) - k
      BY <2>6, <2>7 DEF t, u
    <3> HIDE DEF t, u, k
    <3>5. ToSet(t \o u) = ToSet(t) \cup ToSet(u)
      BY <2>8, SetOfBoth
    <3>6. DOMAIN s = 1 .. Len(s) /\ DOMAIN t = 1 .. Len(t) /\ DOMAIN u = 1 .. Len(u)
      BY <2>8
    <3>7. ASSUME NEW i \in 1 .. Len(s) PROVE s[i] \in ToSet(t) \cup ToSet(u) \cup {n}
      <4>1. CASE i < k
        <5>1. i \in 1 .. k - 1
          BY <2>4, <4>1
        <5> QED BY <3>2, <3>4, <3>6, <5>1 DEF ToSet
      <4>2. CASE i = k
        BY <3>1, <4>2
      <4>3. CASE i > k
        <5>1. i - k \in 1 .. Len(s) - k /\ (i - k) + k = i
          BY <2>4, <2>12, <4>3
        <5>2. u[i - k] = s[i]
          BY <3>3, <5>1
        <5> QED BY <3>4, <3>6, <5>1, <5>2 DEF ToSet
      <4> QED BY <2>4, <4>1, <4>2, <4>3
    <3> QED BY <3>5, <3>6, <3>7 DEF ToSet
  <2> QED BY <2>8, <2>9, <2>10, <2>11, <2>12, <2>13
<1> QED BY <1>1, <1>2

\* A credential that is accepted stays so with more credentials, and what may be
\* accepted may be accepted later.
LEMMA MayAcceptStays ==
  ASSUME NEW E, NEW a \in Authorities(E), NEW b \in Authorities(E), a.creds \subseteq b.creds,
         NEW c, MayAccept(a, c)
  PROVE  MayAccept(b, c)
BY DEF MayAccept, CanAcceptCredential, IssuerCanAuthorize, CredentialActiveAt, Authorities

\* Accepting what may be accepted, and taking off the list no more than that, is growth.
LEMMA AcceptingGrows ==
  ASSUME NEW E, NEW a \in Authorities(E), NEW c \in E, MayAccept(a, c), NEW b \in Authorities(E),
         b.creds = a.creds \cup {c}, ToSet(a.waitingCreds) \subseteq ToSet(b.waitingCreds) \cup {c}
  PROVE  b \in Grown(a, E) /\ c \in Held(b)
<1>1. a.creds \subseteq b.creds
  OBVIOUS
<1>2. Held(a) \subseteq Held(b) /\ c \in Held(b)
  BY DEF Held
<1>3. \A k : MayAccept(a, k) => MayAccept(b, k)
  BY <1>1, MayAcceptStays
<1>4. Sound(a) => Sound(b)
  BY <1>3 DEF Sound
<1> QED BY <1>1, <1>2, <1>4 DEF Grown

\* Trying a waiting credential again leaves an authority that has grown, and takes a
\* waiting credential that may be accepted off the list.
LEMMA RetryTyped ==
  ASSUME NEW E, NEW a \in Authorities(E), NEW c \in E
  PROVE  /\ RetryCredential(a, c) \in Grown(a, E)
         /\ Len(RetryCredential(a, c).waitingCreds) <= Len(a.waitingCreds)
         /\ MayAccept(a, c) /\ (\E i \in 1 .. Len(a.waitingCreds) : a.waitingCreds[i] = c)
              => Len(RetryCredential(a, c).waitingCreds) < Len(a.waitingCreds)
         /\ ~ MayAccept(a, c) => RetryCredential(a, c) = a
<1> DEFINE b == [Accept(a, c) EXCEPT !.waitingCreds = Without(@, c)]
<1>1. a.waitingCreds \in Seq(E) /\ a.creds \in SUBSET E
  BY DEF Authorities
<1> DEFINE w == Without(a.waitingCreds, c)
<1>4. w \in Seq(E) /\ ToSet(a.waitingCreds) \subseteq ToSet(w) \cup {c}
  BY <1>1, WithoutShorter
<1> HIDE DEF w
<1>5. b \in Authorities(E) /\ b.creds = a.creds \cup {c} /\ b.waitingCreds = w
  <2>1. b = [a EXCEPT !.creds = @ \cup {c}, !.waitingCreds = w]
    BY DEF Accept, Authorities, w
  <2> HIDE DEF b
  <2> QED BY <1>4, <2>1 DEF Authorities
<1> HIDE DEF b
<1>6. MayAccept(a, c) => b \in Grown(a, E) /\ b.waitingCreds = w
  BY <1>4, <1>5, AcceptingGrows
<1>7. Len(w) <= Len(a.waitingCreds) /\ Len(a.waitingCreds) \in Nat
  BY <1>1, WithoutShorter DEF w
<1>8. (\E i \in 1 .. Len(a.waitingCreds) : a.waitingCreds[i] = c) => Len(w) < Len(a.waitingCreds)
  BY <1>1, WithoutShorter DEF w
<1>9. CASE MayAccept(a, c)
  <2>1. RetryCredential(a, c) = b
    BY <1>9 DEF RetryCredential, b
  <2> QED BY <1>6, <1>7, <1>8, <1>9, <2>1
<1>10. CASE ~ MayAccept(a, c)
  <2>1. RetryCredential(a, c) = a
    BY <1>10 DEF RetryCredential
  <2> QED BY <1>7, <1>10, <2>1 DEF Grown
<1> QED BY <1>9, <1>10

-----------------------------------------------------------------------------
(* FoldLeft takes the elements of a list one by one, the last one last.    *)

\* What is chosen as the last index of some.
LastIndex(n) == [T \in (SUBSET (1 .. n)) \ {{}} |-> Max(T)]

\* It is one of them.
LEMMA LastIndexPicks ==
  ASSUME NEW n \in Nat
  PROVE  /\ LastIndex(n) \in Picks(1 .. n) /\ IsFiniteSet(1 .. n)
         /\ \A T \in SUBSET (1 .. n) : T # {} => LastIndex(n)[T] = Max(T) /\ Max(T) \in T
<1>1. ASSUME NEW T \in SUBSET (1 .. n), T # {} PROVE Max(T) \in T
  BY <1>1, GreatestNumber DEF Max
<1>2. IsFiniteSet(1 .. n)
  BY FS_Interval
<1>3. \A T \in SUBSET (1 .. n) : T # {} => LastIndex(n)[T] = Max(T)
  BY DEF LastIndex
<1>4. LastIndex(n) \in [(SUBSET (1 .. n)) \ {{}} -> 1 .. n]
  BY <1>1 DEF LastIndex
<1> QED BY <1>1, <1>2, <1>3, <1>4 DEF Picks

\* f[T] is what has become of `base` after the entries of s with index in T.
TakesRetries(f, base, s) ==
  /\ f[{}] = base
  /\ \A T \in SUBSET (1 .. Len(s)) :
       T # {} => f[T] = RetryCredential(f[T \ {Max(T)}], s[Max(T)])

\* One pass over the waiting credentials tries them one by one.
LEMMA RetriesFold ==
  ASSUME NEW E, NEW s \in Seq(E), NEW a \in Authorities(E)
  PROVE  \E f : TakesRetries(f, a, s) /\ FoldLeft(RetryCredential, a, s) = f[1 .. Len(s)]
<1> DEFINE D == Authorities(E)
<1> DEFINE n == Len(s)
<1> DEFINE step == [x \in D \X (1 .. n) |-> RetryCredential(x[1], s[x[2]])]
<1> DEFINE Raw(f) ==
      f = [T \in SUBSET DOMAIN s |->
             IF T = {} THEN a
             ELSE LET x == Max(T) IN RetryCredential(f[T \ {x}], s[x])]
<1>1. FoldLeft(RetryCredential, a, s) = (CHOOSE f : Raw(f))[DOMAIN s]
  BY Zenon DEF FoldLeft, MapThenFoldSet
<1>2. n \in Nat /\ DOMAIN s = 1 .. n /\ \A i \in 1 .. n : s[i] \in E
  OBVIOUS
<1>3. \A b \in D, i \in 1 .. n : RetryCredential(b, s[i]) \in D
  BY <1>2, RetryTyped DEF Grown
<1>4. step \in [D \X (1 .. n) -> D]
  BY <1>3
<1>5. \A b \in D, i \in 1 .. n : step[<<b, i>>] = RetryCredential(b, s[i])
  OBVIOUS
<1> HIDE DEF step, D, n
<1>6. PICK f \in [SUBSET (1 .. n) -> D] : IsFold(f, 1 .. n, LastIndex(n), a, step)
  BY <1>2, <1>4, LastIndexPicks, FoldExists DEF D
<1>7. f[{}] = a
  BY <1>6 DEF IsFold
<1>8. ASSUME NEW T \in SUBSET (1 .. n), T # {} PROVE f[T] = RetryCredential(f[T \ {Max(T)}], s[Max(T)])
  <2>1. LastIndex(n)[T] = Max(T) /\ Max(T) \in 1 .. n /\ T \ {Max(T)} \in SUBSET (1 .. n)
    BY <1>2, <1>8, LastIndexPicks
  <2>2. f[T] = step[<<f[T \ {Max(T)}], Max(T)>>]
    BY <1>6, <1>8, <2>1 DEF IsFold
  <2> QED BY <1>5, <2>1, <2>2
<1>9. Raw(f)
  BY <1>2, <1>7, <1>8
<1> DEFINE g == CHOOSE h : Raw(h)
<1>10. Raw(g)
  BY <1>9
<1>11. FoldLeft(RetryCredential, a, s) = g[1 .. n]
  BY <1>1, <1>2
<1> HIDE DEF g
<1>12. TakesRetries(g, a, s)
  BY <1>2, <1>10 DEF TakesRetries, n
<1> QED BY <1>11, <1>12 DEF n

-----------------------------------------------------------------------------
(* Retrying what waits comes to an end where nothing more can be accepted. *)

\* What has grown twice has grown.
LEMMA GrownTwice ==
  ASSUME NEW E, NEW a, NEW b \in Grown(a, E), NEW c \in Grown(b, E)
  PROVE  c \in Grown(a, E)
BY DEF Grown

\* One walk over the list takes something off it, unless nothing can be accepted.
LEMMA RetriesGrow ==
  ASSUME NEW E, NEW a \in Authorities(E), NEW f, TakesRetries(f, a, a.waitingCreds)
  PROVE  LET b == f[1 .. Len(a.waitingCreds)] IN
         /\ b \in Grown(a, E)
         /\ Saturated(a) => b = a
         /\ ~ Saturated(a) => Len(b.waitingCreds) < Len(a.waitingCreds)
<1> DEFINE s == a.waitingCreds
<1> DEFINE n == Len(s)
<1> DEFINE Still(T) == \A i \in T : ~ MayAccept(a, s[i])
<1> DEFINE Good(b, T) == b \in Grown(a, E) /\ (Still(T) => b = a) /\ (~ Still(T) => Len(b.waitingCreds) < n)
<1> DEFINE P == {T \in SUBSET (1 .. n) : Good(f[T], T)}
<1>1. s \in Seq(E)
  BY DEF Authorities
<1>2. n \in Nat /\ DOMAIN s = 1 .. n /\ \A i \in 1 .. n : s[i] \in E
  BY <1>1
<1>3. f[{}] = a /\ \A T \in SUBSET (1 .. n) : T # {} => f[T] = RetryCredential(f[T \ {Max(T)}], s[Max(T)])
  BY DEF TakesRetries
<1>4. {} \in P
  <2>1. a \in Grown(a, E)
    BY DEF Grown
  <2> QED BY <1>3, <2>1
<1>5. ASSUME NEW T \in SUBSET (1 .. n), T # {}, T \ {LastIndex(n)[T]} \in P PROVE T \in P
  <2> DEFINE x == Max(T)
  <2> DEFINE R == T \ {x}
  <2> DEFINE b == f[R]
  <2> DEFINE c == s[x]
  <2>1. LastIndex(n)[T] = x /\ x \in T
    BY <1>2, <1>5, LastIndexPicks
  <2> HIDE DEF Good
  <2>2. Good(b, R) /\ c \in E /\ f[T] = RetryCredential(b, c) /\ x \in 1 .. n
    BY <1>2, <1>3, <1>5, <2>1
  <2>3. Still(T) <=> Still(R) /\ ~ MayAccept(a, c)
    BY <2>1
  <2>4. b \in Grown(a, E) /\ b \in Authorities(E) /\ Len(b.waitingCreds) \in Nat
    <3>1. b \in Grown(a, E) /\ b \in Authorities(E)
      <4> HIDE DEF b
      <4> QED BY <2>2 DEF Good, Grown
    <3>2. b.waitingCreds \in Seq(E)
      BY <3>1 DEF Authorities
    <3> QED BY <3>1, <3>2
  <2>5. (Still(R) => b = a) /\ (~ Still(R) => Len(b.waitingCreds) < n)
    <3> HIDE DEF b, R
    <3> QED BY <2>2 DEF Good
  <2> DEFINE r == RetryCredential(b, c)
  <2> HIDE DEF b, c, R, P, Still, n, x
  <2>6. /\ r \in Grown(b, E)
        /\ Len(r.waitingCreds) <= Len(b.waitingCreds)
        /\ MayAccept(b, c) /\ (\E i \in 1 .. Len(b.waitingCreds) : b.waitingCreds[i] = c)
             => Len(r.waitingCreds) < Len(b.waitingCreds)
        /\ ~ MayAccept(b, c) => r = b
    BY <2>2, <2>4, RetryTyped
  <2>7. r.waitingCreds \in Seq(E)
    BY <2>6 DEF Grown, Authorities
  <2>8. Len(r.waitingCreds) \in Nat
    BY <2>7
  <2> HIDE DEF r
  <2>9. r \in Grown(a, E)
    BY <2>4, <2>6, GrownTwice
  <2>10. CASE Still(R)
    <3>1. b = a
      BY <2>5, <2>10
    <3>2. CASE MayAccept(a, c)
      <4>1. \E i \in 1 .. Len(a.waitingCreds) : a.waitingCreds[i] = c
        BY <2>2 DEF c, n
      <4>2. Len(r.waitingCreds) < n
        BY <2>6, <3>1, <3>2, <4>1 DEF n
      <4> QED BY <2>2, <2>3, <2>9, <3>2, <4>2 DEF P, Good, r
    <3>3. CASE ~ MayAccept(a, c)
      BY <2>2, <2>3, <2>6, <2>9, <2>10, <3>1, <3>3 DEF P, Good, r
    <3> QED BY <3>2, <3>3
  <2>11. CASE ~ Still(R)
    <3>1. Len(r.waitingCreds) < n
      BY <1>2, <2>4, <2>5, <2>6, <2>8, <2>11
    <3> QED BY <2>2, <2>3, <2>9, <2>11, <3>1 DEF P, Good, r
  <2> QED BY <2>10, <2>11
<1> DEFINE S == 1 .. n
<1>6. Good(f[S], S)
  <2> HIDE DEF P, Good
  <2>1. IsFiniteSet(S) /\ LastIndex(n) \in Picks(S)
    BY <1>2, LastIndexPicks
  <2>2. \A T \in SUBSET S : T # {} /\ T \ {LastIndex(n)[T]} \in P => T \in P
    BY <1>5
  <2> HIDE DEF S
  <2> DEFINE pick == LastIndex(n)
  <2>3. pick \in Picks(S) /\ \A T \in SUBSET S : T # {} /\ T \ {pick[T]} \in P => T \in P
    BY <2>1, <2>2
  <2> HIDE DEF pick
  <2>4. S \in P
    BY <1>4, <2>1, <2>3, TakenOneByOne
  <2> QED BY <2>4 DEF P
<1>7. Saturated(a) <=> Still(S)
  BY <1>2 DEF Saturated
<1> HIDE DEF Still, S
<1>8. f[S] \in Grown(a, E) /\ (Still(S) => f[S] = a) /\ (~ Still(S) => Len(f[S].waitingCreds) < n)
  BY <1>6
<1> QED BY <1>7, <1>8 DEF S

\* There are no revocations to retry.
LEMMA NoRevocationsToRetry ==
  ASSUME NEW a
  PROVE  FoldLeft(RetryRevocation, a, <<>>) = a
<1> DEFINE Raw(f) ==
      f = [T \in SUBSET DOMAIN <<>> |->
             IF T = {} THEN a
             ELSE LET x == Max(T) IN RetryRevocation(f[T \ {x}], <<>>[x])]
<1>1. FoldLeft(RetryRevocation, a, <<>>) = (CHOOSE f : Raw(f))[DOMAIN <<>>]
  BY Zenon DEF FoldLeft, MapThenFoldSet
<1>2. DOMAIN <<>> = {} /\ SUBSET DOMAIN <<>> = {{}}
  OBVIOUS
<1> DEFINE f == [T \in {{}} |-> a]
<1>3. Raw(f)
  BY <1>2
<1> DEFINE g == CHOOSE h : Raw(h)
<1>4. Raw(g)
  BY <1>3
<1> HIDE DEF g
<1>5. g[{}] = a
  BY <1>2, <1>4
<1> QED BY <1>1, <1>2, <1>5 DEF g

\* One pass.
LEMMA PassGrows ==
  ASSUME NEW E, NEW a \in Authorities(E)
  PROVE  /\ RetryPass(a) \in Grown(a, E)
         /\ Saturated(a) => RetryPass(a) = a
         /\ ~ Saturated(a) => Len(RetryPass(a).waitingCreds) < Len(a.waitingCreds)
<1>1. a.waitingCreds \in Seq(E) /\ a.waitingRevs = <<>>
  BY DEF Authorities
<1>2. PICK f : /\ TakesRetries(f, a, a.waitingCreds)
               /\ FoldLeft(RetryCredential, a, a.waitingCreds) = f[1 .. Len(a.waitingCreds)]
  BY <1>1, RetriesFold
<1>3. RetryPass(a) = f[1 .. Len(a.waitingCreds)]
  BY <1>1, <1>2, NoRevocationsToRetry DEF RetryPass
<1> QED BY <1>2, <1>3, RetriesGrow

\* f[T] is what has become of `base` after as many passes as T has elements.
TakesPasses(f, base, k) ==
  /\ f[{}] = base
  /\ \A T \in SUBSET (1 .. k) : T # {} => f[T] = RetryPass(f[T \ {Max(T)}])

\* The passes are made one by one, as many as there is waiting.
LEMMA PassesFold ==
  ASSUME NEW E, NEW a \in Authorities(E)
  PROVE  LET k == Len(a.waitingCreds) IN
         \E f : TakesPasses(f, a, k) /\ RetryPending(a) = f[1 .. k]
<1> DEFINE D == Authorities(E)
<1> DEFINE k == Len(a.waitingCreds) + Len(a.waitingRevs)
<1> DEFINE s == [i \in 1 .. k |-> i]
<1> DEFINE step == [x \in D \X (1 .. k) |-> RetryPass(x[1])]
<1> DEFINE Raw(f) ==
      f = [T \in SUBSET DOMAIN s |->
             IF T = {} THEN a ELSE LET x == Max(T) IN RetryPass(f[T \ {x}])]
<1>1. RetryPending(a) = (CHOOSE f : Raw(f))[DOMAIN s]
  BY Zenon DEF RetryPending, FoldLeft, MapThenFoldSet
<1>2. k \in Nat /\ k = Len(a.waitingCreds)
  <2>1. a.waitingCreds \in Seq(E) /\ a.waitingRevs = <<>>
    BY DEF Authorities
  <2> QED BY <2>1
<1>3. \A b \in D : RetryPass(b) \in D
  BY PassGrows DEF Grown
<1>4. step \in [D \X (1 .. k) -> D]
  BY <1>3
<1>5. \A b \in D, i \in 1 .. k : step[<<b, i>>] = RetryPass(b)
  OBVIOUS
<1>6. DOMAIN s = 1 .. k
  OBVIOUS
<1> HIDE DEF step, D, s, k
<1>7. PICK f \in [SUBSET (1 .. k) -> D] : IsFold(f, 1 .. k, LastIndex(k), a, step)
  BY <1>2, <1>4, LastIndexPicks, FoldExists DEF D
<1>8. f[{}] = a
  BY <1>7 DEF IsFold
<1>9. ASSUME NEW T \in SUBSET (1 .. k), T # {} PROVE f[T] = RetryPass(f[T \ {Max(T)}])
  <2>1. LastIndex(k)[T] = Max(T) /\ Max(T) \in 1 .. k /\ T \ {Max(T)} \in SUBSET (1 .. k)
    BY <1>2, <1>9, LastIndexPicks
  <2>2. f[T] = step[<<f[T \ {Max(T)}], Max(T)>>]
    BY <1>7, <1>9, <2>1 DEF IsFold
  <2> QED BY <1>5, <2>1, <2>2
<1>10. Raw(f)
  BY <1>6, <1>8, <1>9
<1> DEFINE g == CHOOSE h : Raw(h)
<1>11. Raw(g)
  BY <1>10
<1>12. RetryPending(a) = g[1 .. k]
  BY <1>1, <1>6
<1> HIDE DEF g
<1>13. TakesPasses(g, a, k)
  BY <1>6, <1>11 DEF TakesPasses
<1> QED BY <1>2, <1>12, <1>13

\* The passes end where nothing that waits can be accepted; where that was so before,
\* they change nothing (retryPendingCredentials).
LEMMA PendingSettled ==
  ASSUME NEW E, NEW a \in Authorities(E)
  PROVE  /\ RetryPending(a) \in Grown(a, E)
         /\ Saturated(RetryPending(a))
         /\ Saturated(a) => RetryPending(a) = a
<1> DEFINE k == Len(a.waitingCreds)
<1>1. k \in Nat
  <2>1. a.waitingCreds \in Seq(E)
    BY DEF Authorities
  <2> QED BY <2>1
<1>2. PICK f : TakesPasses(f, a, k) /\ RetryPending(a) = f[1 .. k]
  BY PassesFold
<1> DEFINE Good(b, T) ==
      /\ b \in Grown(a, E)
      /\ Saturated(b) \/ Len(b.waitingCreds) + Cardinality(T) <= k
      /\ Saturated(a) => b = a
<1> DEFINE P == {T \in SUBSET (1 .. k) : Good(f[T], T)}
<1>3. f[{}] = a /\ \A T \in SUBSET (1 .. k) : T # {} => f[T] = RetryPass(f[T \ {Max(T)}])
  BY <1>2 DEF TakesPasses
<1>4. {} \in P
  <2>1. a \in Grown(a, E) /\ Cardinality({}) = 0
    BY FS_EmptySet DEF Grown
  <2> QED BY <1>1, <1>3, <2>1
<1>5. ASSUME NEW T \in SUBSET (1 .. k), T # {}, T \ {LastIndex(k)[T]} \in P PROVE T \in P
  <2> DEFINE x == Max(T)
  <2> DEFINE R == T \ {x}
  <2> DEFINE b == f[R]
  <2>1. LastIndex(k)[T] = x /\ x \in T
    BY <1>1, <1>5, LastIndexPicks
  <2> HIDE DEF Good
  <2>2. Good(b, R) /\ f[T] = RetryPass(b)
    BY <1>3, <1>5, <2>1
  <2>3. IsFiniteSet(T) /\ Cardinality(R) = Cardinality(T) - 1 /\ Cardinality(T) \in Nat
    <3>1. IsFiniteSet(T)
      BY <1>1, LastIndexPicks, FS_Subset
    <3> QED BY <2>1, <3>1, FS_RemoveElement, FS_CardinalityType
  <2> HIDE DEF b, R, P, k, x
  <2>4. b \in Grown(a, E) /\ b \in Authorities(E)
    BY <2>2 DEF Good, Grown
  <2>5. Saturated(b) \/ Len(b.waitingCreds) + Cardinality(R) <= k
    BY <2>2 DEF Good
  <2>6. Saturated(a) => b = a
    BY <2>2 DEF Good
  <2> DEFINE r == RetryPass(b)
  <2>7. r \in Grown(b, E) /\ (Saturated(b) => r = b) /\ (~ Saturated(b) => Len(r.waitingCreds) < Len(b.waitingCreds))
    BY <2>4, PassGrows
  <2>8. b.waitingCreds \in Seq(E) /\ r.waitingCreds \in Seq(E)
    BY <2>4, <2>7 DEF Grown, Authorities
  <2>9. Len(b.waitingCreds) \in Nat /\ Len(r.waitingCreds) \in Nat
    BY <2>8
  <2> HIDE DEF r
  <2>10. r \in Grown(a, E)
    BY <2>4, <2>7, GrownTwice
  <2>11. Saturated(r) \/ Len(r.waitingCreds) + Cardinality(T) <= k
    BY <1>1, <2>3, <2>5, <2>7, <2>9
  <2>12. Saturated(a) => r = a
    BY <2>6, <2>7
  <2> QED BY <2>2, <2>10, <2>11, <2>12 DEF P, Good, r
<1> DEFINE S == 1 .. k
<1> DEFINE b == RetryPending(a)
<1>6. Good(f[S], S)
  <2> HIDE DEF P, Good
  <2>1. IsFiniteSet(S) /\ LastIndex(k) \in Picks(S)
    BY <1>1, LastIndexPicks
  <2>2. \A T \in SUBSET S : T # {} /\ T \ {LastIndex(k)[T]} \in P => T \in P
    BY <1>5
  <2> HIDE DEF S
  <2>3. S \in P
    BY <1>4, <2>1, <2>2, TakenOneByOne
  <2> QED BY <2>3 DEF P
<1>7. Cardinality(S) = k
  BY <1>1, FS_Interval
<1>8. b = f[S]
  BY <1>2
<1> HIDE DEF S, b, k
<1>9. b \in Grown(a, E) /\ (Saturated(b) \/ Len(b.waitingCreds) + k <= k) /\ (Saturated(a) => b = a)
  BY <1>6, <1>7, <1>8
<1>10. b.waitingCreds \in Seq(E)
  BY <1>9 DEF Grown, Authorities
<1>11. ASSUME Len(b.waitingCreds) + k <= k PROVE Saturated(b)
  <2>1. Len(b.waitingCreds) \in Nat
    BY <1>10
  <2>2. Len(b.waitingCreds) = 0
    BY <1>1, <1>11, <2>1
  <2>3. DOMAIN b.waitingCreds = {}
    BY <1>10, <2>2
  <2> QED BY <2>3 DEF Saturated
<1> QED BY <1>9, <1>11 DEF b

-----------------------------------------------------------------------------
(* A pull accepts credentials, and what it accepts stays accepted.         *)

\* The credentials that a pulled event tells of: the one it brings, and the one that is
\* sealed in with it unless a ticket stands in for it.
CredentialsAt(l, seals, n) ==
  (IF BringsCredential(l[n]) THEN {n} ELSE {}) \cup (IF IsDirect(l[seals[n]]) THEN {seals[n]} ELSE {})
CredentialsIn(l, seals, S) == UNION {CredentialsAt(l, seals, n) : n \in S}
CredentialsOf(n) == CredentialsAt(log, sealed, n)
Credentials(S) == CredentialsIn(log, sealed, S)

\* Events that tell of credentials in E, and of no revocation.
Quiet(E) == {n \in Nat : CredentialsOf(n) \subseteq E /\ ~ BringsRevocation(log[n])}

\* A credential is accepted or waits,
LEMMA AcceptCredentialGrows ==
  ASSUME NEW E, NEW a \in Authorities(E), NEW c \in E
  PROVE  AcceptCredential(a, c) \in Grown(a, E) /\ c \in Held(AcceptCredential(a, c))
<1>1. a \in Grown(a, E)
  BY DEF Grown
<1>2. ASSUME MayAccept(a, c) PROVE Accept(a, c) \in Grown(a, E) /\ c \in Held(Accept(a, c))
  <2> DEFINE b == Accept(a, c)
  <2>1. b \in Authorities(E) /\ b.creds = a.creds \cup {c} /\ b.waitingCreds = a.waitingCreds
    BY DEF Accept, Authorities
  <2> HIDE DEF b
  <2>2. b \in Grown(a, E) /\ c \in Held(b)
    BY <1>2, <2>1, AcceptingGrows
  <2> QED BY <2>2 DEF b
<1> DEFINE w == IF c \in ToSet(a.waitingCreds) THEN a.waitingCreds ELSE Append(a.waitingCreds, c)
<1>3. w \in Seq(E) /\ ToSet(a.waitingCreds) \subseteq ToSet(w) /\ c \in ToSet(w)
  <2> DEFINE s == a.waitingCreds
  <2>1. s \in Seq(E)
    BY DEF Authorities
  <2> HIDE DEF s
  <2>2. Append(s, c) \in Seq(E)
    BY <2>1
  <2>3. ToSet(Append(s, c)) = ToSet(s) \cup {c}
    BY <2>1, SetWithOneMore
  <2>4. CASE c \in ToSet(s)
    BY <2>1, <2>4 DEF s
  <2>5. CASE c \notin ToSet(s)
    <3>1. w = Append(s, c)
      BY <2>5 DEF s
    <3> HIDE DEF w
    <3> QED BY <2>2, <2>3, <3>1 DEF s
  <2> QED BY <2>4, <2>5
<1>4. [a EXCEPT !.waitingCreds = IF c \in ToSet(@) THEN @ ELSE Append(@, c)] = [a EXCEPT !.waitingCreds = w]
  BY Zenon
<1> HIDE DEF w
<1> DEFINE b == [a EXCEPT !.waitingCreds = w]
<1>5. b \in Authorities(E) /\ b.creds = a.creds /\ b.waitingCreds = w /\ b.revs = a.revs
  BY <1>3 DEF Authorities
<1> HIDE DEF b
<1>6. b \in Grown(a, E) /\ c \in Held(b)
  <2>1. Held(a) \subseteq Held(b) /\ c \in Held(b)
    BY <1>3, <1>5 DEF Held
  <2>2. Sound(a) => Sound(b)
    BY <1>5 DEF Sound, MayAccept
  <2> QED BY <1>5, <2>1, <2>2 DEF Grown
<1>7. c \in a.creds => c \in Held(a)
  BY DEF Held
<1> QED BY <1>1, <1>2, <1>4, <1>6, <1>7 DEF AcceptCredential, b

\* and so is what an event brings and what is sealed in with it.
LEMMA AcceptEventGrows ==
  ASSUME NEW E, NEW a \in Authorities(E), NEW n \in Quiet(E)
  PROVE  AcceptEvent(a, n) \in Grown(a, E) /\ CredentialsOf(n) \subseteq Held(AcceptEvent(a, n))
<1> DEFINE b == IF IsDirect(log[sealed[n]]) THEN AcceptCredential(a, sealed[n]) ELSE a
<1> DEFINE c == IF BringsCredential(log[n]) THEN AcceptCredential(b, n) ELSE b
<1>1. /\ IsDirect(log[sealed[n]]) => sealed[n] \in E
      /\ BringsCredential(log[n]) => n \in E
      /\ ~ BringsRevocation(log[n])
  BY DEF Quiet, CredentialsOf, CredentialsAt
<1>2. b \in Grown(a, E) /\ (IsDirect(log[sealed[n]]) => sealed[n] \in Held(b))
  <2>1. a \in Grown(a, E)
    BY DEF Grown
  <2> QED BY <1>1, <2>1, AcceptCredentialGrows
<1>3. AcceptEvent(a, n) = c
  BY <1>1 DEF AcceptEvent
<1> HIDE DEF b
<1>4. b \in Authorities(E)
  BY <1>2 DEF Grown
<1>5. c \in Grown(b, E) /\ (BringsCredential(log[n]) => n \in Held(c))
  <2>1. b \in Grown(b, E)
    BY <1>4 DEF Grown
  <2> QED BY <1>1, <1>4, <2>1, AcceptCredentialGrows
<1> HIDE DEF c
<1>6. Held(b) \subseteq Held(c)
  BY <1>5 DEF Grown
<1>7. CredentialsOf(n) \subseteq Held(c)
  BY <1>2, <1>5, <1>6 DEF CredentialsOf, CredentialsAt
<1> QED BY <1>2, <1>3, <1>5, <1>7, GrownTwice

\* f[T] is what has become of `base` after the events of s with index in T.
TakesEvents(f, base, s) ==
  /\ f[{}] = base
  /\ \A T \in SUBSET (1 .. Len(s)) : T # {} => f[T] = AcceptEvent(f[T \ {Max(T)}], s[Max(T)])

\* A pull takes its events one by one.
LEMMA EventsFold ==
  ASSUME NEW E, NEW s \in Seq(Quiet(E)), NEW a \in Authorities(E)
  PROVE  \E f : TakesEvents(f, a, s) /\ FoldLeft(AcceptEvent, a, s) = f[1 .. Len(s)]
<1> DEFINE D == Authorities(E)
<1> DEFINE n == Len(s)
<1> DEFINE step == [x \in D \X (1 .. n) |-> AcceptEvent(x[1], s[x[2]])]
<1> DEFINE Raw(f) ==
      f = [T \in SUBSET DOMAIN s |->
             IF T = {} THEN a ELSE LET x == Max(T) IN AcceptEvent(f[T \ {x}], s[x])]
<1>1. FoldLeft(AcceptEvent, a, s) = (CHOOSE f : Raw(f))[DOMAIN s]
  BY Zenon DEF FoldLeft, MapThenFoldSet
<1>2. n \in Nat /\ DOMAIN s = 1 .. n /\ \A i \in 1 .. n : s[i] \in Quiet(E)
  OBVIOUS
<1>3. \A b \in D, i \in 1 .. n : AcceptEvent(b, s[i]) \in D
  BY <1>2, AcceptEventGrows DEF Grown
<1>4. step \in [D \X (1 .. n) -> D]
  BY <1>3
<1>5. \A b \in D, i \in 1 .. n : step[<<b, i>>] = AcceptEvent(b, s[i])
  OBVIOUS
<1> HIDE DEF step, D, n
<1>6. PICK f \in [SUBSET (1 .. n) -> D] : IsFold(f, 1 .. n, LastIndex(n), a, step)
  BY <1>2, <1>4, LastIndexPicks, FoldExists DEF D
<1>7. f[{}] = a
  BY <1>6 DEF IsFold
<1>8. ASSUME NEW T \in SUBSET (1 .. n), T # {} PROVE f[T] = AcceptEvent(f[T \ {Max(T)}], s[Max(T)])
  <2>1. LastIndex(n)[T] = Max(T) /\ Max(T) \in 1 .. n /\ T \ {Max(T)} \in SUBSET (1 .. n)
    BY <1>2, <1>8, LastIndexPicks
  <2>2. f[T] = step[<<f[T \ {Max(T)}], Max(T)>>]
    BY <1>6, <1>8, <2>1 DEF IsFold
  <2> QED BY <1>5, <2>1, <2>2
<1>9. Raw(f)
  BY <1>2, <1>7, <1>8
<1> DEFINE g == CHOOSE h : Raw(h)
<1>10. Raw(g)
  BY <1>9
<1>11. FoldLeft(AcceptEvent, a, s) = g[1 .. n]
  BY <1>1, <1>2
<1> HIDE DEF g
<1>12. TakesEvents(g, a, s)
  BY <1>2, <1>10 DEF TakesEvents, n
<1> QED BY <1>11, <1>12 DEF n

\* A pull of such events only adds credentials, and leaves none waiting that could be
\* accepted; a pull of nothing changes nothing then (pull of the sync provider).
LEMMA AcceptAllGrows ==
  ASSUME NEW E, NEW s \in Seq(Quiet(E)), NEW a \in Authorities(E)
  PROVE  /\ AcceptAll(a, s) \in Grown(a, E)
         /\ Saturated(AcceptAll(a, s))
         /\ s = <<>> /\ Saturated(a) => AcceptAll(a, s) = a
         /\ Credentials(ToSet(s)) \subseteq Held(AcceptAll(a, s))
<1> DEFINE n == Len(s)
<1>1. PICK f : TakesEvents(f, a, s) /\ FoldLeft(AcceptEvent, a, s) = f[1 .. n]
  BY EventsFold
<1>2. f[{}] = a /\ \A T \in SUBSET (1 .. n) : T # {} => f[T] = AcceptEvent(f[T \ {Max(T)}], s[Max(T)])
  BY <1>1 DEF TakesEvents
<1>3. n \in Nat /\ \A i \in 1 .. n : s[i] \in Quiet(E)
  OBVIOUS
<1> DEFINE Known(b, T) == \A i \in T : CredentialsOf(s[i]) \subseteq Held(b)
<1> DEFINE P == {T \in SUBSET (1 .. n) : f[T] \in Grown(a, E) /\ Known(f[T], T)}
<1>4. {} \in P
  BY <1>2 DEF Grown
<1>5. ASSUME NEW T \in SUBSET (1 .. n), T # {}, T \ {LastIndex(n)[T]} \in P PROVE T \in P
  <2> DEFINE x == Max(T)
  <2> DEFINE R == T \ {x}
  <2> DEFINE b == f[R]
  <2> DEFINE c == f[T]
  <2>1. LastIndex(n)[T] = x /\ x \in T
    BY <1>3, <1>5, LastIndexPicks
  <2>2. b \in Grown(a, E) /\ Known(b, R) /\ c = AcceptEvent(b, s[x]) /\ s[x] \in Quiet(E)
    BY <1>2, <1>3, <1>5, <2>1
  <2>3. \A i \in T : i = x \/ i \in R
    OBVIOUS
  <2> HIDE DEF b, x, c, R
  <2>4. b \in Authorities(E)
    BY <2>2 DEF Grown
  <2>5. c \in Grown(b, E) /\ CredentialsOf(s[x]) \subseteq Held(c)
    BY <2>2, <2>4, AcceptEventGrows
  <2>6. c \in Grown(a, E)
    BY <2>2, <2>5, GrownTwice
  <2>7. Held(b) \subseteq Held(c)
    BY <2>5 DEF Grown
  <2>8. Known(c, T)
    BY <2>2, <2>3, <2>5, <2>7
  <2> QED BY <2>6, <2>8 DEF c
<1> DEFINE S == 1 .. n
<1>6. f[S] \in Grown(a, E) /\ Known(f[S], S)
  <2> HIDE DEF P
  <2> DEFINE pick == LastIndex(n)
  <2>1. IsFiniteSet(S) /\ pick \in Picks(S)
    BY <1>3, LastIndexPicks
  <2>2. \A T \in SUBSET S : T # {} /\ T \ {pick[T]} \in P => T \in P
    BY <1>5
  <2> HIDE DEF S, pick
  <2>3. S \in P
    BY <1>4, <2>1, <2>2, TakenOneByOne
  <2> QED BY <2>3 DEF P
<1>7. AcceptAll(a, s) = RetryPending(f[S])
  BY <1>1 DEF AcceptAll
<1>8. s = <<>> => f[S] = a
  <2>1. s = <<>> => S = {}
    OBVIOUS
  <2> QED BY <1>2, <2>1
<1>9. \A v \in ToSet(s) : \E i \in S : v = s[i]
  BY DEF ToSet
<1> DEFINE b == f[S]
<1> DEFINE c == RetryPending(b)
<1> HIDE DEF S, b
<1>10. b \in Authorities(E)
  BY <1>6 DEF Grown, b
<1>11. c \in Grown(b, E) /\ Saturated(c) /\ (Saturated(b) => c = b)
  BY <1>10, PendingSettled
<1> HIDE DEF c
<1>12. c \in Grown(a, E)
  BY <1>6, <1>11, GrownTwice DEF b
<1>13. Held(b) \subseteq Held(c)
  BY <1>11 DEF Grown
<1>14. Credentials(ToSet(s)) \subseteq Held(c)
  BY <1>6, <1>9, <1>13 DEF Credentials, CredentialsIn, CredentialsOf, b
<1> QED BY <1>7, <1>8, <1>11, <1>12, <1>14 DEF b, c

-----------------------------------------------------------------------------
(* In a unit where nobody is removed and no role changes, what a device    *)
(* shows is the fold of what it knows.                                     *)

\* Nobody is removed and no role changes; members may have joined in any way, and the
\* credentials of some may still be on their way to others.
SteadyMembership ==
  /\ Commands \in [Device -> SUBSET StockTypes]
  /\ \A n \in DOMAIN Founding : ~ BringsRevocation(Founding[n])

QuietLog == \A n \in 1 .. Len(log) : ~ BringsRevocation(log[n])

\* Every published event was sealed with a credential that some event brought.
SealHolds ==
  /\ DOMAIN sealed = Event
  /\ own \in [Device -> 1 .. Len(log)]
  /\ \A d \in Device : \A n \in ledger[d] : sealed[n] \in 1 .. Len(log)

AuthHolds ==
  /\ auth \in [Device -> Authorities(1 .. Len(log))]
  /\ \A d \in Device : Saturated(auth[d])

\* What a device pulls is not folded yet: an own event is in no ledger while it is
\* queued, and what is in its ledger arrives once.
OnItsWay(d) == pulled[d] \cup ToSet(backlog[d])
WayHolds ==
  \A d \in Device :
    /\ \A e \in Device : draft[d] \notin ledger[e] /\ outbox[d] \cap ledger[e] = {}
    /\ OnItsWay(d) \cap known[d] = {} /\ pulled[d] \cap ToSet(backlog[d]) = {}
    /\ phase[d] = "receive" <=> pulled[d] # {}

\* p and its last key k are the fold of S, with the authorizations a or, as long as
\* something is on its way, with the credentials of some moment before.
HasFolded(l, p, k, a, S, way) ==
  /\ k = KeyOf(l, S)
  /\ \E creds \in SUBSET a.creds :
       /\ p = Rebuild(l, creds, a.revs, S)
       /\ creds = a.creds \/ way # {}
FoldHolds ==
  /\ DOMAIN lastKey = Device
  /\ \A d \in Device : HasFolded(log, projection[d], lastKey[d], auth[d], known[d], OnItsWay(d))

SteadyInv == QuietLog /\ SealHolds /\ AuthHolds /\ WayHolds /\ FoldHolds

\* An event is judged the same, whatever other events the history has.
LEMMA SameTry ==
  ASSUME NEW l, NEW l2, NEW creds, SaysAlike(l, l2, creds), NEW revs,
         NEW S, SaysAlike(l, l2, S), NEW q, SaysAlike(l, l2, q.applied), NEW n, l2[n] = l[n]
  PROVE  TryApply(l2, creds, revs, S, q, n) = TryApply(l, creds, revs, S, q, n)
<1>1. SaysAlike(l2, l, creds) /\ l[n] = l2[n]
  BY DEF SaysAlike
<1>2. \A device, type, at : Allowed(l, creds, revs, device, type, at)
                              <=> Allowed(l2, creds, revs, device, type, at)
  BY <1>1, StaysAllowed
<1>3. ChainValid(l, creds, revs, n) <=> ChainValid(l2, creds, revs, n)
  BY <1>1, StaysValid
<1>4. AuthorMay(l, creds, revs, q, n) <=> AuthorMay(l2, creds, revs, q, n)
  BY <1>1, <1>2 DEF AuthorMay
<1>5. Applicable(l, creds, revs, q, n) <=> Applicable(l2, creds, revs, q, n)
  BY <1>1, <1>3 DEF Applicable
<1>6. Effect(l2, S, q, n) = Effect(l, S, q, n)
  BY SameEffect
<1> QED BY <1>4, <1>5, <1>6 DEF TryApply

\* So signing an event changes no fold of others, and no order among them.
LEMMA SameFold ==
  ASSUME NEW l, NEW l2, NEW creds, SaysAlike(l, l2, creds), NEW revs,
         NEW S, Told(l, S), SaysAlike(l, l2, S)
  PROVE  Rebuild(l2, creds, revs, S) = Rebuild(l, creds, revs, S) /\ KeyOf(l2, S) = KeyOf(l, S)
<1>1. S \in SUBSET Event /\ Told(l2, S) /\ \A m, n \in S : Before(l, m, n) <=> Before(l2, m, n)
  BY DEF Told, SaysAlike, Before
<1>2. Genesis \in Projections /\ Genesis.applied = {}
  BY GenesisTyped DEF Genesis
<1> DEFINE X == Rebuild(l, creds, revs, S).rejected
<1>3. Alike(l, creds, revs, S, l2, creds, revs, S, S, S, X)
  <2>1. ASSUME NEW q \in Projections, NEW n \in S, q.applied \subseteq S
        PROVE  TryApply(l2, creds, revs, S, q, n) = TryApply(l, creds, revs, S, q, n)
    <3>1. SaysAlike(l, l2, q.applied) /\ l2[n] = l[n]
      BY <2>1 DEF SaysAlike
    <3> QED BY <3>1, SameTry
  <2> HIDE DEF X
  <2> QED BY <1>1, <2>1 DEF Alike
<1> HIDE DEF X
<1>4. Alike(l, creds, revs, S, l2, creds, revs, S, Genesis.applied \cup S, S, X)
  <2>1. Genesis.applied \cup S = S
    BY <1>2
  <2> QED BY <1>3, <2>1
<1>5. FoldFrom(l, creds, revs, S, Genesis, S).rejected \subseteq X
  BY DEF Rebuild, X
<1>6. Rebuild(l2, creds, revs, S) = Rebuild(l, creds, revs, S)
  BY <1>1, <1>2, <1>4, <1>5, FoldsAgree DEF Rebuild
<1>7. KeyOf(l2, S) = KeyOf(l, S)
  <2>1. CASE S = {}
    BY <2>1 DEF KeyOf
  <2>2. CASE S # {}
    <3> DEFINE n == LastOf(l, S)
    <3>1. S \in SUBSET S /\ Placed(l, S) /\ Placed(l2, S)
      BY <1>1, ToldIsPlaced
    <3>2. n \in S /\ \A m \in S \ {n} : Before(l, m, n)
      BY <2>2, <3>1, LastIsLast
    <3>3. \A m \in S \ {n} : Before(l2, m, n)
      BY <1>1, <3>2
    <3> HIDE DEF n
    <3>4. LastOf(l2, S) = n
      BY <3>1, <3>2, <3>3, LastIsUnique
    <3> QED BY <2>2, <3>4 DEF KeyOf, n
  <2> QED BY <2>1, <2>2
<1> QED BY <1>6, <1>7

\* Commands of such a unit draft stock events only, each in the place after all others.
SignsStock(d) ==
  /\ \E e : e.type \in StockTypes /\ log' = Append(log, e)
  /\ draft' = [draft EXCEPT ![d] = Len(log) + 1]
  /\ UNCHANGED <<ledger, sealed, known, projection, lastKey, outbox, phase, backlog, pulled, auth, own>>

\* No other command is given.
LEMMA CommandSignsStock ==
  ASSUME SteadyMembership, NEW d \in Device,
         \/ \E type \in StockTypes, quantity \in Quantities : DraftStock(d, type, quantity)
         \/ \E subject \in Device : DraftRevocation(d, subject)
         \/ \E subject \in Device, role \in Roles : DraftRoleChange(d, subject, role)
  PROVE  SignsStock(d)
<1>1. Commands[d] \subseteq StockTypes
  BY DEF SteadyMembership
<1>2. ASSUME NEW type, MayDraft(d, type) PROVE type \in StockTypes
  BY <1>1, <1>2 DEF MayDraft
<1>3. ASSUME NEW type \in StockTypes, NEW quantity, DraftStock(d, type, quantity) PROVE SignsStock(d)
  <2> DEFINE e == Drafted(d, type, NoEvent, "NONE", NoEvent, d, quantity)
  <2>1. e.type \in StockTypes
    BY DEF Drafted
  <2> HIDE DEF e
  <2>2. log' = Append(log, e) /\ draft' = [draft EXCEPT ![d] = Len(log) + 1]
    BY <1>3 DEF DraftStock, Now, e
  <2> QED BY <1>3, <2>1, <2>2 DEF DraftStock, SignsStock, replicaVars, syncVars
<1>4. ~ MayDraft(d, "AUTHORITY_REVOKED") /\ ~ MayDraft(d, "ROLE_CHANGED")
  BY <1>2 DEF StockTypes
<1>5. \A subject : ~ DraftRevocation(d, subject)
  BY <1>4 DEF DraftRevocation
<1>6. \A subject, role : ~ DraftRoleChange(d, subject, role)
  BY <1>4 DEF DraftRoleChange
<1> QED BY <1>3, <1>5, <1>6

\* What may not be accepted may not be accepted for another event either.
LEMMA SameAcceptance ==
  ASSUME NEW l, NEW l2, NEW creds, SaysAlike(l, l2, creds), NEW revs, NEW c, l2[c] = l[c]
  PROVE  CanAcceptCredential(l2, creds, revs, c) <=> CanAcceptCredential(l, creds, revs, c)
<1>1. \A m \in creds : l2[m] = l[m]
  BY DEF SaysAlike
<1> QED BY <1>1 DEF CanAcceptCredential, IssuerCanAuthorize

\* A new event changes no fold and no authority, and is on no way yet.
LEMMA SigningStaysSteady ==
  ASSUME IInv, TypedInv, SteadyInv, NEW d \in Device, SignsStock(d)
  PROVE  SteadyInv'
<1> DEFINE E == 1 .. Len(log)
<1>1. PICK e : e.type \in StockTypes /\ log' = Append(log, e)
  BY DEF SignsStock
<1>2. /\ Len(log') = Len(log) + 1 /\ Len(log) \in Nat
      /\ \A i \in 1 .. Len(log) : log'[i] = log[i]
      /\ log'[Len(log) + 1] = e
  BY <1>1, Appended DEF IInv, LogShape
<1> DEFINE F == 1 .. Len(log')
<1>3. E \subseteq F /\ (\A n \in F : n \in E \/ n = Len(log) + 1) /\ Len(log) + 1 \notin E
  BY <1>2
<1>4. \A n \in E : log'[n] = log[n]
  BY <1>2
<1>5. UNCHANGED <<ledger, sealed, known, projection, lastKey, outbox, phase, backlog, pulled, auth, own>>
  BY DEF SignsStock
<1>6. draft' = [draft EXCEPT ![d] = Len(log) + 1]
  BY DEF SignsStock
<1>7. (\A x \in Device : ledger[x] \subseteq E /\ known[x] \subseteq E) /\ DOMAIN draft = Device
  BY DEF IInv, MemoryShape
<1>8. QuietLog'
  <2>1. ~ BringsRevocation(log'[Len(log) + 1])
    BY <1>1, <1>2 DEF BringsRevocation, StockTypes
  <2>2. \A n \in E : ~ BringsRevocation(log[n])
    BY DEF SteadyInv, QuietLog
  <2>3. \A n \in E : ~ BringsRevocation(log'[n])
    <3> HIDE DEF E
    <3> QED BY <1>4, <2>2 DEF BringsRevocation
  <2> HIDE DEF E
  <2>4. \A n \in F : ~ BringsRevocation(log'[n])
    BY <1>3, <2>1, <2>3
  <2> QED BY <2>4 DEF QuietLog
<1>9. auth \in [Device -> Authorities(E)] /\ \A x \in Device : Saturated(auth[x])
  BY DEF SteadyInv, AuthHolds
<1>10. SealHolds'
  <2>1. DOMAIN sealed = Event /\ own \in [Device -> E] /\ \A x \in Device : \A n \in ledger[x] : sealed[n] \in E
    BY DEF SteadyInv, SealHolds
  <2>2. own \in [Device -> F] /\ \A x \in Device : \A n \in ledger[x] : sealed[n] \in F
    <3> HIDE DEF E, F
    <3> QED BY <1>3, <2>1
  <2> QED BY <1>5, <2>1, <2>2 DEF SealHolds
<1>11. WayHolds'
  <2>1. \A x \in Device : draft'[x] = draft[x] \/ draft'[x] = Len(log) + 1
    BY <1>6, <1>7
  <2>2. \A x \in Device : OnItsWay(x)' = OnItsWay(x)
    BY <1>5 DEF OnItsWay
  <2>3. \A x, y \in Device : draft'[x] \notin ledger[y]
    <3> HIDE DEF E
    <3> QED BY <1>3, <1>7, <2>1 DEF SteadyInv, WayHolds
  <2> QED BY <1>5, <2>2, <2>3 DEF SteadyInv, WayHolds
<1>12. \A x \in Device : auth[x].creds \subseteq E /\ \A i \in DOMAIN auth[x].waitingCreds : auth[x].waitingCreds[i] \in E
  <2> HIDE DEF E
  <2>1. \A s \in Seq(E) : \A i \in DOMAIN s : s[i] \in E
    OBVIOUS
  <2> QED BY <1>9, <2>1 DEF Authorities
<1>13. \A S : S \subseteq E => SaysAlike(log, log', S)
  BY <1>4 DEF SaysAlike
<1> HIDE DEF E, F
<1>14. AuthHolds'
  <2>1. \A s \in Seq(E) : s \in Seq(F)
    BY <1>3
  <2>2. \A a \in Authorities(E) : a \in Authorities(F)
    BY <1>3, <2>1 DEF Authorities
  <2>3. auth' \in [Device -> Authorities(F)]
    BY <1>5, <1>9, <2>2
  <2>4. ASSUME NEW x \in Device, NEW i \in DOMAIN auth[x].waitingCreds
        PROVE  ~ CanAcceptCredential(log', auth[x].creds, auth[x].revs, auth[x].waitingCreds[i])
    <3>1. ~ CanAcceptCredential(log, auth[x].creds, auth[x].revs, auth[x].waitingCreds[i])
      BY <1>9 DEF Saturated, MayAccept
    <3>2. SaysAlike(log, log', auth[x].creds)
      BY <1>12, <1>13
    <3>3. log'[auth[x].waitingCreds[i]] = log[auth[x].waitingCreds[i]]
      BY <1>4, <1>12
    <3> QED BY <3>1, <3>2, <3>3, SameAcceptance
  <2>5. \A x \in Device : Saturated(auth[x])'
    BY <1>5, <2>4 DEF Saturated, MayAccept
  <2> QED BY <2>3, <2>5 DEF AuthHolds, F
<1>15. FoldHolds'
  <2>1. ASSUME NEW x \in Device
        PROVE  HasFolded(log', projection[x], lastKey[x], auth[x], known[x], OnItsWay(x))
    <3>1. HasFolded(log, projection[x], lastKey[x], auth[x], known[x], OnItsWay(x))
      BY DEF SteadyInv, FoldHolds
    <3>2. PICK creds \in SUBSET auth[x].creds :
            /\ projection[x] = Rebuild(log, creds, auth[x].revs, known[x])
            /\ creds = auth[x].creds \/ OnItsWay(x) # {}
      BY <3>1 DEF HasFolded
    <3>3. SaysAlike(log, log', creds) /\ SaysAlike(log, log', known[x])
      BY <1>7, <1>12, <1>13
    <3>4. Told(log, known[x])
      BY <1>7, SignedIsTold DEF E, IInv, TypedInv
    <3>5. /\ Rebuild(log', creds, auth[x].revs, known[x]) = Rebuild(log, creds, auth[x].revs, known[x])
          /\ KeyOf(log', known[x]) = KeyOf(log, known[x])
      <4> DEFINE l2 == log'
      <4> DEFINE revs == auth[x].revs
      <4> DEFINE S == known[x]
      <4>1. SaysAlike(log, l2, creds) /\ SaysAlike(log, l2, S) /\ Told(log, S)
        BY <3>3, <3>4
      <4> HIDE DEF l2, revs, S
      <4>2. Rebuild(l2, creds, revs, S) = Rebuild(log, creds, revs, S) /\ KeyOf(l2, S) = KeyOf(log, S)
        BY <4>1, SameFold
      <4> QED BY <4>2 DEF l2, revs, S
    <3> QED BY <3>1, <3>2, <3>5 DEF HasFolded
  <2>2. \A x \in Device : OnItsWay(x)' = OnItsWay(x)
    BY <1>5 DEF OnItsWay
  <2>3. DOMAIN lastKey' = Device
    BY <1>5 DEF SteadyInv, FoldHolds
  <2> QED BY <1>5, <2>1, <2>2, <2>3 DEF FoldHolds
<1> QED BY <1>8, <1>10, <1>11, <1>14, <1>15 DEF SteadyInv

\* What a step leaves alone stays as it was.
LEMMA LogAndAuthStay ==
  ASSUME SteadyInv, UNCHANGED log
  PROVE  /\ QuietLog'
         /\ UNCHANGED auth => AuthHolds'
         /\ UNCHANGED <<sealed, own, ledger>> => SealHolds'
<1>1. QuietLog'
  BY DEF SteadyInv, QuietLog
<1>2. ASSUME UNCHANGED auth PROVE AuthHolds'
  <2>1. \A x \in Device : Saturated(auth[x])' <=> Saturated(auth[x])
    BY <1>2 DEF Saturated, MayAccept
  <2> QED BY <1>2, <2>1 DEF SteadyInv, AuthHolds
<1>3. ASSUME UNCHANGED <<sealed, own, ledger>> PROVE SealHolds'
  BY <1>3 DEF SteadyInv, SealHolds
<1> QED BY <1>1, <1>2, <1>3

\* A fold stands while its events and authorizations do, and what is on its way stays
\* on its way.
LEMMA FoldsStand ==
  ASSUME SteadyInv, UNCHANGED <<log, known, projection, lastKey, auth>>,
         \A x \in Device : OnItsWay(x) # {} => OnItsWay(x)' # {}
  PROVE  FoldHolds'
<1>1. \A x \in Device : HasFolded(log, projection[x], lastKey[x], auth[x], known[x], OnItsWay(x))
  BY DEF SteadyInv, FoldHolds
<1>2. \A x \in Device : HasFolded(log, projection[x], lastKey[x], auth[x], known[x], OnItsWay(x)')
  BY <1>1 DEF HasFolded
<1>3. DOMAIN lastKey' = Device
  BY DEF SteadyInv, FoldHolds
<1> QED BY <1>2, <1>3 DEF FoldHolds

\* Storing new events leaves the fold of all of them, with the authorizations of now.
LEMMA StoringFolds ==
  ASSUME IInv, TypedInv, SteadyInv, NEW d \in Device,
         NEW fresh \in SUBSET (1 .. Len(log)), fresh # {}, Store(d, fresh),
         UNCHANGED <<log, auth>>, \A x \in Device \ {d} : OnItsWay(x)' = OnItsWay(x)
  PROVE  FoldHolds'
<1> DEFINE all == known[d] \cup fresh
<1>1. /\ known' = [known EXCEPT ![d] = all]
      /\ projection' = [projection EXCEPT ![d] = Integrated(d, fresh)]
      /\ lastKey' = [lastKey EXCEPT ![d] = LastOf(log, IF ExtendsHistory(d, fresh) THEN fresh ELSE all)]
  BY DEF Store
<1>2. /\ DOMAIN lastKey = Device
      /\ \A x \in Device : HasFolded(log, projection[x], lastKey[x], auth[x], known[x], OnItsWay(x))
  BY DEF SteadyInv, FoldHolds
<1>3. DOMAIN known = Device /\ DOMAIN projection = Device /\ known[d] \subseteq 1 .. Len(log)
  BY DEF IInv, MemoryShape, TypedInv, ProjectionTyped
<1>4. Told(log, all)
  <2>1. all \in SUBSET (1 .. Len(log))
    BY <1>3
  <2> HIDE DEF all
  <2> QED BY <2>1, SignedIsTold DEF IInv, TypedInv
<1>5. KeyIsLast(d)
  BY <1>2 DEF HasFolded, KeyIsLast
<1>6. PICK creds \in SUBSET auth[d].creds : projection[d] = Rebuild(log, creds, auth[d].revs, known[d])
  BY <1>2 DEF HasFolded
<1>7. Integrated(d, fresh) = Folded(d, all)
  BY <1>4, <1>5, <1>6, IntegratedIsFolded
<1>8. KeyOf(log, all) = LastOf(log, IF ExtendsHistory(d, fresh) THEN fresh ELSE all)
  BY <1>4, <1>5, KeyStaysLast
<1> HIDE DEF all
<1>9. known'[d] = all /\ projection'[d] = Folded(d, all) /\ lastKey'[d] = KeyOf(log, all)
  BY <1>1, <1>2, <1>3, <1>7, <1>8
<1>10. \A w : HasFolded(log, projection'[d], lastKey'[d], auth[d], known'[d], w)
  BY <1>9 DEF HasFolded, Folded
<1>11. \A x \in Device \ {d} : known'[x] = known[x] /\ projection'[x] = projection[x] /\ lastKey'[x] = lastKey[x]
  BY <1>1, <1>2, <1>3
<1>12. ASSUME NEW x \in Device
       PROVE  HasFolded(log, projection'[x], lastKey'[x], auth[x], known'[x], OnItsWay(x)')
  <2>1. CASE x = d
    BY <1>10, <2>1
  <2>2. CASE x # d
    BY <1>2, <1>11, <2>2
  <2> QED BY <2>1, <2>2
<1>13. DOMAIN lastKey' = Device
  BY <1>1, <1>2
<1> QED BY <1>12, <1>13 DEF FoldHolds

\* What is on its way is in the ledger.
LEMMA WayIsHeld ==
  ASSUME IInv, TypedInv, NEW d \in Device
  PROVE  OnItsWay(d) \subseteq ledger[d] /\ ToSet(backlog[d]) \subseteq ledger[d]
<1>1. backlog[d] \in Seq(ledger[d])
  BY DEF TypedInv, BacklogHolds
<1>2. ToSet(backlog[d]) \subseteq ledger[d]
  BY <1>1 DEF ToSet
<1> QED BY <1>2 DEF OnItsWay, IInv, SyncHolds

\* An event that is committed is on no way, and folded with the rest.
LEMMA CommitStaysSteady ==
  ASSUME IInv, TypedInv, SteadyInv, NEW d \in Device, Commit(d)
  PROVE  SteadyInv'
<1> DEFINE n == draft[d]
<1>1. /\ n # NoEvent /\ draft' = [draft EXCEPT ![d] = NoEvent]
      /\ UNCHANGED <<log, ledger, sealed, phase, backlog, pulled, auth, own>>
  BY DEF Commit, syncVars
<1>2. \/ UNCHANGED <<known, projection, lastKey, outbox>>
      \/ Store(d, {n}) /\ outbox' = [outbox EXCEPT ![d] = @ \cup {n}]
  BY DEF Commit, replicaVars
<1>3. QuietLog' /\ AuthHolds' /\ SealHolds'
  BY <1>1, LogAndAuthStay
<1>4. /\ n \in 1 .. Len(log) /\ DOMAIN draft = Device /\ DOMAIN outbox = Device /\ DOMAIN known = Device
      /\ \A x \in Device : ledger[x] \subseteq 1 .. Len(log)
  BY <1>1 DEF IInv, MemoryShape, NoEvent
<1>5. \A x \in Device : OnItsWay(x)' = OnItsWay(x)
  BY <1>1 DEF OnItsWay
<1>6. /\ \A x, y \in Device : draft[x] \notin ledger[y] /\ outbox[x] \cap ledger[y] = {}
      /\ \A x \in Device : OnItsWay(x) \cap known[x] = {} /\ pulled[x] \cap ToSet(backlog[x]) = {}
                           /\ (phase[x] = "receive" <=> pulled[x] # {})
  BY DEF SteadyInv, WayHolds
<1>7. OnItsWay(d) \subseteq ledger[d]
  BY WayIsHeld
<1>8. NoEvent \notin 1 .. Len(log)
  BY DEF NoEvent
<1>9. FoldHolds'
  <2>1. CASE UNCHANGED <<known, projection, lastKey, outbox>>
    BY <1>1, <1>5, <2>1, FoldsStand
  <2>2. CASE Store(d, {n})
    <3>1. {n} \in SUBSET (1 .. Len(log)) /\ {n} # {}
      BY <1>4
    <3> HIDE DEF n
    <3> QED BY <1>1, <1>5, <2>2, <3>1, StoringFolds
  <2> QED BY <1>2, <2>1, <2>2
<1> HIDE DEF n
<1>10. \A x \in Device : outbox'[x] = outbox[x] \/ outbox'[x] = outbox[x] \cup {n}
  BY <1>2, <1>4
<1>11. \A x \in Device : known'[x] = known[x] \/ (x = d /\ known'[x] = known[x] \cup {n})
  <2>1. known' = known \/ known' = [known EXCEPT ![d] = @ \cup {n}]
    BY <1>2 DEF Store
  <2>2. CASE known' = known
    BY <2>2
  <2>3. CASE known' = [known EXCEPT ![d] = @ \cup {n}]
    <3>1. \A x \in Device : known'[x] = IF x = d THEN known[d] \cup {n} ELSE known[x]
      BY <1>4, <2>3
    <3> QED BY <3>1
  <2> QED BY <2>1, <2>2, <2>3
<1>12. \A x \in Device : draft'[x] = draft[x] \/ draft'[x] = NoEvent
  BY <1>1, <1>4
<1>13. \A x \in Device : n \notin ledger[x]
  BY <1>6 DEF n
<1>14. \A x, y \in Device : draft'[x] \notin ledger[y] /\ outbox'[x] \cap ledger[y] = {}
  BY <1>4, <1>6, <1>8, <1>10, <1>12, <1>13
<1>15. \A x \in Device : OnItsWay(x) \cap known'[x] = {}
  BY <1>6, <1>7, <1>11, <1>13
<1>16. WayHolds'
  BY <1>1, <1>5, <1>6, <1>14, <1>15 DEF WayHolds
<1> QED BY <1>3, <1>9, <1>16 DEF SteadyInv

\* A sync that starts reads the outbox.
LEMMA StartSyncStaysSteady ==
  ASSUME SteadyInv, IInv, NEW d \in Device, StartSync(d)
  PROVE  SteadyInv'
<1>1. /\ phase[d] = "idle" /\ phase' = [phase EXCEPT ![d] = "publish"]
      /\ UNCHANGED <<log, ledger, sealed, known, projection, lastKey, outbox, draft, backlog, pulled, auth, own>>
  BY DEF StartSync, replicaVars
<1>2. QuietLog' /\ AuthHolds' /\ SealHolds'
  BY <1>1, LogAndAuthStay
<1>3. \A x \in Device : OnItsWay(x)' = OnItsWay(x)
  BY <1>1 DEF OnItsWay
<1>4. FoldHolds'
  BY <1>1, <1>3, FoldsStand
<1>5. \A x \in Device : phase'[x] = "receive" <=> phase[x] = "receive"
  BY <1>1 DEF IInv, MemoryShape
<1>6. WayHolds'
  BY <1>1, <1>3, <1>5 DEF SteadyInv, WayHolds
<1> QED BY <1>2, <1>4, <1>6 DEF SteadyInv

\* What is published leaves the outbox for the ledger, sealed with a credential that the
\* device adopted; nobody else has it queued.
LEMMA PublishStaysSteady ==
  ASSUME SteadyInv, IInv, TypedInv, OutboxIsOwn, NEW d \in Device, Publish(d)
  PROVE  SteadyInv'
<1> DEFINE E == 1 .. Len(log)
<1>1. UNCHANGED <<log, known, projection, lastKey, draft, phase, backlog, pulled, auth, own>>
  BY DEF Publish, replicaVars, commandVars
<1>2. PICK n \in batch[d] : /\ sealed' = [sealed EXCEPT ![n] = own[d]]
                            /\ ledger' = [ledger EXCEPT ![d] = @ \cup {n}]
                            /\ outbox' = [outbox EXCEPT ![d] = @ \ {n}]
  BY DEF Publish
<1>3. n \in outbox[d] /\ n \in E /\ log[n].author = d
  BY DEF IInv, SyncHolds, MemoryShape, OutboxIsOwn
<1>4. /\ DOMAIN ledger = Device /\ DOMAIN outbox = Device
      /\ \A x \in Device : draft[x] # NoEvent => log[draft[x]].author = x /\ draft[x] \notin outbox[x]
      /\ \A x \in Device : \A m \in outbox[x] : log[m].author = x
  BY DEF IInv, MemoryShape, CommandHolds, OutboxIsOwn
<1>5. n # NoEvent
  BY <1>3 DEF NoEvent
<1>6. \A x \in Device : draft[x] # n
  BY <1>3, <1>4, <1>5
<1>7. \A x \in Device : n \notin outbox'[x] /\ outbox'[x] \subseteq outbox[x]
  BY <1>2, <1>3, <1>4
<1>8. \A x \in Device : ledger'[x] \subseteq ledger[x] \cup {n}
  BY <1>2, <1>4
<1>9. \A x, y \in Device : draft[x] \notin ledger'[y] /\ outbox'[x] \cap ledger'[y] = {}
  BY <1>6, <1>7, <1>8 DEF SteadyInv, WayHolds
<1>10. \A x \in Device : OnItsWay(x)' = OnItsWay(x)
  BY <1>1 DEF OnItsWay
<1>11. WayHolds'
  BY <1>1, <1>9, <1>10 DEF SteadyInv, WayHolds
<1>12. FoldHolds'
  BY <1>1, <1>10, FoldsStand
<1>13. QuietLog' /\ AuthHolds'
  BY <1>1, LogAndAuthStay
<1>14. DOMAIN sealed = Event /\ own \in [Device -> E] /\ \A x \in Device : \A m \in ledger[x] : sealed[m] \in E
  BY DEF SteadyInv, SealHolds
<1>15. n \in Event
  BY <1>3, ReplicaAssumption DEF Event, TypedInv, LogTyped, IInv, LogShape
<1> HIDE DEF E
<1>16. \A m : m = n \/ sealed[m] \in E => sealed'[m] \in E \/ m \notin Event
  BY <1>2, <1>14, <1>15
<1>17. \A x \in Device : ledger[x] \subseteq Event
  BY ReplicaAssumption DEF Event, TypedInv, LogTyped, IInv, LogShape, MemoryShape
<1>18. \A x \in Device : \A m \in ledger'[x] : sealed'[m] \in E
  BY <1>8, <1>14, <1>15, <1>16, <1>17
<1>19. SealHolds'
  BY <1>1, <1>2, <1>14, <1>18 DEF SealHolds, E
<1> QED BY <1>11, <1>12, <1>13, <1>19 DEF SteadyInv

\* A hand-over that fails changes nothing of this.
LEMMA PublishFailsStaysSteady ==
  ASSUME SteadyInv, NEW d \in Device, PublishFails(d)
  PROVE  SteadyInv'
<1>1. UNCHANGED <<log, ledger, sealed, known, projection, lastKey, outbox, draft, phase, backlog, pulled, auth, own>>
  BY DEF PublishFails, replicaVars, commandVars
<1>2. QuietLog' /\ AuthHolds' /\ SealHolds'
  BY <1>1, LogAndAuthStay
<1>3. \A x \in Device : OnItsWay(x)' = OnItsWay(x)
  BY <1>1 DEF OnItsWay
<1>4. FoldHolds'
  BY <1>1, <1>3, FoldsStand
<1>5. WayHolds'
  BY <1>1, <1>3 DEF SteadyInv, WayHolds
<1> QED BY <1>2, <1>4, <1>5 DEF SteadyInv

\* A device adopts a credential that some event brought.
LEMMA AdoptStaysSteady ==
  ASSUME SteadyInv, NEW d \in Device, AdoptOwnCredential(d)
  PROVE  SteadyInv'
<1>1. UNCHANGED <<log, ledger, sealed, known, projection, lastKey, outbox, draft, phase, backlog, pulled, auth>>
  BY DEF AdoptOwnCredential, replicaVars, commandVars, syncVars
<1>2. QuietLog' /\ AuthHolds'
  BY <1>1, LogAndAuthStay
<1>3. \A x \in Device : OnItsWay(x)' = OnItsWay(x)
  BY <1>1 DEF OnItsWay
<1>4. FoldHolds'
  BY <1>1, <1>3, FoldsStand
<1>5. WayHolds'
  BY <1>1, <1>3 DEF SteadyInv, WayHolds
<1>6. SealHolds'
  <2>1. auth[d].creds \subseteq 1 .. Len(log)
    BY DEF SteadyInv, AuthHolds, Authorities
  <2>2. own \in [Device -> 1 .. Len(log)]
    BY DEF SteadyInv, SealHolds
  <2>3. \E c \in 1 .. Len(log) : own' = [own EXCEPT ![d] = c]
    <3> DEFINE me == projection[d].members[d]
    <3>1. own' = [own EXCEPT ![d] = IF me.status = "ACTIVE" /\ me.credential \in auth[d].creds
                                    THEN me.credential ELSE @]
      BY DEF AdoptOwnCredential
    <3> QED BY <2>1, <2>2, <3>1
  <2>4. own' \in [Device -> 1 .. Len(log)]
    BY <2>2, <2>3
  <2> QED BY <1>1, <2>4 DEF SteadyInv, SealHolds
<1> QED BY <1>2, <1>4, <1>5, <1>6 DEF SteadyInv

\* A record that arrives was published by another device, and is on its way from then on.
LEMMA ArriveStaysSteady ==
  ASSUME SteadyInv, IInv, TypedInv, NEW d \in Device, NEW n \in DOMAIN log, Arrive(d, n)
  PROVE  SteadyInv'
<1>1. /\ UNCHANGED <<log, sealed, known, projection, lastKey, outbox, draft, phase, pulled, auth, own>>
      /\ n \notin ledger[d]
      /\ ledger' = [ledger EXCEPT ![d] = @ \cup {n}]
      /\ backlog' = [backlog EXCEPT ![d] = Append(@, n)]
  BY DEF Arrive, replicaVars, commandVars
<1>2. PICK sender \in Device : n \in ledger[sender]
  BY DEF Arrive
<1>3. DOMAIN ledger = Device /\ DOMAIN backlog = Device
  BY DEF IInv, MemoryShape, TypedInv
<1>4. \A x \in Device : ledger'[x] \subseteq ledger[x] \cup {n}
  BY <1>1, <1>3
<1>5. \A x \in Device : draft[x] # n /\ n \notin outbox[x]
  BY <1>2 DEF SteadyInv, WayHolds
<1>6. \A x, y \in Device : draft[x] \notin ledger'[y] /\ outbox[x] \cap ledger'[y] = {}
  BY <1>4, <1>5 DEF SteadyInv, WayHolds
<1>7. n \notin known[d] /\ n \notin pulled[d]
  BY <1>1, <1>5 DEF IInv, ShownIsKept, SyncHolds
<1>8. \A x \in Device : ToSet(backlog'[x]) = ToSet(backlog[x]) \/ (x = d /\ ToSet(backlog'[x]) = ToSet(backlog[x]) \cup {n})
  <2>1. backlog[d] \in Seq(ledger[d])
    BY DEF TypedInv, BacklogHolds
  <2>2. ToSet(Append(backlog[d], n)) = ToSet(backlog[d]) \cup {n}
    BY <2>1, SetWithOneMore
  <2>3. \A x \in Device : backlog'[x] = IF x = d THEN Append(backlog[d], n) ELSE backlog[x]
    BY <1>1, <1>3
  <2> QED BY <2>2, <2>3
<1>9. \A x \in Device : OnItsWay(x)' = OnItsWay(x) \/ (x = d /\ OnItsWay(x)' = OnItsWay(x) \cup {n})
  BY <1>1, <1>8 DEF OnItsWay
<1>10. WayHolds'
  <2>1. \A x \in Device : OnItsWay(x)' \cap known[x] = {}
    BY <1>7, <1>9 DEF SteadyInv, WayHolds
  <2>2. \A x \in Device : pulled[x] \cap ToSet(backlog'[x]) = {}
    BY <1>7, <1>8 DEF SteadyInv, WayHolds
  <2> QED BY <1>1, <1>6, <2>1, <2>2 DEF SteadyInv, WayHolds
<1>11. FoldHolds'
  BY <1>1, <1>9, FoldsStand
<1>12. QuietLog' /\ AuthHolds'
  BY <1>1, LogAndAuthStay
<1>13. SealHolds'
  <2>1. \A x \in Device : \A m \in ledger'[x] : sealed[m] \in 1 .. Len(log)
    BY <1>2, <1>4 DEF SteadyInv, SealHolds
  <2> QED BY <1>1, <2>1 DEF SteadyInv, SealHolds
<1> QED BY <1>10, <1>11, <1>12, <1>13 DEF SteadyInv

\* What a pull takes over is folded under more credentials than before; a pull of nothing
\* accepts nothing.
LEMMA PullStaysSteady ==
  ASSUME SteadyInv, IInv, TypedInv, NEW d \in Device, Pull(d)
  PROVE  SteadyInv'
<1> DEFINE E == 1 .. Len(log)
<1> DEFINE a == auth[d]
<1> DEFINE s == backlog[d]
<1> DEFINE b == AcceptAll(a, s)
<1>1. /\ UNCHANGED <<log, ledger, sealed, known, projection, lastKey, outbox, draft, own>>
      /\ phase[d] = "publish"
      /\ auth' = [auth EXCEPT ![d] = b]
      /\ pulled' = [pulled EXCEPT ![d] = ToSet(s) \cap ledger[d]]
      /\ backlog' = [backlog EXCEPT ![d] = <<>>]
  BY DEF Pull, replicaVars
<1>2. \/ s = <<>> /\ phase' = [phase EXCEPT ![d] = "idle"]
      \/ s # <<>> /\ phase' = [phase EXCEPT ![d] = "receive"]
  BY DEF Pull, EndSync
<1>3. auth \in [Device -> Authorities(E)] /\ \A x \in Device : Saturated(auth[x])
  BY DEF SteadyInv, AuthHolds
<1>4. s \in Seq(Quiet(E))
  <2>1. s \in Seq(ledger[d]) /\ ledger[d] \subseteq E
    BY DEF TypedInv, BacklogHolds, IInv, MemoryShape
  <2>2. ledger[d] \subseteq Quiet(E)
    BY <2>1 DEF SteadyInv, SealHolds, QuietLog, Quiet, CredentialsOf, CredentialsAt
  <2> HIDE DEF s
  <2> QED BY <2>1, <2>2
<1>5. a \in Authorities(E) /\ Saturated(a)
  BY <1>3
<1>6. b \in Grown(a, E) /\ Saturated(b) /\ (s = <<>> => b = a)
  <2> HIDE DEF E, a, s
  <2> QED BY <1>4, <1>5, AcceptAllGrows
<1>7. DOMAIN pulled = Device /\ DOMAIN backlog = Device /\ DOMAIN phase = Device
  BY DEF IInv, MemoryShape, TypedInv
<1>8. ToSet(s) \subseteq ledger[d] /\ pulled[d] = {}
  BY <1>1, WayIsHeld DEF SteadyInv, WayHolds
<1>9. (ToSet(s) = {} <=> s = <<>>) /\ ToSet(<<>>) = {}
  <2> HIDE DEF s
  <2>1. DOMAIN s = 1 .. Len(s) /\ Len(s) \in Nat /\ (s = <<>> <=> Len(s) = 0)
    BY <1>4
  <2>2. Len(s) # 0 => s[1] \in ToSet(s)
    BY <2>1 DEF ToSet
  <2>3. ToSet(<<>>) = {}
    BY DEF ToSet
  <2> QED BY <2>1, <2>2, <2>3
<1>10. QuietLog' /\ SealHolds'
  BY <1>1, LogAndAuthStay
<1>11. /\ pulled'[d] = ToSet(s) /\ backlog'[d] = <<>> /\ auth'[d] = b
       /\ phase'[d] = "receive" <=> s # <<>>
       /\ \A x \in Device \ {d} : /\ pulled'[x] = pulled[x] /\ backlog'[x] = backlog[x]
                                  /\ auth'[x] = auth[x] /\ phase'[x] = phase[x]
  BY <1>1, <1>2, <1>3, <1>7, <1>8
<1> HIDE DEF a, b, s
<1>12. \A x \in Device : OnItsWay(x)' = OnItsWay(x)
  <2>1. OnItsWay(d)' = OnItsWay(d)
    BY <1>8, <1>9, <1>11 DEF OnItsWay, s
  <2>2. \A x \in Device \ {d} : OnItsWay(x)' = OnItsWay(x)
    BY <1>11 DEF OnItsWay
  <2> QED BY <2>1, <2>2
<1>13. WayHolds'
  <2>1. ASSUME NEW x \in Device
        PROVE  pulled'[x] \cap ToSet(backlog'[x]) = {} /\ (phase'[x] = "receive" <=> pulled'[x] # {})
    <3>1. CASE x = d
      BY <1>9, <1>11, <3>1
    <3>2. CASE x # d
      BY <1>11, <3>2 DEF SteadyInv, WayHolds
    <3> QED BY <3>1, <3>2
  <2> QED BY <1>1, <1>12, <2>1 DEF SteadyInv, WayHolds
<1>14. AuthHolds'
  <2>1. b \in Authorities(E)
    BY <1>6 DEF Grown
  <2> HIDE DEF E
  <2>2. auth' \in [Device -> Authorities(E)]
    BY <1>1, <1>3, <2>1
  <2>3. \A x \in Device : Saturated(auth'[x])
    BY <1>3, <1>6, <1>11
  <2>4. \A x \in Device : Saturated(auth[x])' <=> Saturated(auth'[x])
    BY <1>1 DEF Saturated, MayAccept
  <2> QED BY <1>1, <2>2, <2>3, <2>4 DEF AuthHolds, E
<1>15. FoldHolds'
  <2>1. \A x \in Device : HasFolded(log, projection[x], lastKey[x], auth[x], known[x], OnItsWay(x))
    BY DEF SteadyInv, FoldHolds
  <2>2. HasFolded(log, projection[d], lastKey[d], b, known[d], OnItsWay(d))
    <3>1. PICK creds \in SUBSET a.creds :
            /\ projection[d] = Rebuild(log, creds, a.revs, known[d])
            /\ creds = a.creds \/ OnItsWay(d) # {}
      BY <2>1 DEF HasFolded, a
    <3>2. lastKey[d] = KeyOf(log, known[d])
      BY <2>1 DEF HasFolded
    <3>3. a.revs = b.revs /\ a.creds \subseteq b.creds
      BY <1>5, <1>6 DEF Grown, Authorities
    <3>4. creds = b.creds \/ OnItsWay(d) # {}
      <4>1. s # <<>> => OnItsWay(d) # {}
        BY <1>9 DEF OnItsWay, s
      <4> QED BY <1>6, <3>1, <4>1
    <3> QED BY <3>1, <3>2, <3>3, <3>4 DEF HasFolded
  <2>3. ASSUME NEW x \in Device
        PROVE  HasFolded(log, projection[x], lastKey[x], auth'[x], known[x], OnItsWay(x))
    BY <1>11, <2>1, <2>2
  <2>4. DOMAIN lastKey' = Device
    BY <1>1 DEF SteadyInv, FoldHolds
  <2> QED BY <1>1, <1>12, <2>3, <2>4 DEF FoldHolds
<1> QED BY <1>10, <1>13, <1>14, <1>15 DEF SteadyInv

\* What was pulled is folded, and not on its way any more.
LEMMA ReceiveStaysSteady ==
  ASSUME SteadyInv, IInv, TypedInv, NEW d \in Device, Receive(d)
  PROVE  SteadyInv'
<1>1. /\ UNCHANGED <<log, ledger, sealed, outbox, draft, backlog, auth, own>>
      /\ phase[d] = "receive"
      /\ pulled' = [pulled EXCEPT ![d] = {}]
      /\ phase' = [phase EXCEPT ![d] = "idle"]
  BY DEF Receive, EndSync
<1>2. /\ pulled[d] # {} /\ OnItsWay(d) \cap known[d] = {} /\ pulled[d] \cap ToSet(backlog[d]) = {}
      /\ pulled[d] \subseteq OnItsWay(d)
  BY <1>1 DEF SteadyInv, WayHolds, OnItsWay
<1>3. Store(d, pulled[d])
  <2>1. ~ (pulled[d] \subseteq known[d]) /\ pulled[d] \ known[d] = pulled[d]
    BY <1>2
  <2>2. Store(d, pulled[d] \ known[d])
    BY <2>1 DEF Receive
  <2> QED BY <2>1, <2>2
<1>4. /\ DOMAIN pulled = Device /\ DOMAIN phase = Device /\ DOMAIN known = Device
      /\ pulled[d] \in SUBSET (1 .. Len(log))
  BY DEF IInv, MemoryShape
<1>5. QuietLog' /\ AuthHolds' /\ SealHolds'
  BY <1>1, LogAndAuthStay
<1>6. /\ pulled'[d] = {} /\ phase'[d] = "idle"
      /\ \A x \in Device \ {d} : pulled'[x] = pulled[x] /\ phase'[x] = phase[x]
  BY <1>1, <1>4
<1>7. OnItsWay(d)' = ToSet(backlog[d]) /\ \A x \in Device \ {d} : OnItsWay(x)' = OnItsWay(x)
  BY <1>1, <1>6 DEF OnItsWay
<1>8. FoldHolds'
  BY <1>1, <1>2, <1>3, <1>4, <1>7, StoringFolds
<1>9. known'[d] = known[d] \cup pulled[d] /\ \A x \in Device \ {d} : known'[x] = known[x]
  <2>1. known' = [known EXCEPT ![d] = @ \cup pulled[d]]
    BY <1>3 DEF Store
  <2> QED BY <1>4, <2>1
<1>10. WayHolds'
  <2>1. OnItsWay(d)' \cap known'[d] = {}
    BY <1>2, <1>7, <1>9 DEF OnItsWay
  <2>2. \A x \in Device \ {d} : OnItsWay(x)' \cap known'[x] = {}
    BY <1>7, <1>9 DEF SteadyInv, WayHolds
  <2>3. \A x \in Device : pulled'[x] \cap ToSet(backlog[x]) = {} /\ (phase'[x] = "receive" <=> pulled'[x] # {})
    BY <1>6 DEF SteadyInv, WayHolds
  <2> QED BY <1>1, <2>1, <2>2, <2>3 DEF SteadyInv, WayHolds
<1> QED BY <1>5, <1>8, <1>10 DEF SteadyInv

\* What could not be folded is on its way again.
LEMMA ReceiveFailsStaysSteady ==
  ASSUME SteadyInv, IInv, TypedInv, NEW d \in Device, ReceiveFails(d)
  PROVE  SteadyInv'
<1> DEFINE t == ById(pulled[d])
<1>1. /\ UNCHANGED <<log, ledger, sealed, known, projection, lastKey, outbox, draft, auth, own>>
      /\ phase[d] = "receive"
      /\ backlog' = [backlog EXCEPT ![d] = @ \o t]
      /\ pulled' = [pulled EXCEPT ![d] = {}]
      /\ phase' = [phase EXCEPT ![d] = "idle"]
  BY DEF ReceiveFails, EndSync, replicaVars
<1>2. /\ DOMAIN pulled = Device /\ DOMAIN phase = Device /\ DOMAIN backlog = Device
      /\ pulled[d] \in SUBSET (1 .. Len(log)) /\ pulled[d] \subseteq ledger[d]
      /\ backlog[d] \in Seq(ledger[d])
  BY DEF IInv, MemoryShape, SyncHolds, TypedInv, BacklogHolds
<1>3. t \in Seq(pulled[d]) /\ (pulled[d] # {} => t # <<>>)
  BY <1>2, SignedIsTold, ByIdListed DEF IInv, TypedInv
<1> HIDE DEF t
<1>4. ToSet(t) \subseteq pulled[d] /\ (t # <<>> => ToSet(t) # {})
  <2>1. DOMAIN t = 1 .. Len(t) /\ Len(t) \in Nat /\ (t = <<>> <=> Len(t) = 0)
    BY <1>3
  <2>2. \A i \in 1 .. Len(t) : t[i] \in pulled[d]
    BY <1>3
  <2>3. Len(t) # 0 => t[1] \in ToSet(t)
    BY <2>1 DEF ToSet
  <2>4. ToSet(t) \subseteq pulled[d]
    BY <2>1, <2>2 DEF ToSet
  <2> QED BY <2>1, <2>3, <2>4
<1>5. ToSet(backlog[d] \o t) = ToSet(backlog[d]) \cup ToSet(t)
  <2>1. t \in Seq(ledger[d])
    BY <1>2, <1>3
  <2> QED BY <1>2, <2>1, SetOfBoth
<1>6. /\ pulled'[d] = {} /\ backlog'[d] = backlog[d] \o t /\ phase'[d] = "idle"
      /\ \A x \in Device \ {d} : pulled'[x] = pulled[x] /\ backlog'[x] = backlog[x] /\ phase'[x] = phase[x]
  BY <1>1, <1>2
<1>7. QuietLog' /\ AuthHolds' /\ SealHolds'
  BY <1>1, LogAndAuthStay
<1>8. OnItsWay(d)' = ToSet(backlog[d]) \cup ToSet(t)
  <2>1. ToSet(backlog'[d]) = ToSet(backlog[d]) \cup ToSet(t)
    BY <1>5, <1>6
  <2> QED BY <1>6, <2>1 DEF OnItsWay
<1>9. \A x \in Device \ {d} : OnItsWay(x)' = OnItsWay(x)
  BY <1>6 DEF OnItsWay
<1>10. pulled[d] # {} /\ OnItsWay(d) \cap known[d] = {}
  BY <1>1 DEF SteadyInv, WayHolds
<1>11. FoldHolds'
  <2>1. OnItsWay(d)' # {}
    BY <1>3, <1>4, <1>8, <1>10
  <2> QED BY <1>1, <1>9, <2>1, FoldsStand
<1>12. WayHolds'
  <2>1. OnItsWay(d)' \cap known[d] = {}
    BY <1>4, <1>8, <1>10 DEF OnItsWay
  <2>2. ASSUME NEW x \in Device
        PROVE  /\ OnItsWay(x)' \cap known[x] = {}
               /\ pulled'[x] \cap ToSet(backlog'[x]) = {} /\ (phase'[x] = "receive" <=> pulled'[x] # {})
    <3>1. CASE x = d
      BY <1>6, <2>1, <3>1
    <3>2. CASE x # d
      BY <1>6, <1>9, <3>2 DEF SteadyInv, WayHolds
    <3> QED BY <3>1, <3>2
  <2> QED BY <1>1, <2>2 DEF SteadyInv, WayHolds
<1> QED BY <1>7, <1>11, <1>12 DEF SteadyInv

\* Nothing is authorized when a page opens.
LEMMA NoAuthorityTyped ==
  ASSUME NEW E
  PROVE  NoAuthority \in Authorities(E) /\ Saturated(NoAuthority)
<1>1. <<>> \in Seq(E) /\ DOMAIN <<>> = {}
  OBVIOUS
<1> QED BY <1>1 DEF NoAuthority, Authorities, NoneRevoked, Saturated

\* A page that opens again knows nothing, and holds at most its own credential.
LEMMA RestartStaysSteady ==
  ASSUME SteadyInv, IInv, TypedInv, NEW d \in Device, Restart(d)
  PROVE  SteadyInv'
<1> DEFINE E == 1 .. Len(log)
<1> DEFINE a == IF IsDirect(log[own[d]]) THEN AcceptCredential(NoAuthority, own[d]) ELSE NoAuthority
<1>1. /\ UNCHANGED <<log, ledger, sealed, own>>
      /\ known' = [known EXCEPT ![d] = {}]
      /\ projection' = [projection EXCEPT ![d] = Genesis]
      /\ lastKey' = [lastKey EXCEPT ![d] = NoEvent]
      /\ outbox' = [outbox EXCEPT ![d] = {}]
      /\ draft' = [draft EXCEPT ![d] = NoEvent]
      /\ phase' = [phase EXCEPT ![d] = "idle"]
      /\ pulled' = [pulled EXCEPT ![d] = {}]
      /\ auth' = [auth EXCEPT ![d] = a]
  BY DEF Restart
<1>2. backlog' = [backlog EXCEPT ![d] = ById(ledger[d])]
  BY DEF Restart
<1>3. /\ DOMAIN known = Device /\ DOMAIN outbox = Device /\ DOMAIN draft = Device
      /\ DOMAIN phase = Device /\ DOMAIN pulled = Device /\ DOMAIN backlog = Device
      /\ DOMAIN projection = Device /\ DOMAIN lastKey = Device
      /\ \A x \in Device : ledger[x] \subseteq E
  BY DEF IInv, MemoryShape, TypedInv, ProjectionTyped, SteadyInv, FoldHolds
<1>4. auth \in [Device -> Authorities(E)] /\ (\A x \in Device : Saturated(auth[x])) /\ own[d] \in E
  BY DEF SteadyInv, AuthHolds, SealHolds
<1>5. a \in Authorities(E) /\ Saturated(a)
  <2> DEFINE c == own[d]
  <2>1. NoAuthority \in Authorities(E) /\ Saturated(NoAuthority)
    BY NoAuthorityTyped
  <2>2. c \in E
    BY <1>4
  <2> HIDE DEF E, c
  <2>3. AcceptCredential(NoAuthority, c) \in Authorities(E)
    BY <2>1, <2>2, AcceptCredentialGrows DEF Grown
  <2>4. Saturated(AcceptCredential(NoAuthority, c))
    <3>1. CASE MayAccept(NoAuthority, c)
      <4>1. AcceptCredential(NoAuthority, c) = Accept(NoAuthority, c)
        BY <3>1 DEF AcceptCredential, NoAuthority
      <4>2. Accept(NoAuthority, c).waitingCreds = <<>>
        BY DEF Accept, NoAuthority
      <4> QED BY <4>1, <4>2 DEF Saturated
    <3>2. CASE ~ MayAccept(NoAuthority, c)
      <4> DEFINE b == [NoAuthority EXCEPT !.waitingCreds = <<c>>]
      <4>1. AcceptCredential(NoAuthority, c) = b
        <5>1. c \notin NoAuthority.creds /\ NoAuthority.waitingCreds = <<>>
          BY DEF NoAuthority
        <5>2. c \notin ToSet(<<>>) /\ Append(<<>>, c) = <<c>>
          BY DEF ToSet
        <5>3. AcceptCredential(NoAuthority, c)
                = [NoAuthority EXCEPT !.waitingCreds = IF c \in ToSet(@) THEN @ ELSE Append(@, c)]
          BY <3>2, <5>1 DEF AcceptCredential
        <5> QED BY <5>1, <5>2, <5>3
      <4>2. b.waitingCreds = <<c>> /\ b.creds = NoAuthority.creds /\ b.revs = NoAuthority.revs
        BY DEF NoAuthority
      <4> HIDE DEF b
      <4>3. ~ MayAccept(b, c)
        BY <3>2, <4>2 DEF MayAccept
      <4>4. \A i \in DOMAIN <<c>> : <<c>>[i] = c
        OBVIOUS
      <4> QED BY <4>1, <4>2, <4>3, <4>4 DEF Saturated
    <3> QED BY <3>1, <3>2
  <2> QED BY <2>1, <2>3, <2>4 DEF c
<1>6. /\ known'[d] = {} /\ projection'[d] = Genesis /\ lastKey'[d] = NoEvent /\ outbox'[d] = {}
      /\ draft'[d] = NoEvent /\ phase'[d] = "idle" /\ pulled'[d] = {} /\ auth'[d] = a
  BY <1>1, <1>3, <1>4
<1>7. /\ \A x \in Device \ {d} : /\ known'[x] = known[x] /\ projection'[x] = projection[x]
                                 /\ lastKey'[x] = lastKey[x] /\ auth'[x] = auth[x]
      /\ \A x \in Device \ {d} : /\ outbox'[x] = outbox[x] /\ draft'[x] = draft[x] /\ phase'[x] = phase[x]
                                 /\ pulled'[x] = pulled[x] /\ backlog'[x] = backlog[x]
  BY <1>1, <1>2, <1>3, <1>4
<1>8. QuietLog' /\ SealHolds'
  BY <1>1, LogAndAuthStay
<1> HIDE DEF a
<1>9. \A x \in Device \ {d} : OnItsWay(x)' = OnItsWay(x)
  BY <1>7 DEF OnItsWay
<1>10. AuthHolds'
  <2> HIDE DEF E
  <2>1. auth' \in [Device -> Authorities(E)]
    BY <1>1, <1>4, <1>5
  <2>2. \A x \in Device : Saturated(auth'[x])
    BY <1>4, <1>5, <1>6, <1>7
  <2>3. \A x \in Device : Saturated(auth[x])' <=> Saturated(auth'[x])
    BY <1>1 DEF Saturated, MayAccept
  <2> QED BY <1>1, <2>1, <2>2, <2>3 DEF AuthHolds, E
<1>11. FoldHolds'
  <2>1. \A w : HasFolded(log, Genesis, NoEvent, a, {}, w)
    <3>1. Rebuild(log, a.creds, a.revs, {}) = Genesis
      BY FoldOfNone, GenesisTyped DEF Rebuild
    <3> QED BY <3>1 DEF HasFolded, KeyOf
  <2>2. \A x \in Device : HasFolded(log, projection[x], lastKey[x], auth[x], known[x], OnItsWay(x))
    BY DEF SteadyInv, FoldHolds
  <2>3. ASSUME NEW x \in Device
        PROVE  HasFolded(log, projection'[x], lastKey'[x], auth'[x], known'[x], OnItsWay(x)')
    <3>1. CASE x = d
      BY <1>6, <2>1, <3>1
    <3>2. CASE x # d
      BY <1>7, <1>9, <2>2, <3>2
    <3> QED BY <3>1, <3>2
  <2>4. DOMAIN lastKey' = Device
    BY <1>1, <1>3
  <2> QED BY <1>1, <2>3, <2>4 DEF FoldHolds
<1>12. WayHolds'
  <2>1. NoEvent \notin E
    BY DEF NoEvent
  <2> HIDE DEF E
  <2>2. ASSUME NEW x \in Device, NEW y \in Device
        PROVE  draft'[x] \notin ledger[y] /\ outbox'[x] \cap ledger[y] = {}
    <3>1. CASE x = d
      BY <1>3, <1>6, <2>1, <3>1
    <3>2. CASE x # d
      BY <1>7, <3>2 DEF SteadyInv, WayHolds
    <3> QED BY <3>1, <3>2
  <2>3. ASSUME NEW x \in Device
        PROVE  /\ OnItsWay(x)' \cap known'[x] = {}
               /\ pulled'[x] \cap ToSet(backlog'[x]) = {} /\ (phase'[x] = "receive" <=> pulled'[x] # {})
    <3>1. CASE x = d
      BY <1>6, <3>1
    <3>2. CASE x # d
      BY <1>7, <1>9, <3>2 DEF SteadyInv, WayHolds
    <3> QED BY <3>1, <3>2
  <2> QED BY <1>1, <2>2, <2>3 DEF WayHolds
<1> QED BY <1>8, <1>10, <1>11, <1>12 DEF SteadyInv

\* The founding events joined the members, each sealed with its author's own joining.
LEMMA JoiningFounds ==
  ASSUME NEW n \in DOMAIN Founding
  PROVE  Joining(Founding[n].author) \in DOMAIN Founding
<1> DEFINE S == {m \in DOMAIN Founding : Founding[m].author = Founding[n].author}
<1>1. S \subseteq Nat /\ n \in S /\ S \subseteq DOMAIN Founding
  <2>1. DOMAIN Founding = 1 .. Len(Founding)
    BY UnitAssumption
  <2> QED BY <2>1
<1> HIDE DEF S
<1>2. \E m \in S : \A k \in S : m <= k
  BY <1>1, LeastNumber
<1>3. Min(S) \in S
  BY <1>2 DEF Min
<1> QED BY <1>1, <1>3 DEF Joining, S

\* A unit begins with the founding events each device heard, folded.
LEMMA InitIsSteady ==
  ASSUME Init, SteadyMembership
  PROVE  SteadyInv
<1> DEFINE E == 1 .. Len(log)
<1>1. IInv /\ TypedInv
  BY InitIInv, InitTyped
<1>2. log = Founding /\ ledger = Heard /\ known = Heard /\ DOMAIN Founding = E
  BY UnitAssumption DEF Init
<1>3. E \subseteq Event
  BY <1>1, ReplicaAssumption DEF Event, TypedInv, LogTyped, IInv, LogShape
<1>4. /\ Heard \in [Device -> SUBSET E]
      /\ \A d \in Device : \E n \in Heard[d] : Founding[n].author = d
  <2>1. \A n \in DOMAIN Founding : n \in Heard[Founding[n].author]
    BY UnitAssumption
  <2>2. \A d \in Device : \E n \in DOMAIN Founding : Founding[n].author = d
    BY UnitAssumption
  <2>3. Heard \in [Device -> SUBSET E]
    BY <1>2, UnitAssumption
  <2> QED BY <2>1, <2>2, <2>3
<1>5. \A n \in E : Joining(Founding[n].author) \in E
  BY <1>2, JoiningFounds
<1>6. QuietLog
  BY <1>2 DEF SteadyMembership, QuietLog
<1>7. \A n \in E : sealed[n] \in E
  <2>1. sealed = [n \in Event |-> IF n \in DOMAIN Founding THEN Joining(Founding[n].author) ELSE NoEvent]
    BY DEF Init
  <2> HIDE DEF E
  <2> QED BY <1>2, <1>3, <1>5, <2>1
<1>8. SealHolds
  <2>1. DOMAIN sealed = Event /\ own = [d \in Device |-> Joining(d)]
    BY DEF Init
  <2>2. \A d \in Device : Joining(d) \in E
    <3> HIDE DEF E
    <3> QED BY <1>4, <1>5
  <2>3. own \in [Device -> E]
    BY <2>1, <2>2
  <2>4. \A d \in Device : \A n \in ledger[d] : sealed[n] \in E
    <3> HIDE DEF E
    <3> QED BY <1>2, <1>4, <1>7
  <2> QED BY <2>1, <2>3, <2>4 DEF SealHolds
<1>9. \A d \in Device : auth[d] = AcceptAll(NoAuthority, ById(Heard[d]))
  BY DEF Init
<1>10. ASSUME NEW d \in Device
       PROVE  auth[d] \in Authorities(E) /\ Saturated(auth[d])
  <2> DEFINE s == ById(Heard[d])
  <2>1. s \in Seq(Heard[d])
    <3>1. Heard[d] \in SUBSET (1 .. Len(log))
      BY <1>4
    <3> QED BY <1>1, <3>1, SignedIsTold, ByIdListed DEF IInv, TypedInv
  <2>2. Heard[d] \subseteq Quiet(E)
    BY <1>4, <1>6, <1>7 DEF Quiet, QuietLog, CredentialsOf, CredentialsAt
  <2> HIDE DEF s, E
  <2>3. s \in Seq(Quiet(E))
    BY <2>1, <2>2
  <2>4. NoAuthority \in Authorities(E)
    BY NoAuthorityTyped
  <2>5. AcceptAll(NoAuthority, s) \in Grown(NoAuthority, E) /\ Saturated(AcceptAll(NoAuthority, s))
    BY <2>3, <2>4, AcceptAllGrows
  <2> QED BY <1>9, <2>5 DEF Grown, s
<1>11. AuthHolds
  <2>1. DOMAIN auth = Device
    BY DEF Init
  <2>2. auth = [d \in Device |-> auth[d]]
    BY DEF Init
  <2> HIDE DEF E
  <2>3. auth \in [Device -> Authorities(E)]
    BY <1>10, <2>2
  <2> QED BY <1>10, <2>3 DEF AuthHolds, E
<1>12. WayHolds
  <2>1. /\ \A d \in Device : draft[d] = 0 /\ outbox[d] = {} /\ pulled[d] = {} /\ backlog[d] = <<>>
      /\ \A d \in Device : phase[d] = "idle"
    BY DEF Init, NoEvent
  <2>2. ToSet(<<>>) = {} /\ 0 \notin E
    BY DEF ToSet
  <2>3. \A d \in Device : ledger[d] \subseteq E
    BY <1>2, <1>4
  <2> HIDE DEF E
  <2>4. \A d \in Device : OnItsWay(d) = {}
    BY <2>1, <2>2 DEF OnItsWay
  <2>5. \A d, e \in Device : draft[d] \notin ledger[e] /\ outbox[d] \cap ledger[e] = {}
    BY <2>1, <2>2, <2>3
  <2> QED BY <2>1, <2>4, <2>5 DEF WayHolds
<1>13. FoldHolds
  <2>1. DOMAIN lastKey = Device /\ \A d \in Device : lastKey[d] = LastOf(log, Heard[d])
    BY DEF Init
  <2>2. \A d \in Device : projection[d] = Folded(d, Heard[d])
    BY DEF Init
  <2>3. \A d \in Device : Heard[d] # {}
    BY <1>4
  <2>4. ASSUME NEW d \in Device
        PROVE  HasFolded(log, projection[d], lastKey[d], auth[d], known[d], OnItsWay(d))
    BY <1>2, <2>1, <2>2, <2>3 DEF HasFolded, Folded, KeyOf
  <2> QED BY <2>1, <2>4 DEF FoldHolds
<1> QED BY <1>6, <1>8, <1>11, <1>12, <1>13 DEF SteadyInv

\* Every step of every device leaves the unit steady.
LEMMA StepStaysSteady ==
  ASSUME SteadyMembership, IInv, TypedInv, OutboxIsOwn, SteadyInv, [Next]_vars
  PROVE  SteadyInv'
<1>1. CASE UNCHANGED vars \/ \E d \in Device : \E n \in DOMAIN log : Again(d, n)
  <2>1. UNCHANGED <<log, ledger, sealed, known, projection, lastKey, outbox, draft, phase, backlog, pulled, auth, own>>
    BY <1>1 DEF Again, vars, replicaVars, commandVars, syncVars
  <2>2. \A x \in Device : OnItsWay(x)' = OnItsWay(x)
    BY <2>1 DEF OnItsWay
  <2>3. WayHolds'
    BY <2>1, <2>2 DEF SteadyInv, WayHolds
  <2> QED BY <2>1, <2>2, <2>3, LogAndAuthStay, FoldsStand DEF SteadyInv
<1>2. ASSUME NEW d \in Device,
             \/ \E type \in StockTypes, quantity \in Quantities : DraftStock(d, type, quantity)
             \/ \E subject \in Device : DraftRevocation(d, subject)
             \/ \E subject \in Device, role \in Roles : DraftRoleChange(d, subject, role)
      PROVE  SteadyInv'
  BY <1>2, CommandSignsStock, SigningStaysSteady
<1>3. ASSUME NEW d \in Device, Commit(d) \/ StartSync(d) \/ Publish(d) \/ Pull(d) \/ Receive(d)
      PROVE  SteadyInv'
  BY <1>3, CommitStaysSteady, StartSyncStaysSteady, PublishStaysSteady, PullStaysSteady, ReceiveStaysSteady
<1>4. ASSUME NEW d \in Device,
             \/ PublishFails(d) \/ ReceiveFails(d) \/ AdoptOwnCredential(d) \/ Restart(d)
             \/ \E n \in DOMAIN log : Arrive(d, n)
      PROVE  SteadyInv'
  BY <1>4, PublishFailsStaysSteady, ReceiveFailsStaysSteady, AdoptStaysSteady, RestartStaysSteady,
     ArriveStaysSteady
<1> QED BY <1>1, <1>2, <1>3, <1>4 DEF Next

\* What nothing is on its way to is folded with the authorizations of now.
LEMMA SteadyIsFolded == SteadyInv => ProjectionIsFold
<1> SUFFICES ASSUME SteadyInv, NEW d \in Device, Settled(d)
             PROVE  projection[d] = Folded(d, known[d])
  BY DEF ProjectionIsFold
<1>1. OnItsWay(d) = {}
  <2>1. pulled[d] = {} /\ backlog[d] = <<>>
    BY DEF Settled, SteadyInv, WayHolds
  <2> QED BY <2>1 DEF OnItsWay, ToSet
<1>2. HasFolded(log, projection[d], lastKey[d], auth[d], known[d], OnItsWay(d))
  BY DEF SteadyInv, FoldHolds
<1> QED BY <1>1, <1>2 DEF HasFolded, Folded

\* As long as nobody is removed and no role changes, what the screens show is the fold of
\* everything the device knows under the authorizations it holds: with members joining by
\* grants and tickets, credentials waiting for their issuers, events in any order, failed
\* hand-overs and folds, and restarts (the convergence rule above class ArgusReplica).
THEOREM SteadyProjectionIsFold == SteadyMembership => (Spec => []ProjectionIsFold)
<1> SUFFICES ASSUME SteadyMembership PROVE Spec => []ProjectionIsFold
  OBVIOUS
<1>1. Init => TypedInv /\ OutboxIsOwn /\ SteadyInv
  BY InitTyped, InitRefines, InitIsSteady
<1>2. IInv /\ TypedInv /\ OutboxIsOwn /\ SteadyInv /\ [Next]_vars
        => TypedInv' /\ OutboxIsOwn' /\ SteadyInv'
  BY StepTyped, OutboxStaysOwn, StepStaysSteady
<1>3. SteadyInv => ProjectionIsFold
  BY SteadyIsFolded
<1> QED BY <1>1, <1>2, <1>3, ReplicaInvariant, PTL DEF Spec

-----------------------------------------------------------------------------
(* In such a unit, what a device holds decides which credentials it        *)
(* accepted, whatever the order in which it heard of them.                 *)

\* What a device was told of is what its ledger holds, but for what is on its way, and the
\* credential it seals in; o is that one, held is its ledger, coming its backlog.
HasHeard(l, seals, a, o, held, coming) ==
  /\ \A c \in a.creds : CanAcceptCredential(l, a.creds, a.revs, c)
  /\ Held(a) \subseteq CredentialsIn(l, seals, held)
  /\ CredentialsIn(l, seals, held \ coming) \subseteq Held(a)
  /\ IsDirect(l[o]) => o \in Held(a)
HeardHolds ==
  \A d \in Device : HasHeard(log, sealed, auth[d], own[d], ledger[d], ToSet(backlog[d]))

\* What is queued is shown, what is held is shown or on its way, and no command brings a
\* credential.
ShownHolds ==
  \A d \in Device :
    /\ outbox[d] \subseteq known[d] /\ ledger[d] \subseteq known[d] \cup OnItsWay(d)
    /\ \A n \in outbox[d] : ~ BringsCredential(log[n])
    /\ draft[d] # NoEvent => ~ BringsCredential(log[draft[d]])

\* Two devices that were told of the same credentials accepted the same ones: a Master's is
\* issued by the authority, so what one of them has for a chain, the other has.
LEMMA HeldDecides ==
  ASSUME NEW E, NEW a \in Authorities(E), NEW b \in Authorities(E),
         Saturated(b), Sound(a), Held(a) \subseteq Held(b)
  PROVE  a.creds \subseteq b.creds
<1>1. a.revs = NoneRevoked /\ b.revs = NoneRevoked
  BY DEF Authorities
<1>2. \A c \in ToSet(b.waitingCreds) : ~ MayAccept(b, c)
  BY DEF Saturated, ToSet
<1>3. \A c \in a.creds : MayAccept(a, c) /\ (MayAccept(b, c) => c \in b.creds)
  BY <1>2 DEF Sound, Held
<1>4. ASSUME NEW c \in a.creds, log[c].issuer = Authority PROVE c \in b.creds
  <2>1. MayAccept(b, c)
    BY <1>4 DEF MayAccept, CanAcceptCredential, IssuerCanAuthorize
  <2> QED BY <1>3, <2>1
<1>5. ASSUME NEW c \in a.creds, log[c].issuer # Authority PROVE c \in b.creds
  <2>1. IssuerCanAuthorize(log, a.creds, NoneRevoked, log[c].issuer, c)
    BY <1>1, <1>3 DEF MayAccept, CanAcceptCredential
  <2>2. PICK k \in a.creds : /\ log[k].subject = log[c].issuer /\ log[k].role = "MASTER"
                             /\ CredentialActiveAt(NoneRevoked, k, c)
    BY <1>5, <2>1 DEF IssuerCanAuthorize
  <2>3. log[k].issuer = Authority
    BY <1>3, <2>2 DEF MayAccept, CanAcceptCredential
  <2>4. k \in b.creds
    BY <1>4, <2>3
  <2>5. IssuerCanAuthorize(log, b.creds, NoneRevoked, log[c].issuer, c)
    BY <2>2, <2>4 DEF IssuerCanAuthorize
  <2>6. log[c].role # "MASTER"
    BY <1>3, <1>5 DEF MayAccept, CanAcceptCredential
  <2>7. MayAccept(b, c)
    BY <1>1, <2>5, <2>6 DEF MayAccept, CanAcceptCredential
  <2> QED BY <1>3, <2>7
<1> QED BY <1>4, <1>5

\* The credentials of more events are more, and of two sets those of both.
LEMMA CredentialsOfBoth ==
  ASSUME NEW l, NEW seals, NEW S, NEW T
  PROVE  /\ CredentialsIn(l, seals, S \cup T) = CredentialsIn(l, seals, S) \cup CredentialsIn(l, seals, T)
         /\ CredentialsIn(l, seals, {}) = {}
         /\ S \subseteq T => CredentialsIn(l, seals, S) \subseteq CredentialsIn(l, seals, T)
  BY DEF CredentialsIn

\* They are the same in any history that says the same of them.
LEMMA CredentialsAgree ==
  ASSUME NEW l, NEW seals, NEW l2, NEW seals2, NEW S,
         \A n \in S : l2[n] = l[n] /\ seals2[n] = seals[n] /\ l2[seals[n]] = l[seals[n]]
  PROVE  CredentialsIn(l2, seals2, S) = CredentialsIn(l, seals, S)
<1>1. \A n \in S : CredentialsAt(l2, seals2, n) = CredentialsAt(l, seals, n)
  BY DEF CredentialsAt
<1> QED BY <1>1 DEF CredentialsIn

\* What a device was told of stands in any history that says the same of it,
LEMMA HeardAgrees ==
  ASSUME NEW l, NEW seals, NEW l2, NEW seals2, NEW a, NEW o, NEW held, NEW coming,
         HasHeard(l, seals, a, o, held, coming),
         l2[o] = l[o], SaysAlike(l, l2, a.creds),
         \A n \in held : l2[n] = l[n] /\ seals2[n] = seals[n] /\ l2[seals[n]] = l[seals[n]]
  PROVE  HasHeard(l2, seals2, a, o, held, coming)
<1>1. \A c \in a.creds : l2[c] = l[c]
  BY DEF SaysAlike
<1>2. \A c \in a.creds : CanAcceptCredential(l2, a.creds, a.revs, c)
                           <=> CanAcceptCredential(l, a.creds, a.revs, c)
  BY <1>1, SameAcceptance
<1>3. /\ CredentialsIn(l2, seals2, held) = CredentialsIn(l, seals, held)
      /\ CredentialsIn(l2, seals2, held \ coming) = CredentialsIn(l, seals, held \ coming)
  BY CredentialsAgree
<1> QED BY <1>2, <1>3 DEF HasHeard

\* and when more is held that is on its way or tells nothing new.
LEMMA HeardMore ==
  ASSUME NEW l, NEW seals, NEW a, NEW o, NEW held, NEW coming,
         HasHeard(l, seals, a, o, held, coming),
         NEW held2, NEW coming2, held \subseteq held2, coming \subseteq coming2,
         \A n \in held2 \ (held \cup coming2) : CredentialsAt(l, seals, n) \subseteq Held(a)
  PROVE  HasHeard(l, seals, a, o, held2, coming2)
<1>1. CredentialsIn(l, seals, held) \subseteq CredentialsIn(l, seals, held2)
  BY CredentialsOfBoth
<1>2. CredentialsIn(l, seals, held2 \ coming2) \subseteq Held(a)
  <2>1. ASSUME NEW n \in held2 \ coming2 PROVE CredentialsAt(l, seals, n) \subseteq Held(a)
    <3>1. CASE n \in held
      <4>1. n \in held \ coming
        BY <3>1
      <4>2. CredentialsAt(l, seals, n) \subseteq CredentialsIn(l, seals, held \ coming)
        BY <4>1 DEF CredentialsIn
      <4> QED BY <4>2 DEF HasHeard
    <3>2. CASE n \notin held
      BY <3>2
    <3> QED BY <3>1, <3>2
  <2> QED BY <2>1 DEF CredentialsIn
<1> QED BY <1>1, <1>2 DEF HasHeard

\* A stock event brings no credential, and nothing older depends on it.
LEMMA SigningIsHeard ==
  ASSUME IInv, TypedInv, SteadyInv, HeardHolds, ShownHolds, NEW d \in Device, SignsStock(d)
  PROVE  HeardHolds' /\ ShownHolds'
<1> DEFINE E == 1 .. Len(log)
<1>1. PICK e : e.type \in StockTypes /\ log' = Append(log, e)
  BY DEF SignsStock
<1>2. /\ \A i \in 1 .. Len(log) : log'[i] = log[i]
      /\ log'[Len(log) + 1] = e
  BY <1>1, Appended DEF IInv, LogShape
<1>3. PICK l2 : l2 = log'
  OBVIOUS
<1>4. \A i \in E : l2[i] = log[i]
  BY <1>2, <1>3
<1>5. UNCHANGED <<ledger, sealed, known, outbox, backlog, pulled, auth, own>>
  BY DEF SignsStock
<1>6. draft' = [draft EXCEPT ![d] = Len(log) + 1]
  BY DEF SignsStock
<1>7. /\ auth \in [Device -> Authorities(E)] /\ own \in [Device -> E]
      /\ \A x \in Device : ledger[x] \subseteq E /\ outbox[x] \subseteq E
      /\ \A x \in Device : \A n \in ledger[x] : sealed[n] \in E
      /\ draft \in [Device -> E \cup {NoEvent}]
  BY DEF SteadyInv, AuthHolds, SealHolds, IInv, MemoryShape
<1> HIDE DEF E
<1>8. HeardHolds'
  <2>1. ASSUME NEW x \in Device PROVE HasHeard(l2, sealed, auth[x], own[x], ledger[x], ToSet(backlog[x]))
    <3>1. HasHeard(log, sealed, auth[x], own[x], ledger[x], ToSet(backlog[x]))
      BY DEF HeardHolds
    <3>2. l2[own[x]] = log[own[x]]
      BY <1>4, <1>7
    <3>3. auth[x].creds \subseteq E
      BY <1>7 DEF Authorities
    <3>4. SaysAlike(log, l2, auth[x].creds)
      BY <1>4, <3>3 DEF SaysAlike
    <3>5. \A n \in ledger[x] : l2[n] = log[n] /\ sealed[n] = sealed[n] /\ l2[sealed[n]] = log[sealed[n]]
      BY <1>4, <1>7
    <3> QED BY <3>1, <3>2, <3>4, <3>5, HeardAgrees
  <2> QED BY <1>3, <1>5, <2>1 DEF HeardHolds
<1>9. ShownHolds'
  <2>1. \A x \in Device : OnItsWay(x)' = OnItsWay(x)
    BY <1>5 DEF OnItsWay
  <2>2. ~ BringsCredential(e)
    BY <1>1 DEF BringsCredential, StockTypes
  <2>3. \A x \in Device : draft'[x] = draft[x] \/ draft'[x] = Len(log) + 1
    BY <1>6, <1>7
  <2>4. \A x \in Device : draft[x] # NoEvent => log'[draft[x]] = log[draft[x]]
    BY <1>3, <1>4, <1>7
  <2>5. \A x \in Device : draft'[x] # NoEvent => ~ BringsCredential(log'[draft'[x]])
    BY <1>2, <2>2, <2>3, <2>4 DEF ShownHolds
  <2>6. \A x \in Device : \A n \in outbox[x] : ~ BringsCredential(log'[n])
    BY <1>3, <1>4, <1>7 DEF ShownHolds
  <2> QED BY <1>5, <2>1, <2>5, <2>6 DEF ShownHolds
<1> QED BY <1>8, <1>9

\* What leaves alone what a device was told of,
LEMMA HeardStands ==
  ASSUME HeardHolds, UNCHANGED <<log, sealed, auth, own, ledger, backlog>>
  PROVE  HeardHolds'
  BY DEF HeardHolds

\* and what it shows.
LEMMA ShownStands ==
  ASSUME ShownHolds, UNCHANGED <<log, ledger, known, outbox, draft>>,
         \A x \in Device : OnItsWay(x)' = OnItsWay(x)
  PROVE  ShownHolds'
  BY DEF ShownHolds

\* A commit queues what it shows.
LEMMA CommitIsHeard ==
  ASSUME IInv, TypedInv, SteadyInv, HeardHolds, ShownHolds, NEW d \in Device, Commit(d)
  PROVE  HeardHolds' /\ ShownHolds'
<1> DEFINE n == draft[d]
<1>1. /\ n # NoEvent /\ draft' = [draft EXCEPT ![d] = NoEvent]
      /\ UNCHANGED <<log, ledger, sealed, backlog, pulled, auth, own>>
  BY DEF Commit, syncVars
<1>2. \/ UNCHANGED <<known, outbox>>
      \/ known' = [known EXCEPT ![d] = @ \cup {n}] /\ outbox' = [outbox EXCEPT ![d] = @ \cup {n}]
  BY DEF Commit, Store, replicaVars
<1>3. DOMAIN draft = Device /\ DOMAIN outbox = Device /\ DOMAIN known = Device
  BY DEF IInv, MemoryShape
<1>4. ~ BringsCredential(log[n])
  BY <1>1 DEF ShownHolds
<1> HIDE DEF n
<1>5. HeardHolds'
  BY <1>1, HeardStands
<1>6. \A x \in Device : OnItsWay(x)' = OnItsWay(x)
  BY <1>1 DEF OnItsWay
<1>7. \A x \in Device : \/ known'[x] = known[x] /\ outbox'[x] = outbox[x]
                        \/ known'[x] = known[x] \cup {n} /\ outbox'[x] = outbox[x] \cup {n}
  BY <1>2, <1>3
<1>8. \A x \in Device : draft'[x] = draft[x] \/ draft'[x] = NoEvent
  BY <1>1, <1>3
<1>9. ASSUME NEW x \in Device
      PROVE  /\ outbox'[x] \subseteq known'[x] /\ ledger[x] \subseteq known'[x] \cup OnItsWay(x)
             /\ \A m \in outbox'[x] : ~ BringsCredential(log[m])
             /\ draft'[x] # NoEvent => ~ BringsCredential(log[draft'[x]])
  BY <1>4, <1>7, <1>8 DEF ShownHolds
<1>10. ShownHolds'
  BY <1>1, <1>6, <1>9 DEF ShownHolds
<1> QED BY <1>5, <1>10

\* A record is sealed with a credential that its device was told of.
LEMMA PublishIsHeard ==
  ASSUME IInv, TypedInv, SteadyInv, HeardHolds, ShownHolds, NEW d \in Device, Publish(d)
  PROVE  HeardHolds' /\ ShownHolds'
<1>1. UNCHANGED <<log, known, draft, backlog, pulled, auth, own>>
  BY DEF Publish, replicaVars, commandVars
<1>2. PICK n \in batch[d] : /\ sealed' = [sealed EXCEPT ![n] = own[d]]
                            /\ ledger' = [ledger EXCEPT ![d] = @ \cup {n}]
                            /\ outbox' = [outbox EXCEPT ![d] = @ \ {n}]
  BY DEF Publish
<1>3. n \in outbox[d] /\ n \in known[d] /\ ~ BringsCredential(log[n]) /\ \A x \in Device : n \notin ledger[x]
  BY DEF IInv, SyncHolds, ShownHolds, SteadyInv, WayHolds
<1>4. DOMAIN ledger = Device /\ DOMAIN outbox = Device /\ DOMAIN sealed = Event /\ n \in Event
  <2>1. n \in 1 .. Len(log)
    BY DEF IInv, SyncHolds, MemoryShape
  <2>2. n \in Event
    BY <2>1, ReplicaAssumption DEF Event, TypedInv, LogTyped, IInv, LogShape
  <2> QED BY <2>2 DEF IInv, MemoryShape, SteadyInv, SealHolds
<1>5. PICK s2 : s2 = sealed'
  OBVIOUS
<1>6. s2[n] = own[d] /\ \A m : m # n /\ m \in Event => s2[m] = sealed[m]
  BY <1>2, <1>4, <1>5
<1>7. \A x \in Device : ledger[x] \subseteq Event
  BY ReplicaAssumption DEF Event, TypedInv, LogTyped, IInv, LogShape, MemoryShape
<1>8. ASSUME NEW x \in Device PROVE HasHeard(log, s2, auth[x], own[x], ledger[x], ToSet(backlog[x]))
  <2>1. HasHeard(log, sealed, auth[x], own[x], ledger[x], ToSet(backlog[x]))
    BY DEF HeardHolds
  <2>2. \A m \in ledger[x] : log[m] = log[m] /\ s2[m] = sealed[m] /\ log[sealed[m]] = log[sealed[m]]
    BY <1>3, <1>6, <1>7
  <2>3. SaysAlike(log, log, auth[x].creds)
    BY DEF SaysAlike
  <2> QED BY <2>1, <2>2, <2>3, HeardAgrees
<1>9. HasHeard(log, s2, auth[d], own[d], ledger[d] \cup {n}, ToSet(backlog[d]))
  <2>1. CredentialsAt(log, s2, n) \subseteq Held(auth[d])
    BY <1>3, <1>6, <1>8 DEF CredentialsAt, HasHeard
  <2>2. HasHeard(log, s2, auth[d], own[d], ledger[d], ToSet(backlog[d]))
    BY <1>8
  <2>3. ledger[d] \subseteq ledger[d] \cup {n} /\ ToSet(backlog[d]) \subseteq ToSet(backlog[d])
    OBVIOUS
  <2>4. \A m \in (ledger[d] \cup {n}) \ (ledger[d] \cup ToSet(backlog[d])) :
          CredentialsAt(log, s2, m) \subseteq Held(auth[d])
    BY <2>1
  <2> QED BY <2>2, <2>3, <2>4, HeardMore
<1>10. \A x \in Device : ledger'[x] = IF x = d THEN ledger[d] \cup {n} ELSE ledger[x]
  BY <1>2, <1>4
<1>11. \A x \in Device : HasHeard(log, s2, auth[x], own[x], ledger'[x], ToSet(backlog[x]))
  BY <1>8, <1>9, <1>10
<1>12. HeardHolds'
  BY <1>1, <1>5, <1>11 DEF HeardHolds
<1>13. \A x \in Device : OnItsWay(x)' = OnItsWay(x)
  BY <1>1 DEF OnItsWay
<1>14. \A x \in Device : outbox'[x] \subseteq outbox[x] /\ (ledger'[x] \subseteq ledger[x] \cup known[x])
  BY <1>2, <1>3, <1>4, <1>10
<1>15. ShownHolds'
  BY <1>1, <1>13, <1>14 DEF ShownHolds
<1> QED BY <1>12, <1>15

\* A hand-over that fails, whether it is tried again or not, and a sync that starts.
LEMMA HandOverIsHeard ==
  ASSUME IInv, TypedInv, SteadyInv, HeardHolds, ShownHolds, NEW d \in Device,
         StartSync(d) \/ PublishFails(d)
  PROVE  HeardHolds' /\ ShownHolds'
<1>1. UNCHANGED <<log, ledger, sealed, known, outbox, draft, backlog, pulled, auth, own>>
  BY DEF StartSync, PublishFails, replicaVars, commandVars
<1>2. \A x \in Device : OnItsWay(x)' = OnItsWay(x)
  BY <1>1 DEF OnItsWay
<1> QED BY <1>1, <1>2, HeardStands, ShownStands

\* A device adopts a credential that it accepted.
LEMMA AdoptIsHeard ==
  ASSUME SteadyInv, HeardHolds, ShownHolds, NEW d \in Device, AdoptOwnCredential(d)
  PROVE  HeardHolds' /\ ShownHolds'
<1>1. UNCHANGED <<log, ledger, sealed, known, outbox, draft, backlog, pulled, auth>>
  BY DEF AdoptOwnCredential, replicaVars, commandVars, syncVars
<1>2. \A x \in Device : OnItsWay(x)' = OnItsWay(x)
  BY <1>1 DEF OnItsWay
<1>3. DOMAIN own = Device
  BY DEF SteadyInv, SealHolds
<1>4. \A x \in Device : own'[x] = own[x] \/ own'[x] \in Held(auth[x])
  <2> DEFINE me == projection[d].members[d]
  <2>1. own' = [own EXCEPT ![d] = IF me.status = "ACTIVE" /\ me.credential \in auth[d].creds
                                  THEN me.credential ELSE @]
    BY DEF AdoptOwnCredential
  <2>2. own'[d] = own[d] \/ own'[d] \in auth[d].creds
    BY <1>3, <2>1
  <2>3. \A x \in Device \ {d} : own'[x] = own[x]
    BY <1>3, <2>1
  <2> QED BY <2>2, <2>3 DEF Held
<1>5. \A x \in Device : HasHeard(log, sealed, auth[x], own'[x], ledger[x], ToSet(backlog[x]))
  BY <1>4 DEF HeardHolds, HasHeard
<1>6. HeardHolds'
  BY <1>1, <1>5 DEF HeardHolds
<1> QED BY <1>1, <1>2, <1>6, ShownStands

\* What arrives is on its way.
LEMMA ArriveIsHeard ==
  ASSUME IInv, TypedInv, HeardHolds, ShownHolds, NEW d \in Device, NEW n \in DOMAIN log, Arrive(d, n)
  PROVE  HeardHolds' /\ ShownHolds'
<1>1. /\ UNCHANGED <<log, sealed, known, outbox, draft, pulled, auth, own>>
      /\ ledger' = [ledger EXCEPT ![d] = @ \cup {n}]
      /\ backlog' = [backlog EXCEPT ![d] = Append(@, n)]
  BY DEF Arrive, replicaVars, commandVars
<1>2. DOMAIN ledger = Device /\ DOMAIN backlog = Device /\ backlog[d] \in Seq(ledger[d])
  BY DEF IInv, MemoryShape, TypedInv, BacklogHolds
<1>3. ledger'[d] = ledger[d] \cup {n} /\ ToSet(backlog'[d]) = ToSet(backlog[d]) \cup {n}
  <2>1. ToSet(Append(backlog[d], n)) = ToSet(backlog[d]) \cup {n}
    BY <1>2, SetWithOneMore
  <2> QED BY <1>1, <1>2, <2>1
<1>4. \A x \in Device \ {d} : ledger'[x] = ledger[x] /\ backlog'[x] = backlog[x]
  BY <1>1, <1>2
<1>5. HasHeard(log, sealed, auth[d], own[d], ledger[d] \cup {n}, ToSet(backlog[d]) \cup {n})
  <2>1. HasHeard(log, sealed, auth[d], own[d], ledger[d], ToSet(backlog[d]))
    BY DEF HeardHolds
  <2>2. /\ ledger[d] \subseteq ledger[d] \cup {n} /\ ToSet(backlog[d]) \subseteq ToSet(backlog[d]) \cup {n}
        /\ (ledger[d] \cup {n}) \ (ledger[d] \cup (ToSet(backlog[d]) \cup {n})) = {}
    OBVIOUS
  <2> QED BY <2>1, <2>2, HeardMore
<1>6. \A x \in Device : HasHeard(log, sealed, auth[x], own[x], ledger'[x], ToSet(backlog'[x]))
  BY <1>3, <1>4, <1>5 DEF HeardHolds
<1>7. HeardHolds'
  BY <1>1, <1>6 DEF HeardHolds
<1>8. OnItsWay(d)' = OnItsWay(d) \cup {n} /\ \A x \in Device \ {d} : OnItsWay(x)' = OnItsWay(x)
  BY <1>1, <1>3, <1>4 DEF OnItsWay
<1>9. \A x \in Device : ledger'[x] \subseteq known[x] \cup OnItsWay(x)'
  BY <1>3, <1>4, <1>8 DEF ShownHolds
<1>10. ShownHolds'
  BY <1>1, <1>9 DEF ShownHolds
<1> QED BY <1>7, <1>10

\* A list of elements of a set is one of elements of any larger set.
LEMMA ListOfMore ==
  ASSUME NEW S, NEW Q, S \subseteq Q, NEW s \in Seq(S)
  PROVE  s \in Seq(Q)
<1>1. DOMAIN s = 1 .. Len(s) /\ Len(s) \in Nat /\ s = [i \in 1 .. Len(s) |-> s[i]]
  OBVIOUS
<1>2. \A i \in 1 .. Len(s) : s[i] \in S
  OBVIOUS
<1>3. \A i \in 1 .. Len(s) : s[i] \in Q
  BY <1>2
<1> QED BY <1>1, <1>3

\* What a device hears of when it takes over all that is on its way.
LEMMA HeardAll ==
  ASSUME NEW a, NEW o, NEW held, NEW s, HasHeard(log, sealed, a, o, held, ToSet(s)),
         a \in Authorities(1 .. Len(log)), held \subseteq Nat,
         s \in Seq(held), \A n \in held : ~ BringsRevocation(log[n])
  PROVE  HasHeard(log, sealed, AcceptAll(a, s), o, held, {})
<1> DEFINE E == Credentials(held)
<1> DEFINE b == AcceptAll(a, s)
<1>1. a \in Authorities(E)
  <2>1. Held(a) \subseteq E
    BY DEF HasHeard, Credentials
  <2>2. a.creds \subseteq E /\ ToSet(a.waitingCreds) \subseteq E
    BY <2>1 DEF Held
  <2>3. a.waitingCreds \in Seq(1 .. Len(log))
    BY DEF Authorities
  <2> HIDE DEF E
  <2>4. a.waitingCreds \in Seq(E)
    <3> DEFINE w == a.waitingCreds
    <3>1. DOMAIN w = 1 .. Len(w) /\ Len(w) \in Nat /\ w = [i \in 1 .. Len(w) |-> w[i]]
      BY <2>3
    <3>2. \A i \in 1 .. Len(w) : w[i] \in E
      BY <2>2, <3>1 DEF ToSet
    <3> HIDE DEF w
    <3>3. w \in Seq(E)
      BY <3>1, <3>2
    <3> QED BY <3>3 DEF w
  <2> QED BY <2>2, <2>4 DEF Authorities
<1>2. s \in Seq(Quiet(E))
  <2>1. \A n \in held : CredentialsOf(n) \subseteq E
    BY DEF Credentials, CredentialsIn, CredentialsOf
  <2> HIDE DEF E
  <2>2. held \subseteq Quiet(E)
    BY <2>1 DEF Quiet
  <2> QED BY <2>2, ListOfMore
<1> HIDE DEF E
<1>3. b \in Grown(a, E) /\ Credentials(ToSet(s)) \subseteq Held(b)
  BY <1>1, <1>2, AcceptAllGrows
<1> HIDE DEF b
<1>4. b \in Authorities(E) /\ Held(a) \subseteq Held(b) /\ (Sound(a) => Sound(b))
  BY <1>3 DEF Grown
<1>5. Sound(b)
  BY <1>4 DEF HasHeard, Sound, MayAccept
<1>6. Held(b) \subseteq E
  BY <1>4 DEF Held, Authorities, ToSet
<1>7. CredentialsIn(log, sealed, held) \subseteq Held(b)
  <2>1. CredentialsIn(log, sealed, held \ ToSet(s)) \subseteq Held(b)
    BY <1>4 DEF HasHeard
  <2>2. CredentialsIn(log, sealed, (held \ ToSet(s)) \cup ToSet(s)) \subseteq Held(b)
    BY <1>3, <2>1, CredentialsOfBoth DEF Credentials
  <2>3. held \subseteq (held \ ToSet(s)) \cup ToSet(s)
    OBVIOUS
  <2>4. CredentialsIn(log, sealed, held) \subseteq CredentialsIn(log, sealed, (held \ ToSet(s)) \cup ToSet(s))
    BY <2>3, CredentialsOfBoth
  <2> QED BY <2>2, <2>4
<1>8. HasHeard(log, sealed, b, o, held, {})
  <2>1. held \ {} = held
    OBVIOUS
  <2>2. IsDirect(log[o]) => o \in Held(b)
    BY <1>4 DEF HasHeard
  <2>3. \A c \in b.creds : CanAcceptCredential(log, b.creds, b.revs, c)
    BY <1>5 DEF Sound, MayAccept
  <2>4. Held(b) \subseteq CredentialsIn(log, sealed, held)
    BY <1>6 DEF E, Credentials
  <2> QED BY <1>7, <2>1, <2>2, <2>3, <2>4 DEF HasHeard
<1> QED BY <1>8 DEF b

\* A pull tells of all that is on its way.
LEMMA PullIsHeard ==
  ASSUME SteadyInv, IInv, TypedInv, HeardHolds, ShownHolds, NEW d \in Device, Pull(d)
  PROVE  HeardHolds' /\ ShownHolds'
<1> DEFINE b == AcceptAll(auth[d], backlog[d])
<1>1. /\ UNCHANGED <<log, ledger, sealed, known, outbox, draft, own>>
      /\ phase[d] = "publish"
      /\ auth' = [auth EXCEPT ![d] = b]
      /\ pulled' = [pulled EXCEPT ![d] = ToSet(backlog[d]) \cap ledger[d]]
      /\ backlog' = [backlog EXCEPT ![d] = <<>>]
  BY DEF Pull, replicaVars
<1>2. /\ DOMAIN auth = Device /\ DOMAIN pulled = Device /\ DOMAIN backlog = Device
      /\ auth[d] \in Authorities(1 .. Len(log))
      /\ ledger[d] \subseteq 1 .. Len(log) /\ backlog[d] \in Seq(ledger[d])
  BY DEF IInv, MemoryShape, TypedInv, BacklogHolds, SteadyInv, AuthHolds
<1>3. HasHeard(log, sealed, b, own[d], ledger[d], {})
  <2>1. HasHeard(log, sealed, auth[d], own[d], ledger[d], ToSet(backlog[d]))
    BY DEF HeardHolds
  <2>2. ledger[d] \subseteq Nat
    BY <1>2
  <2>3. \A n \in ledger[d] : ~ BringsRevocation(log[n])
    BY <1>2 DEF SteadyInv, QuietLog
  <2> QED BY <1>2, <2>1, <2>2, <2>3, HeardAll
<1> HIDE DEF b
<1>4. ToSet(<<>>) = {}
  BY DEF ToSet
<1>5. /\ auth'[d] = b /\ backlog'[d] = <<>> /\ pulled'[d] = ToSet(backlog[d]) \cap ledger[d]
      /\ \A x \in Device \ {d} : auth'[x] = auth[x] /\ backlog'[x] = backlog[x] /\ pulled'[x] = pulled[x]
  BY <1>1, <1>2
<1>6. ASSUME NEW x \in Device
      PROVE  HasHeard(log, sealed, auth'[x], own[x], ledger[x], ToSet(backlog'[x]))
  <2>1. CASE x = d
    BY <1>3, <1>4, <1>5, <2>1
  <2>2. CASE x # d
    BY <1>5, <2>2 DEF HeardHolds
  <2> QED BY <2>1, <2>2
<1>7. HeardHolds'
  BY <1>1, <1>6 DEF HeardHolds
<1>8. OnItsWay(d)' = OnItsWay(d)
  <2>1. ToSet(backlog[d]) \subseteq ledger[d] /\ pulled[d] = {}
    BY <1>1, WayIsHeld DEF SteadyInv, WayHolds
  <2> QED BY <1>4, <1>5, <2>1 DEF OnItsWay
<1>9. \A x \in Device \ {d} : OnItsWay(x)' = OnItsWay(x)
  BY <1>5 DEF OnItsWay
<1>10. \A x \in Device : OnItsWay(x)' = OnItsWay(x)
  BY <1>8, <1>9
<1> QED BY <1>1, <1>7, <1>10, ShownStands

\* What was pulled is shown; a device was told of it before.
LEMMA ReceiveIsHeard ==
  ASSUME SteadyInv, IInv, TypedInv, HeardHolds, ShownHolds, NEW d \in Device, Receive(d)
  PROVE  HeardHolds' /\ ShownHolds'
<1>1. /\ UNCHANGED <<log, ledger, sealed, outbox, draft, backlog, auth, own>>
      /\ pulled' = [pulled EXCEPT ![d] = {}]
  BY DEF Receive, EndSync
<1>2. \/ pulled[d] \subseteq known[d] /\ known' = known
      \/ known' = [known EXCEPT ![d] = @ \cup (pulled[d] \ known[d])]
  BY DEF Receive, Store, replicaVars
<1>3. DOMAIN pulled = Device /\ DOMAIN known = Device
  BY DEF IInv, MemoryShape
<1>4. known'[d] = known[d] \cup pulled[d] /\ \A x \in Device \ {d} : known'[x] = known[x]
  BY <1>2, <1>3
<1>5. pulled'[d] = {} /\ \A x \in Device \ {d} : pulled'[x] = pulled[x]
  BY <1>1, <1>3
<1>6. HeardHolds'
  BY <1>1, HeardStands
<1>7. OnItsWay(d)' = ToSet(backlog[d]) /\ \A x \in Device \ {d} : OnItsWay(x)' = OnItsWay(x)
  BY <1>1, <1>5 DEF OnItsWay
<1>8. \A x \in Device : ledger[x] \subseteq known[x] \cup OnItsWay(x) /\ outbox[x] \subseteq known[x]
  BY DEF ShownHolds
<1>9. ledger[d] \subseteq known'[d] \cup OnItsWay(d)'
  BY <1>4, <1>7, <1>8 DEF OnItsWay
<1>10. \A x \in Device : ledger[x] \subseteq known'[x] \cup OnItsWay(x)' /\ outbox[x] \subseteq known'[x]
  BY <1>4, <1>7, <1>8, <1>9
<1>11. ShownHolds'
  BY <1>1, <1>10 DEF ShownHolds
<1> QED BY <1>6, <1>11

\* What could not be folded is on its way again, all of it.
LEMMA ReceiveFailsIsHeard ==
  ASSUME SteadyInv, IInv, TypedInv, HeardHolds, ShownHolds, NEW d \in Device, ReceiveFails(d)
  PROVE  HeardHolds' /\ ShownHolds'
<1> DEFINE t == ById(pulled[d])
<1>1. /\ UNCHANGED <<log, ledger, sealed, known, outbox, draft, auth, own>>
      /\ backlog' = [backlog EXCEPT ![d] = @ \o t]
      /\ pulled' = [pulled EXCEPT ![d] = {}]
  BY DEF ReceiveFails, EndSync, replicaVars
<1>2. /\ DOMAIN pulled = Device /\ DOMAIN backlog = Device
      /\ pulled[d] \in SUBSET (1 .. Len(log)) /\ pulled[d] \subseteq ledger[d]
      /\ backlog[d] \in Seq(ledger[d])
  BY DEF IInv, MemoryShape, SyncHolds, TypedInv, BacklogHolds
<1>3. t \in Seq(pulled[d]) /\ ToSet(t) = pulled[d]
  BY <1>2, SignedIsTold, ByIdListed DEF IInv, TypedInv
<1> HIDE DEF t
<1>4. ToSet(backlog[d] \o t) = ToSet(backlog[d]) \cup pulled[d]
  <2>1. t \in Seq(ledger[d])
    BY <1>2, <1>3, ListOfMore
  <2> QED BY <1>2, <1>3, <2>1, SetOfBoth
<1>5. /\ pulled'[d] = {} /\ backlog'[d] = backlog[d] \o t
      /\ \A x \in Device \ {d} : pulled'[x] = pulled[x] /\ backlog'[x] = backlog[x]
  BY <1>1, <1>2
<1>6. HasHeard(log, sealed, auth[d], own[d], ledger[d], ToSet(backlog[d]) \cup pulled[d])
  <2>1. HasHeard(log, sealed, auth[d], own[d], ledger[d], ToSet(backlog[d]))
    BY DEF HeardHolds
  <2>2. /\ ledger[d] \subseteq ledger[d] /\ ToSet(backlog[d]) \subseteq ToSet(backlog[d]) \cup pulled[d]
        /\ ledger[d] \ (ledger[d] \cup (ToSet(backlog[d]) \cup pulled[d])) = {}
    OBVIOUS
  <2> QED BY <2>1, <2>2, HeardMore
<1>7. ToSet(backlog'[d]) = ToSet(backlog[d]) \cup pulled[d]
  BY <1>4, <1>5
<1>8. \A x \in Device : HasHeard(log, sealed, auth[x], own[x], ledger[x], ToSet(backlog'[x]))
  BY <1>5, <1>6, <1>7 DEF HeardHolds
<1>9. HeardHolds'
  BY <1>1, <1>8 DEF HeardHolds
<1>10. OnItsWay(d)' = OnItsWay(d)
  BY <1>5, <1>7 DEF OnItsWay
<1>11. \A x \in Device \ {d} : OnItsWay(x)' = OnItsWay(x)
  BY <1>5 DEF OnItsWay
<1>12. \A x \in Device : OnItsWay(x)' = OnItsWay(x)
  BY <1>10, <1>11
<1> QED BY <1>1, <1>9, <1>12, ShownStands

\* A page that opens again has all of its ledger to hear of again.
LEMMA RestartIsHeard ==
  ASSUME SteadyInv, IInv, TypedInv, HeardHolds, ShownHolds, NEW d \in Device, Restart(d)
  PROVE  HeardHolds' /\ ShownHolds'
<1> DEFINE a == IF IsDirect(log[own[d]]) THEN AcceptCredential(NoAuthority, own[d]) ELSE NoAuthority
<1> DEFINE t == ById(ledger[d])
<1>1. /\ UNCHANGED <<log, ledger, sealed, own>>
      /\ known' = [known EXCEPT ![d] = {}]
      /\ outbox' = [outbox EXCEPT ![d] = {}]
      /\ draft' = [draft EXCEPT ![d] = NoEvent]
      /\ pulled' = [pulled EXCEPT ![d] = {}]
      /\ auth' = [auth EXCEPT ![d] = a]
      /\ backlog' = [backlog EXCEPT ![d] = t]
  BY DEF Restart
<1>2. /\ DOMAIN known = Device /\ DOMAIN outbox = Device /\ DOMAIN draft = Device
      /\ DOMAIN pulled = Device /\ DOMAIN backlog = Device /\ DOMAIN auth = Device
      /\ ledger[d] \in SUBSET (1 .. Len(log))
  BY DEF IInv, MemoryShape, TypedInv, SteadyInv, AuthHolds
<1>3. ToSet(t) = ledger[d]
  BY <1>2, SignedIsTold, ByIdListed DEF IInv, TypedInv
<1>4. HasHeard(log, sealed, a, own[d], ledger[d], ledger[d])
  <2> DEFINE E == CredentialsIn(log, sealed, ledger[d])
  <2> DEFINE o == own[d]
  <2>1. IsDirect(log[o]) => o \in E
    BY DEF HeardHolds, HasHeard
  <2>2. NoAuthority \in Authorities(E) /\ Sound(NoAuthority) /\ Held(NoAuthority) = {}
    <3>1. NoAuthority.creds = {} /\ NoAuthority.waitingCreds = <<>>
      BY DEF NoAuthority
    <3>2. ToSet(<<>>) = {}
      BY DEF ToSet
    <3> HIDE DEF E
    <3> QED BY <3>1, <3>2, NoAuthorityTyped DEF Sound, Held
  <2> HIDE DEF E, o
  <2>3. IsDirect(log[o]) => AcceptCredential(NoAuthority, o) \in Grown(NoAuthority, E)
                            /\ o \in Held(AcceptCredential(NoAuthority, o))
    BY <2>1, <2>2, AcceptCredentialGrows
  <2>4. a = IF IsDirect(log[o]) THEN AcceptCredential(NoAuthority, o) ELSE NoAuthority
    BY DEF o
  <2> HIDE DEF a
  <2>5. a \in Authorities(E) /\ Sound(a) /\ (IsDirect(log[o]) => o \in Held(a))
    BY <2>2, <2>3, <2>4 DEF Grown
  <2>6. Held(a) \subseteq E
    BY <2>5 DEF Held, Authorities, ToSet
  <2>7. ledger[d] \ ledger[d] = {} /\ CredentialsIn(log, sealed, {}) = {}
    BY CredentialsOfBoth
  <2> QED BY <2>5, <2>6, <2>7 DEF HasHeard, Sound, MayAccept, E, o
<1> HIDE DEF a, t
<1>5. /\ known'[d] = {} /\ outbox'[d] = {} /\ draft'[d] = NoEvent /\ pulled'[d] = {}
      /\ auth'[d] = a /\ backlog'[d] = t
  BY <1>1, <1>2
<1>6. \A x \in Device \ {d} : /\ known'[x] = known[x] /\ outbox'[x] = outbox[x] /\ draft'[x] = draft[x]
                              /\ pulled'[x] = pulled[x] /\ auth'[x] = auth[x] /\ backlog'[x] = backlog[x]
  BY <1>1, <1>2
<1>7. ToSet(backlog'[d]) = ledger[d]
  BY <1>3, <1>5
<1>8. \A x \in Device : HasHeard(log, sealed, auth'[x], own[x], ledger[x], ToSet(backlog'[x]))
  BY <1>4, <1>5, <1>6, <1>7 DEF HeardHolds
<1>9. HeardHolds'
  BY <1>1, <1>8 DEF HeardHolds
<1>10. OnItsWay(d)' = ledger[d] /\ \A x \in Device \ {d} : OnItsWay(x)' = OnItsWay(x)
  BY <1>5, <1>6, <1>7 DEF OnItsWay
<1>11. ASSUME NEW x \in Device
       PROVE  /\ outbox'[x] \subseteq known'[x] /\ ledger[x] \subseteq known'[x] \cup OnItsWay(x)'
              /\ \A n \in outbox'[x] : ~ BringsCredential(log[n])
              /\ draft'[x] # NoEvent => ~ BringsCredential(log[draft'[x]])
  <2>1. CASE x = d
    BY <1>5, <1>10, <2>1
  <2>2. CASE x # d
    BY <1>6, <1>10, <2>2 DEF ShownHolds
  <2> QED BY <2>1, <2>2
<1>12. ShownHolds'
  BY <1>1, <1>11 DEF ShownHolds
<1> QED BY <1>9, <1>12

\* A unit begins with the founding events each device heard, its own joining among them.
LEMMA InitIsHeard ==
  ASSUME Init, SteadyMembership
  PROVE  HeardHolds /\ ShownHolds
<1>1. IInv /\ TypedInv /\ SteadyInv
  BY InitIInv, InitTyped, InitIsSteady
<1>2. /\ log = Founding /\ ledger = Heard /\ known = Heard
      /\ \A d \in Device : outbox[d] = {} /\ draft[d] = NoEvent /\ backlog[d] = <<>> /\ own[d] = Joining(d)
  BY DEF Init
<1>3. ToSet(<<>>) = {}
  BY DEF ToSet
<1>4. DOMAIN Founding = 1 .. Len(Founding) /\ Len(Founding) <= MaxEvents
  BY UnitAssumption
<1>5. /\ \A n \in DOMAIN Founding : n \in Heard[Founding[n].author]
      /\ \A d \in Device : \E n \in DOMAIN Founding : Founding[n].author = d
  BY UnitAssumption
<1>6. ASSUME NEW d \in Device
      PROVE  Joining(d) \in Heard[d] /\ sealed[Joining(d)] = Joining(d)
  <2> DEFINE S == {m \in DOMAIN Founding : Founding[m].author = d}
  <2>1. S \subseteq Nat /\ S # {} /\ S \subseteq DOMAIN Founding
    BY <1>4, <1>5
  <2>2. \A m \in S : m \in Heard[d] /\ Founding[m].author = d
    BY <1>5
  <2> HIDE DEF S
  <2>3. \E m \in S : \A k \in S : m <= k
    BY <2>1, LeastNumber
  <2>4. Min(S) \in S
    BY <2>3 DEF Min
  <2>5. Joining(d) = Min(S)
    BY DEF Joining, S
  <2>6. Joining(d) \in Heard[d] /\ Joining(d) \in DOMAIN Founding /\ Founding[Joining(d)].author = d
    BY <2>1, <2>2, <2>4, <2>5
  <2>7. DOMAIN Founding \subseteq Event
    BY <1>4, ReplicaAssumption, UnitAssumption DEF Event
  <2>8. sealed = [n \in Event |-> IF n \in DOMAIN Founding THEN Joining(Founding[n].author) ELSE NoEvent]
    BY DEF Init
  <2>9. \A n \in DOMAIN Founding : sealed[n] = Joining(Founding[n].author)
    BY <2>7, <2>8
  <2> QED BY <2>6, <2>9
<1>7. ASSUME NEW d \in Device
      PROVE  HasHeard(log, sealed, auth[d], own[d], ledger[d], ToSet(backlog[d]))
  <2> DEFINE S == ledger[d]
  <2> DEFINE s == ById(S)
  <2>1. S \in SUBSET (1 .. Len(log)) /\ S = Heard[d]
    BY <1>1, <1>2 DEF IInv, MemoryShape
  <2>2. s \in Seq(S) /\ ToSet(s) = S
    BY <1>1, <2>1, SignedIsTold, ByIdListed DEF IInv, TypedInv
  <2>3. auth[d] = AcceptAll(NoAuthority, s)
    BY <2>1 DEF Init
  <2>4. own[d] \in S /\ sealed[own[d]] = own[d]
    BY <1>2, <1>6, <2>1
  <2>5. \A n \in S : ~ BringsRevocation(log[n])
    BY <1>1, <2>1 DEF SteadyInv, QuietLog
  <2>6. S \subseteq Nat
    BY <2>1
  <2> HIDE DEF S, s
  <2> DEFINE E == Credentials(S)
  <2>7. s \in Seq(Quiet(E))
    <3>1. \A n \in S : CredentialsOf(n) \subseteq E
      BY DEF Credentials, CredentialsIn, CredentialsOf
    <3> HIDE DEF E
    <3>2. S \subseteq Quiet(E)
      BY <2>5, <2>6, <3>1 DEF Quiet
    <3> QED BY <2>2, <3>2, ListOfMore
  <2>8. IsDirect(log[own[d]]) => own[d] \in E
    BY <2>4 DEF Credentials, CredentialsIn, CredentialsAt
  <2>9. NoAuthority \in Authorities(E) /\ Sound(NoAuthority)
    BY NoAuthorityTyped DEF NoAuthority, Sound
  <2> HIDE DEF E
  <2>10. auth[d] \in Grown(NoAuthority, E) /\ Credentials(ToSet(s)) \subseteq Held(auth[d])
    BY <2>3, <2>7, <2>9, AcceptAllGrows
  <2>11. auth[d] \in Authorities(E) /\ Sound(auth[d]) /\ E \subseteq Held(auth[d])
    BY <2>2, <2>9, <2>10 DEF Grown, E
  <2>12. Held(auth[d]) \subseteq E
    BY <2>11 DEF Held, Authorities, ToSet
  <2>13. ledger[d] \ ToSet(backlog[d]) = ledger[d]
    BY <1>2, <1>3
  <2>14. CredentialsIn(log, sealed, ledger[d]) = E
    BY DEF E, S, Credentials
  <2> QED BY <2>8, <2>11, <2>12, <2>13, <2>14 DEF HasHeard, Sound, MayAccept
<1>8. HeardHolds
  BY <1>7 DEF HeardHolds
<1>9. ShownHolds
  BY <1>2 DEF ShownHolds
<1> QED BY <1>8, <1>9

\* Every step of every device leaves what was told and what is shown in accord.
LEMMA StepIsHeard ==
  ASSUME SteadyMembership, IInv, TypedInv, SteadyInv, HeardHolds, ShownHolds, [Next]_vars
  PROVE  HeardHolds' /\ ShownHolds'
<1>1. CASE UNCHANGED vars \/ \E d \in Device : \E n \in DOMAIN log : Again(d, n)
  <2>1. UNCHANGED <<log, ledger, sealed, known, outbox, draft, backlog, pulled, auth, own>>
    BY <1>1 DEF Again, vars, replicaVars, commandVars, syncVars
  <2>2. \A x \in Device : OnItsWay(x)' = OnItsWay(x)
    BY <2>1 DEF OnItsWay
  <2> QED BY <2>1, <2>2, HeardStands, ShownStands
<1>2. ASSUME NEW d \in Device,
             \/ \E type \in StockTypes, quantity \in Quantities : DraftStock(d, type, quantity)
             \/ \E subject \in Device : DraftRevocation(d, subject)
             \/ \E subject \in Device, role \in Roles : DraftRoleChange(d, subject, role)
      PROVE  HeardHolds' /\ ShownHolds'
  BY <1>2, CommandSignsStock, SigningIsHeard
<1>3. ASSUME NEW d \in Device, Commit(d) \/ StartSync(d) \/ Publish(d) \/ Pull(d) \/ Receive(d)
      PROVE  HeardHolds' /\ ShownHolds'
  BY <1>3, CommitIsHeard, HandOverIsHeard, PublishIsHeard, PullIsHeard, ReceiveIsHeard
<1>4. ASSUME NEW d \in Device,
             \/ PublishFails(d) \/ ReceiveFails(d) \/ AdoptOwnCredential(d) \/ Restart(d)
             \/ \E n \in DOMAIN log : Arrive(d, n)
      PROVE  HeardHolds' /\ ShownHolds'
  BY <1>4, HandOverIsHeard, ReceiveFailsIsHeard, AdoptIsHeard, RestartIsHeard, ArriveIsHeard
<1> QED BY <1>1, <1>2, <1>3, <1>4 DEF Next

\* A settled device was told of what its ledger holds, and shows what it holds or queues.
LEMMA SettledHeard ==
  ASSUME IInv, SteadyInv, HeardHolds, ShownHolds, NEW d \in Device, Settled(d)
  PROVE  Held(auth[d]) = Credentials(ledger[d]) /\ known[d] = ledger[d] \cup outbox[d]
<1>1. ToSet(backlog[d]) = {} /\ pulled[d] = {}
  BY DEF Settled, SteadyInv, WayHolds, ToSet
<1>2. Held(auth[d]) = Credentials(ledger[d])
  <2>1. ledger[d] \ ToSet(backlog[d]) = ledger[d]
    BY <1>1
  <2> QED BY <2>1 DEF HeardHolds, HasHeard, Credentials
<1>3. known[d] = ledger[d] \cup outbox[d]
  BY <1>1 DEF OnItsWay, ShownHolds, IInv, ShownIsKept
<1> QED BY <1>2, <1>3

\* So two settled devices with the same events have the same authorizations and the same fold.
LEMMA SteadyAgree ==
  ASSUME IInv, SteadyInv, HeardHolds, ShownHolds, OutboxIsOwn
  PROVE  DevicesConverge
<1> SUFFICES ASSUME NEW d \in Device, NEW e \in Device, Settled(d), Settled(e), known[d] = known[e]
             PROVE  projection[d] = projection[e]
  BY DEF DevicesConverge
<1>1. CASE d = e
  BY <1>1
<1>2. CASE d # e
  <2>1. /\ known[d] = ledger[d] \cup outbox[d] /\ known[e] = ledger[e] \cup outbox[e]
        /\ Held(auth[d]) = Credentials(ledger[d]) /\ Held(auth[e]) = Credentials(ledger[e])
    BY SettledHeard
  <2>2. outbox[d] \cap ledger[e] = {} /\ outbox[e] \cap ledger[d] = {} /\ outbox[d] \cap outbox[e] = {}
    BY <1>2 DEF SteadyInv, WayHolds, OutboxIsOwn
  <2>3. ledger[d] = ledger[e]
    BY <2>1, <2>2
  <2>4. Held(auth[d]) = Held(auth[e])
    BY <2>1, <2>3
  <2> DEFINE E == 1 .. Len(log)
  <2>5. /\ auth[d] \in Authorities(E) /\ Saturated(auth[d]) /\ Sound(auth[d])
        /\ auth[e] \in Authorities(E) /\ Saturated(auth[e]) /\ Sound(auth[e])
    BY DEF SteadyInv, AuthHolds, HeardHolds, HasHeard, Sound, MayAccept
  <2> HIDE DEF E
  <2>6. auth[d].creds \subseteq auth[e].creds /\ auth[e].creds \subseteq auth[d].creds
    BY <2>4, <2>5, HeldDecides
  <2>7. auth[d].creds = auth[e].creds /\ auth[d].revs = auth[e].revs
    BY <2>5, <2>6 DEF Authorities
  <2>8. projection[d] = Folded(d, known[d]) /\ projection[e] = Folded(e, known[e])
    BY SteadyIsFolded DEF ProjectionIsFold
  <2> QED BY <2>7, <2>8 DEF Folded
<1> QED BY <1>1, <1>2

\* As long as nobody is removed and no role changes, two devices at rest that know the same
\* events show the same, in whatever order they heard of the events and of the credentials
\* behind them, through failed hand-overs and folds and through restarts
\* (the convergence rule above class ArgusReplica).
THEOREM SteadyDevicesAgree ==
  SteadyMembership => (Spec => [](DevicesConverge /\ SameEventsSameProjection))
<1> SUFFICES ASSUME SteadyMembership PROVE Spec => [](DevicesConverge /\ SameEventsSameProjection)
  OBVIOUS
<1>1. Init => TypedInv /\ OutboxIsOwn /\ SteadyInv /\ HeardHolds /\ ShownHolds
  BY InitTyped, InitRefines, InitIsSteady, InitIsHeard
<1>2. IInv /\ TypedInv /\ OutboxIsOwn /\ SteadyInv /\ HeardHolds /\ ShownHolds /\ [Next]_vars
        => TypedInv' /\ OutboxIsOwn' /\ SteadyInv' /\ HeardHolds' /\ ShownHolds'
  BY StepTyped, OutboxStaysOwn, StepStaysSteady, StepIsHeard
<1>3. IInv /\ SteadyInv /\ HeardHolds /\ ShownHolds /\ OutboxIsOwn
        => DevicesConverge /\ SameEventsSameProjection
  BY SteadyAgree DEF SameEventsSameProjection
<1> QED BY <1>1, <1>2, <1>3, ReplicaInvariant, PTL DEF Spec
=============================================================================
