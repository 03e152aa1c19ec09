----------------------- MODULE CadetPublisherProofs -----------------------
(* Proofs about the cadet publisher, for any number of devices, cadets and changes.

   RecordInv is the invariant of what is published. It says, beside the shape of the
   variables: a transaction is one device's, and the network has each number once
   (OneOwner); a record that is in hand, waits or is listed shows what its device knew
   (Truthful, ChainTruthful); what a run has just read shows at least what waits
   (ReadIsNewer), and everything the device noted about the cadet, unless the generation
   moved on (Fresh); for each record of a group the transaction the group looks for has
   that record or one that shows the same (GroupsSound). Kept, the property itself, is
   inductive only with these: a cadet is let go for a transaction that was found by the
   correlation of its record. Equal correlations give equal versions, and of two views
   one within the other these show the same; that they are for the same channel does not
   follow, which is why the set of mistaken records is in the property.

   PublisherInv adds the notices: a transaction carries views or one notice
   (OneNoticeEach), a notice that is out of the queue is on the chain for everyone it is
   for (SentInv), and of the transactions that wait, that a run is about to look for and
   that were reported one carries it to an address (NoticeInv, ReportedOnce), which is
   where grouping by correlation is needed. *)
EXTENDS CadetPublisher, FiniteSetTheorems, SequenceTheorems, WellFoundedInduction, TLAPS

-----------------------------------------------------------------------------
(* Shapes. *)

Address == Cadet \X Nat
Record == [kind : {"view", "notice"}, cadet : Cadet, address : Address, content : SUBSET Nat]
Tx == [id : Nat, records : SUBSET Record]
Group == [tx : Nat, items : SUBSET Record]
Change == [kind : {"CHANGED", "CLEARED", "ROTATED", "NOTICE"}, cadet : Cadet \cup {Everyone},
           by : Staff, sees : SUBSET Nat]
Stages == {"idle", "read", "publish", "settle", "notices"}

\* A change that is no notice is about one cadet.
ChangesOK ==
  /\ changes \in Seq(Change)
  /\ \A n \in DOMAIN changes : changes[n].kind # "NOTICE" => changes[n].cadet \in Cadet

Run == [stage : Stages, started : UNION {[S -> Nat] : S \in SUBSET Cadet}, todo : SUBSET (Cadet \cup Nat),
        items : SUBSET Record, toFinish : SUBSET Group, toBuild : SUBSET Record,
        group : Group, notice : Nat, failing : BOOLEAN]

Shape ==
  /\ plan \in [Staff -> SUBSET Work]
  /\ ChangesOK
  /\ known \in [Staff -> SUBSET Nat] /\ noting \in [Staff -> SUBSET Nat] /\ noted \in [Staff -> SUBSET Nat]
  /\ queue \in [Staff -> SUBSET Cadet] /\ noticeQueue \in [Staff -> SUBSET Nat]
  /\ delivered \in [Staff -> SUBSET (Nat \X Address)]
  /\ wallet \in [Staff -> SUBSET Tx] /\ accepted \subseteq Nat /\ reported \subseteq Nat /\ built \in Nat
  /\ generation \in [Staff -> [Cadet -> Nat]] /\ timer \in [Staff -> BOOLEAN] /\ due \in [Staff -> BOOLEAN]
  /\ drain \in [Staff -> Run]
  /\ chain \in Seq(Tx) /\ refused \subseteq Record /\ mistaken \subseteq Record

\* The groups of the run that did not end yet, and the transactions a device may look for.
Open(d) == drain[d].toFinish \cup ({drain[d].group} \ {NoGroup})
Ids(d) == {tx.id : tx \in wallet[d]} \cup {g.tx : g \in Open(d)}

\* A transaction is one device's, and what was accepted is listed and waits no more.
OneOwner ==
  /\ \A d \in Staff : Ids(d) \subseteq 1 .. built
  /\ \A d, e \in Staff : d # e => Ids(d) \cap Ids(e) = {}
  /\ \A tx \in Listed : tx.id \in 1 .. built
  /\ accepted \subseteq {tx.id : tx \in Listed} /\ reported \subseteq accepted
  /\ \A d \in Staff : \A tx \in wallet[d] :
       /\ tx.id \notin accepted
       /\ \A u \in wallet[d] \cup Listed : u.id = tx.id => u = tx

-----------------------------------------------------------------------------
(* What holds of one device. *)

OwnChanges(d) ==
  /\ known[d] \subseteq DOMAIN changes /\ noted[d] \subseteq known[d] /\ noting[d] \subseteq known[d] \ noted[d]
  /\ \A n \in noted[d] \cup noting[d] : changes[n].by = d /\ changes[n].sees \subseteq known[d]
  /\ noticeQueue[d] \subseteq {n \in noted[d] : changes[n].kind = "NOTICE"}

\* Which parts of a run are there at which stage.
RunOrder(d) ==
  LET run == drain[d] IN
  /\ run.stage = "idle" => run = Idle
  /\ run.items # {} => run.stage = "read"
  /\ run.stage \in {"idle", "read", "notices"} => run.toFinish = {} /\ run.toBuild = {} /\ run.notice = 0
  /\ run.stage = "settle" <=> run.group # NoGroup
  /\ run.stage = "read" => run.todo \subseteq DOMAIN run.started
  /\ run.stage = "notices" => run.todo \subseteq noticeQueue[d]
  /\ run.notice # 0 => run.notice \in noticeQueue[d] /\ run.todo \subseteq noticeQueue[d] \ {run.notice}
  /\ \A g \in Open(d) : g.items # {}

Sealed(d) == drain[d].toBuild \cup UNION {g.items : g \in Open(d)}
InHand(d) == drain[d].items \cup Sealed(d)

\* A run has views in hand, or one notice.
OneKind(d) ==
  \A r \in InHand(d) :
    IF drain[d].notice = 0 THEN r.kind = "view" ELSE r.kind = "notice" /\ r.content = {drain[d].notice}

Turns(d, c) == Cardinality(Rotations(viewFor(d, c)))

\* A record of this device shows what the device knew, and is for the channel as it knew it.
ViewOf(d, r) ==
  /\ r.kind = "view"
  /\ r.content \subseteq viewFor(d, r.cadet) /\ r.address = <<r.cadet, Cardinality(Rotations(r.content))>>
NoticeOf(d, r) ==
  /\ r.kind = "notice"
  /\ \E n \in noted[d] :
       /\ changes[n].kind = "NOTICE" /\ r.content = {n} /\ r.cadet \in AudienceOf(n)
       /\ r.address[1] = r.cadet /\ r.address[2] <= Turns(d, r.cadet)
From(d, r) == ViewOf(d, r) \/ NoticeOf(d, r)

Truthful(d) ==
  /\ \A r \in InHand(d) : From(d, r)
  /\ \A tx \in wallet[d] : \A r \in tx.records : From(d, r)

\* What is read shows at least what waits.
ReadIsNewer(d) ==
  \A r \in drain[d].items : \A tx \in wallet[d] : \A s \in tx.records :
    s.kind = "view" /\ s.cadet = r.cadet => s.content \subseteq r.content

\* What the device noted about a cadet, and what it knew when it made those changes.
Grasp(d, c) == About(noted[d] \cup UNION {changes[n].sees : n \in NotedAbout(d, c)}, c)

\* A record in hand shows all of that, unless more was noted since the run began.
Fresh(d) ==
  /\ \A c \in DOMAIN drain[d].started : drain[d].started[c] <= generation[d][c]
  /\ \A r \in InHand(d) : r.kind = "view" =>
       /\ r.cadet \in DOMAIN drain[d].started
       /\ generation[d][r.cadet] = drain[d].started[r.cadet] => Grasp(d, r.cadet) \subseteq r.content

\* A record that shows the same as r; a notice's goes to the same address, too.
Alike(s, r) ==
  /\ s.kind = r.kind
  /\ IF r.kind = "view" THEN s.cadet = r.cadet /\ Shows(s) = Shows(r) ELSE s = r

\* A group's transaction has the group's records, or others that show the same.
Within(items, tx) == \A r \in items : \E s \in tx.records : Alike(s, r)
GroupsSound(d) ==
  \A g \in Open(d) : \A tx \in wallet[d] \cup Listed : tx.id = g.tx => Within(g.items, tx)

\* The network has a record that stands for one with all that the device knew.
Held(d, c) == \E r \in OnChain : \E m \in mistaken \cup {r} : StandsFor(r, m) /\ Grasp(d, c) \subseteq m.content
Kept(d) ==
  \A c \in Cadet : NotedAbout(d, c) # {} => c \in queue[d] \/ Held(d, c) \/ \E r \in refused : r.cadet = c

-----------------------------------------------------------------------------
(* Notices. *)

IsCopy(r, n, a) == r.kind = "notice" /\ n \in r.content /\ r.address = a
Carries(tx, n, a) == \E r \in tx.records : IsCopy(r, n, a)

DeliveredTrue(d) ==
  \A x \in delivered[d] : \E r \in OnChain : r.kind = "notice" /\ r.cadet = x[2][1] /\ x[1] \in r.content

\* Where the notice of the run has been, or is on its way to.
OnItsWay(d, n, a) == <<n, a>> \in delivered[d] \/ Notice(n, a) \in Sealed(d)
AllOnTheirWay(d) ==
  LET n == drain[d].notice IN
  n # 0 /\ ~drain[d].failing => \A c \in AudienceOf(n) : \E a \in Address : a[1] = c /\ OnItsWay(d, n, a)

SentByNow(d) ==
  \A n \in noted[d] : changes[n].kind = "NOTICE" /\ n \notin noticeQueue[d] =>
    \A c \in AudienceOf(n) : \E r \in OnChain : r.kind = "notice" /\ r.cadet = c /\ n \in r.content

\* No run sends the notice there (again).
Over(d, n, a) == <<n, a>> \in delivered[d] \/ a[2] < Turns(d, a[1])
Closed(d, n, a) == n \notin noticeQueue[d] \/ Over(d, n, a)

Reported == {tx \in Listed : tx.id \in reported}
InPlay(d) == wallet[d] \cup {tx \in Listed : \E g \in Open(d) : g.tx = tx.id}

OneNotice(tx) == \A r, s \in tx.records : r.kind = s.kind /\ (r.kind = "notice" => r.content = s.content)

ReportedIsClosed(d) ==
  \A tx \in Reported : \A n \in noted[d], a \in Address : Carries(tx, n, a) => Closed(d, n, a)
CarriedOnce(d) ==
  \A tx \in InPlay(d), n \in noted[d], a \in Address : Carries(tx, n, a) =>
    \A u \in InPlay(d) \cup Reported : u.id # tx.id => ~Carries(u, n, a)
BuiltOnce(d) ==
  \A r \in drain[d].toBuild : r.kind = "notice" =>
    \A n \in r.content : \A u \in InPlay(d) \cup Reported : ~Carries(u, n, r.address)
GroupCovers(d) ==
  \A g \in Open(d) : \A tx \in InPlay(d) : tx.id = g.tx =>
    \A n \in noted[d], a \in Address :
      Carries(tx, n, a) => (\E r \in g.items : IsCopy(r, n, a)) \/ Over(d, n, a)
OneNoticeEach ==
  /\ \A tx \in Listed : OneNotice(tx)
  /\ \A d \in Staff : \A tx \in wallet[d] : OneNotice(tx)

\* What the network has, or was taken to have, was some device's.
ChainTruthful == \A r \in OnChain \cup mistaken : \E d \in Staff : From(d, r)

-----------------------------------------------------------------------------
(* Small sets of numbers. *)

\* A nonempty set of numbers has a least one.
LEMMA LeastExists ==
  ASSUME NEW S, S \subseteq Nat, S # {}
  PROVE  \E m \in S : \A k \in S : m <= k
<1> DEFINE R == OpToRel(<, Nat)
<1>1. IsWellFoundedOn(R, Nat)
  BY NatLessThanWellFounded, Zenon
<1>2. \A x, y \in Nat : y < x => <<y, x>> \in R
  BY DEF OpToRel
<1> HIDE DEF R
<1>3. PICK m \in S : \A k \in S : ~ (<<k, m>> \in R)
  BY <1>1, WFMin
<1>4. \A k \in S : k \in Nat /\ m \in Nat /\ ~ (k < m)
  BY <1>2, <1>3
<1> QED BY <1>4

\* One with a bound has a greatest one.
LEMMA GreatestExists ==
  ASSUME NEW N \in Nat, NEW S, S \subseteq 1 .. N, S # {}
  PROVE  \E m \in S : \A k \in S : k <= m
<1> DEFINE T == {N - k : k \in S}
<1>1. T \subseteq Nat
  <2>1. ASSUME NEW k \in S PROVE N - k \in Nat
    BY <2>1
  <2> QED BY <2>1
<1> T # {}
  OBVIOUS
<1>2. PICK m \in T : \A k \in T : m <= k
  BY <1>1, LeastExists
<1>3. PICK k \in S : m = N - k
  BY <1>2
<1>4. \A j \in S : j \in Nat /\ N - j \in T
  OBVIOUS
<1>5. \A j \in S : k \in Nat /\ N - k <= N - j
  BY <1>2, <1>3, <1>4
<1>6. \A j \in S : j <= k
  BY <1>4, <1>5
<1> QED BY <1>6

\* Of two sets of places, one within the other, the smaller counts less, unless it is the same.
LEMMA CountWithin ==
  ASSUME NEW N \in Nat, NEW T, NEW S, T \subseteq 1 .. N, S \subseteq T
  PROVE  /\ Cardinality(S) \in Nat /\ Cardinality(T) \in Nat /\ Cardinality(S) <= Cardinality(T)
         /\ Cardinality(S) = Cardinality(T) => S = T
<1>1. IsFiniteSet(1 .. N)
  BY FS_Interval
<1>2. IsFiniteSet(T)
  BY <1>1, FS_Subset
<1>3. IsFiniteSet(S) /\ Cardinality(S) <= Cardinality(T) /\ (Cardinality(S) = Cardinality(T) => S = T)
  BY <1>2, FS_Subset
<1> QED BY <1>2, <1>3, FS_CardinalityType

-----------------------------------------------------------------------------
(* What the steps do to the types. *)

\* A transaction that lands is listed last, once.
LEMMA Landed ==
  ASSUME chain \in Seq(Tx), NEW tx \in Tx, Land(tx)
  PROVE  chain' \in Seq(Tx) /\ Listed' = Listed \cup {tx}
<1>1. CASE tx \in Listed
  BY <1>1 DEF Land, Listed
<1>2. CASE tx \notin Listed
  <2>1. chain' = Append(chain, tx)
    BY <1>2 DEF Land
  <2>2. chain' \in Seq(Tx) /\ DOMAIN chain = 1 .. Len(chain) /\ DOMAIN chain' = 1 .. Len(chain) + 1 /\ Len(chain) \in Nat
    BY <2>1
  <2>3. \A k \in DOMAIN chain : chain'[k] = chain[k]
    BY <2>1
  <2>4. chain'[Len(chain) + 1] = tx
    BY <2>1
  <2> QED BY <2>2, <2>3, <2>4 DEF Listed
<1> QED BY <1>1, <1>2

\* What becomes of a transaction that is offered.
Offered(d, tx) ==
  /\ chain' \in Seq(Tx) /\ Listed \subseteq Listed' /\ Listed' \subseteq Listed \cup {tx}
  /\ wallet' \in [Staff -> SUBSET Tx] /\ wallet'[d] \subseteq wallet[d]
  /\ \A e \in Staff \ {d} : wallet'[e] = wallet[e]
  /\ \/ accepted' = accepted
     \/ accepted' = accepted \cup {tx.id} /\ tx \in Listed' /\ wallet'[d] = wallet[d] \ {tx}

\* A transaction that offerPending gives to the network is one that was not taken yet.
LEMMA OfferedWhenOffer ==
  ASSUME Shape, NEW d \in Staff, NEW tx \in wallet[d], Offer(d, tx)
  PROVE  Offered(d, tx)
<1>1. chain \in Seq(Tx) /\ wallet \in [Staff -> SUBSET Tx] /\ tx \in Tx
  BY DEF Shape
<1>2. Land(tx) => chain' \in Seq(Tx) /\ Listed' = Listed \cup {tx}
  BY <1>1, Landed
<1>3. chain' = chain => Listed' = Listed
  BY DEF Listed
<1> QED BY <1>1, <1>2, <1>3 DEF Offer, Offered

\* The oldest transaction that carries a record, and the groups of a run.
LEMMA TxOfExists ==
  ASSUME Shape, NEW d \in Staff, NEW r, Carriers(d, r) # {}
  PROVE  \E tx \in Carriers(d, r) : TxOf(d, r) = tx.id
<1> DEFINE Oldest(tx) == \A other \in Carriers(d, r) : tx.id <= other.id
           S == {tx.id : tx \in Carriers(d, r)}
<1>1. Carriers(d, r) \subseteq Tx
  BY DEF Shape, Carriers
<1>2. S \subseteq Nat /\ S # {}
  BY <1>1 DEF Tx
<1>3. PICK m \in S : \A k \in S : m <= k
  BY <1>2, LeastExists
<1>4. \E tx \in Carriers(d, r) : Oldest(tx)
  BY <1>3
<1> QED BY <1>4 DEF TxOf

\* seal() groups the records that a waiting or listed transaction already carries by that
\* transaction: every such record is in a group, and no group is empty.
LEMMA GroupsAreGroups ==
  ASSUME Shape, NEW d \in Staff, NEW items \in SUBSET Record
  PROVE  /\ Groups(d, items) \subseteq Group /\ Built(d, items) \subseteq items
         /\ \A g \in Groups(d, items) :
              /\ g.items # {} /\ g.items \subseteq Built(d, items)
              /\ \A r \in g.items : \E tx \in Carriers(d, r) : g.tx = tx.id
         /\ \A r \in Built(d, items) : \E g \in Groups(d, items) : r \in g.items
<1>1. Built(d, items) \subseteq items
  BY DEF Built
<1>2. ASSUME NEW r \in Built(d, items)
      PROVE  /\ TxOf(d, r) \in Nat
             /\ \E tx \in Carriers(d, r) : TxOf(d, r) = tx.id
  <2>1. Carriers(d, r) # {}
    BY <1>2 DEF Built
  <2>2. \E tx \in Carriers(d, r) : TxOf(d, r) = tx.id
    BY <2>1, TxOfExists
  <2>3. Carriers(d, r) \subseteq Tx
    BY DEF Shape, Carriers
  <2> QED BY <2>2, <2>3 DEF Tx
<1>3. ASSUME NEW g \in Groups(d, items)
      PROVE  \E r \in Built(d, items) : g = [tx |-> TxOf(d, r), items |-> {s \in Built(d, items) : TxOf(d, s) = TxOf(d, r)}]
  BY DEF Groups
<1>4. Groups(d, items) \subseteq Group
  <2>1. ASSUME NEW g \in Groups(d, items) PROVE g \in Group
    <3>1. PICK r \in Built(d, items) : g = [tx |-> TxOf(d, r), items |-> {s \in Built(d, items) : TxOf(d, s) = TxOf(d, r)}]
      BY <1>3
    <3> QED BY <3>1, <1>1, <1>2 DEF Group
  <2> QED BY <2>1
<1>5. ASSUME NEW g \in Groups(d, items)
      PROVE  /\ g.items # {} /\ g.items \subseteq Built(d, items)
             /\ \A r \in g.items : \E tx \in Carriers(d, r) : g.tx = tx.id
  <2>1. PICK r \in Built(d, items) : g = [tx |-> TxOf(d, r), items |-> {s \in Built(d, items) : TxOf(d, s) = TxOf(d, r)}]
    BY <1>3
  <2>2. r \in g.items /\ \A s \in g.items : s \in Built(d, items) /\ g.tx = TxOf(d, s)
    BY <2>1
  <2> QED BY <2>2, <1>2
<1>6. ASSUME NEW r \in Built(d, items)
      PROVE  \E g \in Groups(d, items) : r \in g.items
  <2> DEFINE own == {s \in Built(d, items) : TxOf(d, s) = TxOf(d, r)}
  <2>1. r \in own /\ [tx |-> TxOf(d, r), items |-> own] \in Groups(d, items)
    BY DEF Groups
  <2> HIDE DEF own
  <2> QED BY <2>1
<1> QED BY <1>1, <1>4, <1>5, <1>6

\* A cadet's view, and the channel it is for, are of the right shape.
LEMMA ViewIsRecord ==
  ASSUME Shape, NEW d \in Staff, OwnChanges(d), NEW c \in Cadet
  PROVE  View(d, c) \in Record /\ channelFor(d, c) \in Address
<1>1. known[d] \subseteq 1 .. Len(changes) /\ Len(changes) \in Nat
  BY DEF Shape, ChangesOK, OwnChanges
<1>2. Rotations(viewFor(d, c)) \subseteq 1 .. Len(changes) /\ viewFor(d, c) \subseteq Nat
  BY <1>1 DEF Rotations, viewFor, About
<1>3. Cardinality(Rotations(viewFor(d, c))) \in Nat
  BY <1>1, <1>2, CountWithin
<1>4. channelFor(d, c) \in Address
  BY <1>3 DEF channelFor, Address
<1> QED BY <1>2, <1>4 DEF View, Record

\* A notice for a channel is a record.
LEMMA NoticeIsRecord ==
  ASSUME NEW n \in Nat, NEW a \in Address
  PROVE  Notice(n, a) \in Record
BY DEF Notice, Record, Address

\* What a queued notice is sent as.
LEMMA LeftAreRecords ==
  ASSUME Shape, NEW d \in Staff, OwnChanges(d), NEW n \in noticeQueue[d]
  PROVE  /\ n \in DOMAIN changes /\ n \in Nat /\ AudienceOf(n) \subseteq Cadet
         /\ Left(d, n) \subseteq Address /\ {Notice(n, a) : a \in Left(d, n)} \in SUBSET Record
<1>1. n \in DOMAIN changes /\ n \in Nat
  BY DEF OwnChanges, Shape, ChangesOK
<1>2. changes[n] \in Change
  BY <1>1 DEF Shape, ChangesOK
<1>3. changes[n].cadet \in Cadet \cup {Everyone}
  BY <1>2 DEF Change
<1>4. AudienceOf(n) \subseteq Cadet
  BY <1>3 DEF AudienceOf
<1>5. Left(d, n) \subseteq Address
  BY <1>4, ViewIsRecord DEF Left, noticeFor
<1> QED BY <1>1, <1>4, <1>5, NoticeIsRecord

-----------------------------------------------------------------------------
(* Every step keeps the types. *)

\* The publisher that does nothing has no group.
LEMMA IdleIsRun == Idle \in Run /\ NoGroup \in Group /\ Idle.group = NoGroup
<1>1. [c \in {} |-> 0] \in [{} -> Nat] /\ {} \in SUBSET Cadet
  OBVIOUS
<1>2. [c \in {} |-> 0] \in UNION {[S -> Nat] : S \in SUBSET Cadet}
  BY <1>1
<1> QED BY <1>2 DEF Idle, NoGroup, Run, Group, Stages

\* The variables start in their ranges.
LEMMA ShapeAtFirst == Init => Shape
<1> SUFFICES ASSUME Init PROVE Shape
  OBVIOUS
<1>1. plan \in [Staff -> SUBSET Work]
  BY PublisherAssumption DEF Init
<1>2. ChangesOK /\ chain \in Seq(Tx)
  BY DEF Init, ChangesOK
<1>3. drain \in [Staff -> Run]
  BY IdleIsRun DEF Init
<1>4. /\ known \in [Staff -> SUBSET Nat] /\ noting \in [Staff -> SUBSET Nat] /\ noted \in [Staff -> SUBSET Nat]
      /\ queue \in [Staff -> SUBSET Cadet] /\ noticeQueue \in [Staff -> SUBSET Nat]
      /\ delivered \in [Staff -> SUBSET (Nat \X Address)] /\ wallet \in [Staff -> SUBSET Tx]
  BY DEF Init
<1>5. generation \in [Staff -> [Cadet -> Nat]] /\ timer \in [Staff -> BOOLEAN] /\ due \in [Staff -> BOOLEAN]
  BY DEF Init
<1>6. accepted \subseteq Nat /\ reported \subseteq Nat /\ built \in Nat /\ refused \subseteq Record /\ mistaken \subseteq Record
  BY DEF Init
<1> QED BY <1>1, <1>2, <1>3, <1>4, <1>5, <1>6 DEF Shape

\* A run that goes on is a run.
LEMMA RunGoesOn ==
  ASSUME Shape, NEW d \in Staff, NEW run \in Run, drain' = [drain EXCEPT ![d] = run]
  PROVE  drain' \in [Staff -> Run] /\ drain'[d] = run /\ \A e \in Staff \ {d} : drain'[e] = drain[e]
BY DEF Shape

Step(d) ==
  \/ Commit(d) \/ PublishAll(d)
  \/ \E n \in DOMAIN changes : Learn(d, n) \/ NoteEvent(d, n)
  \/ Elapse(d) \/ DrainStep(d) \/ BuildFails(d) \/ OtherFlush(d)
  \/ Restart(d)

\* No step of a device takes a variable out of its range.
LEMMA ShapeKept ==
  ASSUME Shape, NEW d \in Staff, OwnChanges(d), RunOrder(d), Truthful(d),
         Step(d)
  PROVE  Shape'
<1> USE DEF storage, funds, memory
<1>run. drain[d] \in Run /\ drain \in [Staff -> Run]
  BY DEF Shape
<1>1. CASE Commit(d)
  <2>1. PICK what \in plan[d] \ (DoneBy(d) \cup {ToAll}) :
          changes' = Append(changes, [kind |-> what.kind, cadet |-> what.cadet, by |-> d, sees |-> known[d]])
    BY <1>1 DEF Commit
  <2> DEFINE new == [kind |-> what.kind, cadet |-> what.cadet, by |-> d, sees |-> known[d]]
  <2>2. /\ what \in [kind : {"CHANGED", "CLEARED", "ROTATED"}, cadet : Cadet]
                    \cup [kind : {"NOTICE"}, cadet : Cadet \cup {Everyone}]
        /\ known[d] \in SUBSET Nat
    BY <2>1 DEF Shape, Work
  <2>3. new \in Change /\ (new.kind # "NOTICE" => new.cadet \in Cadet)
    BY <2>2 DEF Change
  <2> HIDE DEF new
  <2>4. changes' = Append(changes, new)
    BY <2>1 DEF new
  <2>5. changes \in Seq(Change)
    BY DEF Shape, ChangesOK
  <2>6. /\ changes' \in Seq(Change) /\ Len(changes') = Len(changes) + 1 /\ Len(changes) \in Nat
        /\ DOMAIN changes' = 1 .. Len(changes) + 1 /\ DOMAIN changes = 1 .. Len(changes)
        /\ changes'[Len(changes) + 1] = new /\ \A n \in DOMAIN changes : changes'[n] = changes[n]
    BY <2>3, <2>4, <2>5
  <2>7. ChangesOK'
    <3>1. \A n \in DOMAIN changes : changes[n].kind # "NOTICE" => changes[n].cadet \in Cadet
      BY DEF Shape, ChangesOK
    <3>2. ASSUME NEW n \in DOMAIN changes', changes'[n].kind # "NOTICE" PROVE changes'[n].cadet \in Cadet
      <4>1. CASE n = Len(changes) + 1
        BY <2>3, <2>6, <3>2, <4>1
      <4>2. CASE n # Len(changes) + 1
        <5>1. n \in DOMAIN changes /\ changes'[n] = changes[n]
          BY <2>6, <4>2
        <5> QED BY <5>1, <3>1, <3>2
      <4> QED BY <4>1, <4>2
    <3> QED BY <2>6, <3>2 DEF ChangesOK
  <2>8. known' \in [Staff -> SUBSET Nat] /\ noting' \in [Staff -> SUBSET Nat]
    BY <1>1, <2>6 DEF Commit, Shape
  <2> QED BY <1>1, <2>7, <2>8 DEF Commit, Shape
<1>2. CASE PublishAll(d)
  <2>1. generation' \in [Staff -> [Cadet -> Nat]]
    BY <1>2 DEF PublishAll, Shape
  <2>2. queue' \in [Staff -> SUBSET Cadet] /\ due' \in [Staff -> BOOLEAN]
    BY <1>2 DEF PublishAll, Shape
  <2> QED BY <1>2, <2>1, <2>2 DEF PublishAll, Shape, ChangesOK
<1>3. CASE \E n \in DOMAIN changes : Learn(d, n)
  BY <1>3 DEF Learn, Shape, ChangesOK
<1>4. CASE \E n \in DOMAIN changes : NoteEvent(d, n)
  <2>1. PICK n \in DOMAIN changes : NoteEvent(d, n)
    BY <1>4
  <2>2. n \in Nat /\ (changes[n].kind # "NOTICE" => changes[n].cadet \in Cadet)
    BY DEF Shape, ChangesOK
  <2>3. noting' \in [Staff -> SUBSET Nat] /\ noted' \in [Staff -> SUBSET Nat]
    BY <2>1, <2>2 DEF NoteEvent, Shape
  <2>4. CASE changes[n].kind = "NOTICE"
    <3>1. /\ noticeQueue' = [noticeQueue EXCEPT ![d] = @ \cup {n}] /\ due' = [due EXCEPT ![d] = TRUE]
          /\ UNCHANGED <<queue, generation, timer>>
      BY <2>1, <2>4 DEF NoteEvent
    <3>2. noticeQueue' \in [Staff -> SUBSET Nat] /\ due' \in [Staff -> BOOLEAN]
      BY <2>2, <3>1 DEF Shape
    <3> QED BY <2>1, <2>3, <3>1, <3>2 DEF NoteEvent, Shape, ChangesOK
  <2>5. CASE changes[n].kind # "NOTICE"
    <3> DEFINE c == changes[n].cadet
    <3>1. /\ generation' = [generation EXCEPT ![d] = [generation[d] EXCEPT ![c] = generation[d][c] + 1]]
          /\ queue' = [queue EXCEPT ![d] = @ \cup {c}] /\ timer' = [timer EXCEPT ![d] = TRUE]
          /\ UNCHANGED <<noticeQueue, due>>
      BY <2>1, <2>5, Zenon DEF NoteEvent
    <3>2. c \in Cadet
      BY <2>2, <2>5
    <3> HIDE DEF c
    <3>3. generation \in [Staff -> [Cadet -> Nat]] /\ queue \in [Staff -> SUBSET Cadet] /\ timer \in [Staff -> BOOLEAN]
      BY DEF Shape
    <3>4. generation' \in [Staff -> [Cadet -> Nat]]
      BY <3>1, <3>2, <3>3
    <3>5. queue' \in [Staff -> SUBSET Cadet] /\ timer' \in [Staff -> BOOLEAN]
      BY <3>1, <3>2, <3>3
    <3> QED BY <2>1, <2>3, <3>1, <3>4, <3>5 DEF NoteEvent, Shape, ChangesOK
  <2> QED BY <2>4, <2>5
<1>5. CASE Elapse(d)
  BY <1>5 DEF Elapse, Shape, ChangesOK
<1>6. CASE StartDrain(d)
  <2> DEFINE run == [Idle EXCEPT !.stage = "read", !.todo = queue[d], !.started = [c \in queue[d] |-> generation[d][c]]]
  <2>1. [c \in queue[d] |-> generation[d][c]] \in UNION {[S -> Nat] : S \in SUBSET Cadet}
    <3>1. queue[d] \in SUBSET Cadet /\ [c \in queue[d] |-> generation[d][c]] \in [queue[d] -> Nat]
      BY DEF Shape
    <3> QED BY <3>1
  <2>2. run \in Run
    <3>1. queue[d] \in SUBSET Cadet
      BY DEF Shape
    <3> QED BY <2>1, <3>1, IdleIsRun DEF Run, Stages
  <2>3. drain' = [drain EXCEPT ![d] = run]
    BY <1>6 DEF StartDrain
  <2> HIDE DEF run
  <2>4. drain' \in [Staff -> Run]
    BY <2>2, <2>3, RunGoesOn
  <2>5. timer' \in [Staff -> BOOLEAN] /\ due' \in [Staff -> BOOLEAN]
    BY <1>6 DEF StartDrain, Shape
  <2> QED BY <1>6, <2>4, <2>5 DEF StartDrain, Shape, ChangesOK
<1>7. CASE Read(d)
  <2>1. PICK c \in drain[d].todo :
          drain' = [drain EXCEPT ![d].todo = @ \ {c}, ![d].items = @ \cup {View(d, c)}]
    BY <1>7 DEF Read
  <2>2. c \in Cadet
    BY <1>7, <1>run, <2>1 DEF Read, RunOrder, Run
  <2>3. View(d, c) \in Record
    BY <2>2, ViewIsRecord
  <2>4. drain' \in [Staff -> Run]
    BY <1>run, <2>1, <2>3 DEF Run
  <2> QED BY <1>7, <2>4 DEF Read, Shape, ChangesOK
<1>8. CASE Seal(d)
  <2> DEFINE large == {r \in drain[d].items : IsTooLarge(r)}
             sealed == drain[d].items \ large
  <2>1. sealed \in SUBSET Record /\ large \in SUBSET Record
    BY <1>run DEF Run
  <2>2. drain' = [drain EXCEPT ![d].stage = "publish", ![d].items = {},
                    ![d].toFinish = Groups(d, sealed), ![d].toBuild = sealed \ Built(d, sealed)]
        /\ queue' = [queue EXCEPT ![d] = @ \ {r.cadet : r \in large}] /\ refused' = refused \cup large
    BY <1>8 DEF Seal
  <2> HIDE DEF large, sealed
  <2>3. Groups(d, sealed) \subseteq Group
    BY <2>1, GroupsAreGroups
  <2>4. drain' \in [Staff -> Run]
    BY <1>run, <2>1, <2>2, <2>3 DEF Run, Stages
  <2>5. queue' \in [Staff -> SUBSET Cadet] /\ refused' \subseteq Record
    BY <2>1, <2>2 DEF Shape
  <2> QED BY <1>8, <2>4, <2>5 DEF Seal, Shape, ChangesOK
<1>9. CASE Build(d)
  <2>1. PICK batch \in Batches(drain[d].toBuild) :
          /\ wallet' = [wallet EXCEPT ![d] = @ \cup {[id |-> built', records |-> batch]}]
          /\ drain' = [drain EXCEPT ![d].toBuild = @ \ batch, ![d].toFinish = {[tx |-> built', items |-> batch]}]
    BY <1>9 DEF Build
  <2>2. built' \in Nat /\ batch \in SUBSET Record
    BY <1>9, <1>run, <2>1 DEF Build, Shape, Batches, Run
  <2>3. [id |-> built', records |-> batch] \in Tx /\ [tx |-> built', items |-> batch] \in Group
    BY <2>2 DEF Tx, Group
  <2>4. wallet' \in [Staff -> SUBSET Tx]
    BY <2>1, <2>3 DEF Shape
  <2>5. drain' \in [Staff -> Run]
    BY <1>run, <2>1, <2>3 DEF Run
  <2> QED BY <1>9, <2>2, <2>4, <2>5 DEF Build, Shape, ChangesOK
<1>10. CASE BuildFails(d)
  <2>1. PICK batch \in Batches(drain[d].toBuild) :
          /\ Settle(d, batch, FALSE)
          /\ drain' = [drain EXCEPT ![d].toBuild = @ \ batch, ![d].failing = TRUE]
    BY <1>10 DEF BuildFails
  <2>2. drain' \in [Staff -> Run]
    BY <1>run, <2>1 DEF Run
  <2>3. queue' \in [Staff -> SUBSET Cadet]
    BY <2>1 DEF Settle, Shape
  <2>4. delivered' \in [Staff -> SUBSET (Nat \X Address)]
    BY <2>1 DEF Settle, Shape
  <2> QED BY <1>10, <2>2, <2>3, <2>4 DEF BuildFails, Shape, ChangesOK
<1>11. CASE Flush(d)
  <2>1. PICK group \in drain[d].toFinish :
          /\ drain' = [drain EXCEPT ![d].stage = "settle", ![d].group = group, ![d].toFinish = @ \ {group}]
          /\ LET mine == {tx \in wallet[d] : tx.id = group.tx} IN
             IF mine = {} THEN UNCHANGED <<wallet, accepted, chain, trouble>> ELSE \E tx \in mine : Offer(d, tx)
    BY <1>11 DEF Flush
  <2>2. drain' \in [Staff -> Run]
    BY <1>run, <2>1 DEF Run, Stages
  <2>3. UNCHANGED <<wallet, accepted, chain>> \/ \E tx \in wallet[d] : Offer(d, tx)
    BY <2>1
  <2>4. UNCHANGED <<wallet, accepted, chain>> \/ \E tx \in wallet[d] : Offered(d, tx)
    BY <2>3, OfferedWhenOffer
  <2>tx. \A tx \in wallet[d] : tx.id \in Nat
    BY DEF Shape, Tx
  <2>5. wallet' \in [Staff -> SUBSET Tx] /\ chain' \in Seq(Tx)
    BY <2>4 DEF Offered, Shape
  <2>6. accepted' \subseteq Nat
    <3>1. CASE UNCHANGED accepted
      BY <3>1 DEF Shape
    <3>2. CASE \E tx \in wallet[d] : accepted' = accepted \cup {tx.id}
      BY <2>tx, <3>2 DEF Shape
    <3> QED BY <2>4, <3>1, <3>2 DEF Offered
  <2> QED BY <1>11, <2>2, <2>5, <2>6 DEF Flush, Shape, ChangesOK
<1>12. CASE Finish(d)
  <2>1. drain[d].group \in Group /\ drain[d].notice \in Nat
    BY <1>run DEF Run
  <2>2. drain' \in [Staff -> Run]
    BY <1>run, <1>12, IdleIsRun DEF Finish, Run, Stages
  <2>3. queue' \in [Staff -> SUBSET Cadet]
    BY <1>12 DEF Finish, Settle, Shape
  <2>4. delivered' \in [Staff -> SUBSET (Nat \X Address)]
    <3>1. PICK sent \in SUBSET drain[d].group.items :
            delivered' = [delivered EXCEPT ![d] =
               @ \cup {<<drain[d].notice, r.address>> : r \in {r \in sent : r.kind = "notice"}}]
      BY <1>12 DEF Finish, Settle
    <3>2. \A r \in sent : r.address \in Address
      BY <2>1, <3>1 DEF Group, Record
    <3> QED BY <2>1, <3>1, <3>2 DEF Shape
  <2>5. reported' \subseteq Nat
    BY <1>12 DEF Finish, Shape
  <2>6. mistaken' \subseteq Record
    <3>1. NotCarried(drain[d].group) \subseteq Record
      BY <2>1 DEF NotCarried, Group
    <3> QED BY <1>12, <3>1 DEF Finish, Shape
  <2> QED BY <1>12, <2>2, <2>3, <2>4, <2>5, <2>6 DEF Finish, Shape, ChangesOK
<1>13. CASE OtherFlush(d)
  <2>1. PICK tx \in wallet[d] : Offer(d, tx)
    BY <1>13 DEF OtherFlush
  <2>2. Offered(d, tx)
    BY <2>1, OfferedWhenOffer
  <2>3. wallet' \in [Staff -> SUBSET Tx] /\ chain' \in Seq(Tx)
    BY <2>2 DEF Offered
  <2>tx. tx.id \in Nat
    BY DEF Shape, Tx
  <2>4. accepted' \subseteq Nat
    BY <2>2, <2>tx DEF Offered, Shape
  <2> QED BY <1>13, <2>3, <2>4 DEF OtherFlush, Shape, ChangesOK
<1>14. CASE StartNotices(d)
  <2>1. noticeQueue[d] \in SUBSET Nat
    BY DEF Shape
  <2>2. drain' \in [Staff -> Run]
    BY <1>14, <1>run, <2>1 DEF StartNotices, Run, Stages
  <2> QED BY <1>14, <2>2 DEF StartNotices, Shape, ChangesOK
<1>15. CASE ReadNotice(d)
  <2>1. PICK n \in drain[d].todo :
          drain' = [drain EXCEPT ![d].stage = "publish", ![d].todo = @ \ {n}, ![d].notice = n, ![d].failing = FALSE,
                      ![d].toFinish = Groups(d, {Notice(n, a) : a \in Left(d, n)}),
                      ![d].toBuild = {Notice(n, a) : a \in Left(d, n)} \ Built(d, {Notice(n, a) : a \in Left(d, n)})]
    BY <1>15 DEF ReadNotice
  <2>2. n \in noticeQueue[d]
    BY <1>15, <2>1 DEF ReadNotice, RunOrder
  <2> DEFINE items == {Notice(n, a) : a \in Left(d, n)}
  <2>5. items \in SUBSET Record /\ n \in Nat
    BY <2>2, LeftAreRecords
  <2>6. Groups(d, items) \subseteq Group
    BY <2>5, GroupsAreGroups
  <2>7. drain' = [drain EXCEPT ![d].stage = "publish", ![d].todo = @ \ {n}, ![d].notice = n, ![d].failing = FALSE,
                      ![d].toFinish = Groups(d, items), ![d].toBuild = items \ Built(d, items)]
    BY <2>1
  <2> HIDE DEF items
  <2>8. drain' \in [Staff -> Run]
    BY <1>run, <2>5, <2>6, <2>7 DEF Run, Stages
  <2> QED BY <1>15, <2>8 DEF ReadNotice, Shape, ChangesOK
<1>16. CASE EndNotice(d)
  <2>1. drain' \in [Staff -> Run]
    BY <1>16, <1>run DEF EndNotice, Run, Stages
  <2>2. \/ UNCHANGED <<noticeQueue, delivered>>
        \/ /\ noticeQueue' = [noticeQueue EXCEPT ![d] = @ \ {drain[d].notice}]
           /\ delivered' = [delivered EXCEPT ![d] = {x \in @ : x[1] # drain[d].notice}]
    BY <1>16 DEF EndNotice
  <2>3. noticeQueue' \in [Staff -> SUBSET Nat]
    <3>1. noticeQueue \in [Staff -> SUBSET Nat] /\ noticeQueue[d] \ {drain[d].notice} \in SUBSET Nat
      BY DEF Shape
    <3> QED BY <2>2, <3>1
  <2>4. delivered' \in [Staff -> SUBSET (Nat \X Address)]
    <3>1. {x \in delivered[d] : x[1] # drain[d].notice} \in SUBSET (Nat \X Address)
      BY DEF Shape
    <3> QED BY <2>2, <3>1 DEF Shape
  <2> QED BY <1>16, <2>1, <2>2, <2>3, <2>4 DEF EndNotice, Shape, ChangesOK
<1>17. CASE EndDrain(d)
  <2>1. drain' \in [Staff -> Run]
    BY <1>17, <1>run, IdleIsRun DEF EndDrain
  <2>2. timer' \in [Staff -> BOOLEAN]
    BY <1>17 DEF EndDrain, Shape, NeedsAnotherRun
  <2> QED BY <1>17, <2>1, <2>2 DEF EndDrain, Shape, ChangesOK
<1>18. CASE Restart(d)
  <2>1. drain' \in [Staff -> Run]
    BY <1>18, <1>run, IdleIsRun DEF Restart
  <2>2. timer' \in [Staff -> BOOLEAN] /\ due' \in [Staff -> BOOLEAN] /\ noting' \in [Staff -> SUBSET Nat]
    BY <1>18 DEF Restart, Shape, NeedsAnotherRun
  <2>3. generation' \in [Staff -> [Cadet -> Nat]]
    BY <1>18 DEF Restart, Shape
  <2> QED BY <1>18, <2>1, <2>2, <2>3 DEF Restart, Shape, ChangesOK
<1> QED BY <1>1, <1>2, <1>3, <1>4, <1>5, <1>6, <1>7, <1>8, <1>9, <1>10, <1>11, <1>12, <1>13, <1>14, <1>15,
         <1>16, <1>17, <1>18 DEF Step, DrainStep

-----------------------------------------------------------------------------
(* What a step of one device leaves to the others. *)

Untouched(e) ==
  /\ known'[e] = known[e] /\ noted'[e] = noted[e] /\ noting'[e] = noting[e]
  /\ queue'[e] = queue[e] /\ noticeQueue'[e] = noticeQueue[e] /\ delivered'[e] = delivered[e]
  /\ wallet'[e] = wallet[e] /\ generation'[e] = generation[e] /\ drain'[e] = drain[e]

\* The history, what devices know and what the network has only grow.
Grows ==
  /\ DOMAIN changes \subseteq DOMAIN changes' /\ \A n \in DOMAIN changes : changes'[n] = changes[n]
  /\ \A e \in Staff : known[e] \subseteq known'[e] /\ noted[e] \subseteq noted'[e]
  /\ Listed \subseteq Listed' /\ refused \subseteq refused' /\ mistaken \subseteq mistaken'

\* A wallet builds one transaction, or some of what it has lands or is withdrawn.
Builds(d) ==
  /\ built' = built + 1 /\ accepted' = accepted /\ Listed' = Listed
  /\ \E records \in SUBSET Record : wallet'[d] = wallet[d] \cup {[id |-> built', records |-> records]}
  /\ Ids(d)' \subseteq Ids(d) \cup {built'}
Spends(d) ==
  /\ built' = built /\ wallet'[d] \subseteq wallet[d] /\ Ids(d)' \subseteq Ids(d)
  /\ Listed' \subseteq Listed \cup wallet[d]
  /\ \/ accepted' = accepted
     \/ \E tx \in wallet[d] : tx \in Listed' /\ accepted' = accepted \cup {tx.id} /\ wallet'[d] = wallet[d] \ {tx}

Touches(d) ==
  /\ Grows
  /\ \A e \in Staff \ {d} : Untouched(e)
  /\ Builds(d) \/ Spends(d)
  /\ reported \subseteq reported' /\ reported' \subseteq reported \cup accepted

\* A step of the queues, of the clock or of the run that leaves wallet and network alone.
LEMMA NothingSpent ==
  ASSUME NEW d \in Staff, built' = built, wallet' = wallet, chain' = chain, accepted' = accepted,
         Open(d)' \subseteq Open(d)
  PROVE  Spends(d)
<1>1. Listed' = Listed
  BY DEF Listed
<1>2. Ids(d)' \subseteq Ids(d)
  BY DEF Ids
<1> QED BY <1>1, <1>2 DEF Spends

\* The same, when what is to be finished waits in the wallet.
LEMMA NothingSpentOnBuilt ==
  ASSUME NEW d \in Staff, built' = built, wallet' = wallet, chain' = chain, accepted' = accepted,
         \A g \in Open(d)' : \E tx \in wallet[d] : g.tx = tx.id
  PROVE  Spends(d)
<1>1. Listed' = Listed
  BY DEF Listed
<1>2. Ids(d)' \subseteq Ids(d)
  BY DEF Ids
<1> QED BY <1>1, <1>2 DEF Spends

\* The run of a device, one step on.
LEMMA OpenIs ==
  ASSUME Shape, NEW d \in Staff, RunOrder(d)
  PROVE  /\ drain[d].stage # "settle" => Open(d) = drain[d].toFinish /\ drain[d].group = NoGroup
         /\ drain[d].stage \in {"idle", "read", "notices"} => Open(d) = {} /\ Sealed(d) = {}
         /\ drain[d].stage # "read" => drain[d].items = {} /\ InHand(d) = Sealed(d)
<1>1. drain[d].stage # "settle" => drain[d].group = NoGroup
  BY DEF RunOrder
<1>2. drain[d].stage # "settle" => Open(d) = drain[d].toFinish
  BY <1>1 DEF Open
<1>3. drain[d].stage \in {"idle", "read", "notices"} =>
        drain[d].toFinish = {} /\ drain[d].toBuild = {} /\ drain[d].stage # "settle"
  BY DEF RunOrder
<1>4. drain[d].stage \in {"idle", "read", "notices"} => Open(d) = {} /\ Sealed(d) = {}
  BY <1>2, <1>3 DEF Sealed
<1>5. drain[d].stage # "read" => drain[d].items = {}
  BY DEF RunOrder
<1> QED BY <1>1, <1>2, <1>4, <1>5 DEF InHand

\* Nothing of the history or of the network changed.
LEMMA SameWorldGrows ==
  ASSUME Shape, changes' = changes, known' = known, noted' = noted, chain' = chain, refused' = refused,
         mistaken \subseteq mistaken'
  PROVE  Grows /\ Listed' = Listed
BY DEF Grows, Listed

\* When a waiting transaction is given to the network, the device spends what it had, at most.
LEMMA FlushTouches ==
  ASSUME Shape, NEW d \in Staff, NEW tx \in wallet[d], Offered(d, tx), built' = built, Ids(d)' \subseteq Ids(d)
  PROVE  Spends(d)
BY DEF Offered, Spends

\* What any step of a device may change of the transactions: its own, and the network's by one.
LEMMA StepTouches ==
  ASSUME Shape, NEW d \in Staff, OwnChanges(d), RunOrder(d), Step(d)
  PROVE  Touches(d)
<1> USE DEF storage, funds, memory
<1>run. drain[d] \in Run /\ drain \in [Staff -> Run]
  BY DEF Shape
<1>same. UNCHANGED <<chain, drain>> => Open(d)' = Open(d)
  BY DEF Open
<1>1. CASE Commit(d)
  <2>1. /\ UNCHANGED <<plan, storage, funds, generation, timer, due, drain, chain, noted, reported, refused, mistaken, trouble>>
        /\ known' = [known EXCEPT ![d] = @ \cup {Len(changes')}]
        /\ noting' = [noting EXCEPT ![d] = @ \cup {Len(changes')}]
    BY <1>1 DEF Commit
  <2>2. PICK e : changes' = Append(changes, e)
    BY <1>1 DEF Commit
  <2>3. changes \in Seq(Change)
    BY DEF Shape, ChangesOK
  <2>4. /\ Len(changes') = Len(changes) + 1 /\ Len(changes) \in Nat
        /\ DOMAIN changes' = 1 .. Len(changes) + 1 /\ DOMAIN changes = 1 .. Len(changes)
        /\ \A n \in DOMAIN changes : changes'[n] = changes[n]
    BY <2>2, <2>3
  <2>5. Listed' = Listed
    BY <2>1 DEF Listed
  <2>6. Grows
    BY <2>1, <2>4, <2>5 DEF Grows, Shape
  <2>7. \A e1 \in Staff \ {d} : Untouched(e1)
    BY <2>1 DEF Untouched, Shape
  <2>8. Spends(d)
    BY <2>1, <1>same, NothingSpent
  <2> QED BY <2>1, <2>6, <2>7, <2>8 DEF Touches
<1>2. CASE PublishAll(d)
  <2>1. Grows
    BY <1>2, SameWorldGrows DEF PublishAll
  <2>2. \A e \in Staff \ {d} : Untouched(e)
    BY <1>2 DEF PublishAll, Untouched, Shape
  <2>3. Spends(d)
    BY <1>2, <1>same, NothingSpent DEF PublishAll
  <2> QED BY <1>2, <2>1, <2>2, <2>3 DEF Touches, PublishAll
<1>3. CASE \E n \in DOMAIN changes : Learn(d, n)
  <2>1. Listed' = Listed
    BY <1>3 DEF Learn, Listed
  <2>2. Grows
    BY <1>3, <2>1 DEF Learn, Grows, Shape
  <2>3. \A e \in Staff \ {d} : Untouched(e)
    BY <1>3 DEF Learn, Untouched, Shape
  <2>4. Spends(d)
    BY <1>3, <1>same, NothingSpent DEF Learn
  <2> QED BY <1>3, <2>2, <2>3, <2>4 DEF Touches, Learn
<1>4. CASE \E n \in DOMAIN changes : NoteEvent(d, n)
  <2>1. PICK n \in DOMAIN changes : NoteEvent(d, n)
    BY <1>4
  <2>2. Listed' = Listed
    BY <2>1 DEF NoteEvent, Listed
  <2>3. Grows
    BY <2>1, <2>2 DEF NoteEvent, Grows, Shape
  <2>4. \A e \in Staff \ {d} : queue'[e] = queue[e] /\ noticeQueue'[e] = noticeQueue[e]
    BY <2>1 DEF NoteEvent, Shape
  <2>5. \A e \in Staff \ {d} : generation'[e] = generation[e]
    <3>1. CASE changes[n].kind = "NOTICE"
      BY <2>1, <3>1 DEF NoteEvent
    <3>2. CASE changes[n].kind # "NOTICE"
      <4>1. generation' = [generation EXCEPT ![d] = [generation[d] EXCEPT ![changes[n].cadet] = generation[d][changes[n].cadet] + 1]]
        BY <2>1, <3>2, Zenon DEF NoteEvent
      <4> QED BY <4>1 DEF Shape
    <3> QED BY <3>1, <3>2
  <2>6. \A e \in Staff \ {d} : Untouched(e)
    BY <2>1, <2>4, <2>5 DEF NoteEvent, Untouched, Shape
  <2>7. Spends(d)
    BY <2>1, <1>same, NothingSpent DEF NoteEvent
  <2> QED BY <2>1, <2>3, <2>6, <2>7 DEF Touches, NoteEvent
<1>5. CASE Elapse(d)
  <2>1. Grows
    BY <1>5, SameWorldGrows DEF Elapse
  <2>2. \A e \in Staff \ {d} : Untouched(e)
    BY <1>5 DEF Elapse, Untouched, Shape
  <2>3. Spends(d)
    BY <1>5, <1>same, NothingSpent DEF Elapse
  <2> QED BY <1>5, <2>1, <2>2, <2>3 DEF Touches, Elapse
<1>6. CASE StartDrain(d)
  <2>1. Grows
    BY <1>6, SameWorldGrows DEF StartDrain
  <2>2. \A e \in Staff \ {d} : Untouched(e)
    BY <1>6 DEF StartDrain, Untouched, Shape
  <2>3. Open(d)' = {}
    BY <1>6, <1>run DEF StartDrain, Open, Idle
  <2>4. Spends(d)
    BY <1>6, <2>3, NothingSpent DEF StartDrain
  <2> QED BY <1>6, <2>1, <2>2, <2>4 DEF Touches, StartDrain
<1>7. CASE Read(d)
  <2>1. Grows
    BY <1>7, SameWorldGrows DEF Read
  <2>2. \A e \in Staff \ {d} : Untouched(e)
    BY <1>7 DEF Read, Untouched, Shape
  <2>3. Open(d)' = Open(d)
    BY <1>7, <1>run DEF Read, Open, Run
  <2>4. Spends(d)
    BY <1>7, <2>3, NothingSpent DEF Read
  <2> QED BY <1>7, <2>1, <2>2, <2>4 DEF Touches, Read
<1>8. CASE Seal(d)
  <2> DEFINE sealed == drain[d].items \ {r \in drain[d].items : IsTooLarge(r)}
  <2>1. refused \subseteq refused' /\ Listed' = Listed
    BY <1>8 DEF Seal, Listed
  <2>2. Grows
    BY <1>8, <2>1 DEF Seal, Grows
  <2>3. \A e \in Staff \ {d} : Untouched(e)
    BY <1>8 DEF Seal, Untouched, Shape
  <2>4. sealed \in SUBSET Record
    BY <1>run DEF Run
  <2>5. drain' = [drain EXCEPT ![d].stage = "publish", ![d].items = {},
                    ![d].toFinish = Groups(d, sealed), ![d].toBuild = sealed \ Built(d, sealed)]
    BY <1>8 DEF Seal
  <2> HIDE DEF sealed
  <2>6. drain'[d].toFinish = Groups(d, sealed) /\ drain'[d].group = drain[d].group
    BY <1>run, <2>5 DEF Run
  <2>7. drain[d].group = NoGroup
    BY <1>8, OpenIs DEF Seal
  <2>8. Open(d)' = Groups(d, sealed)
    BY <2>6, <2>7 DEF Open
  <2>9. \A g \in Groups(d, sealed) : \E tx \in wallet[d] : g.tx = tx.id
    BY <2>4, GroupsAreGroups DEF Carriers
  <2>10. Spends(d)
    BY <1>8, <2>8, <2>9, NothingSpentOnBuilt DEF Seal
  <2> QED BY <1>8, <2>2, <2>3, <2>10 DEF Touches, Seal
<1>9. CASE Build(d)
  <2>1. PICK batch \in Batches(drain[d].toBuild) :
          /\ wallet' = [wallet EXCEPT ![d] = @ \cup {[id |-> built', records |-> batch]}]
          /\ drain' = [drain EXCEPT ![d].toBuild = @ \ batch, ![d].toFinish = {[tx |-> built', items |-> batch]}]
    BY <1>9 DEF Build
  <2>2. batch \in SUBSET Record
    BY <1>run, <2>1 DEF Batches, Run
  <2>3. Grows /\ Listed' = Listed
    BY <1>9, SameWorldGrows DEF Build
  <2>4. \A e \in Staff \ {d} : Untouched(e)
    BY <1>9, <2>1 DEF Build, Untouched, Shape
  <2>5. drain'[d].toFinish = {[tx |-> built', items |-> batch]} /\ drain'[d].group = drain[d].group
    BY <1>run, <2>1 DEF Run
  <2>6. \A g \in Open(d)' : g.tx = built' \/ g \in Open(d)
    BY <2>5 DEF Open
  <2>7. wallet'[d] = wallet[d] \cup {[id |-> built', records |-> batch]}
    BY <2>1 DEF Shape
  <2>8. Ids(d)' \subseteq Ids(d) \cup {built'}
    BY <2>6, <2>7 DEF Ids
  <2>9. Builds(d)
    BY <1>9, <2>2, <2>3, <2>7, <2>8 DEF Build, Builds
  <2> QED BY <1>9, <2>3, <2>4, <2>9 DEF Touches, Build
<1>10. CASE BuildFails(d)
  <2>1. PICK batch \in Batches(drain[d].toBuild) :
          /\ Settle(d, batch, FALSE)
          /\ drain' = [drain EXCEPT ![d].toBuild = @ \ batch, ![d].failing = TRUE]
    BY <1>10 DEF BuildFails
  <2>2. Grows
    BY <1>10, SameWorldGrows DEF BuildFails
  <2>3. \A e \in Staff \ {d} : Untouched(e)
    BY <1>10, <2>1 DEF BuildFails, Settle, Untouched, Shape
  <2>4. Open(d)' = Open(d)
    BY <1>run, <2>1 DEF Open, Run
  <2>5. Spends(d)
    BY <1>10, <2>4, NothingSpent DEF BuildFails
  <2> QED BY <1>10, <2>2, <2>3, <2>5 DEF Touches, BuildFails
<1>11. CASE Flush(d)
  <2>1. PICK group \in drain[d].toFinish :
          /\ drain' = [drain EXCEPT ![d].stage = "settle", ![d].group = group, ![d].toFinish = @ \ {group}]
          /\ LET mine == {tx \in wallet[d] : tx.id = group.tx} IN
             IF mine = {} THEN UNCHANGED <<wallet, accepted, chain, trouble>> ELSE \E tx \in mine : Offer(d, tx)
    BY <1>11 DEF Flush
  <2>2. UNCHANGED <<wallet, accepted, chain>> \/ \E tx \in wallet[d] : Offered(d, tx)
    BY <2>1, OfferedWhenOffer
  <2>3. drain'[d].group = group /\ drain'[d].toFinish = drain[d].toFinish \ {group}
    BY <1>run, <2>1 DEF Run
  <2>4. Open(d)' \subseteq Open(d)
    <3>1. Open(d)' \subseteq (drain[d].toFinish \ {group}) \cup {group}
      BY <2>3 DEF Open
    <3>2. drain[d].toFinish \subseteq Open(d)
      BY DEF Open
    <3> QED BY <2>1, <3>1, <3>2
  <2>5. CASE UNCHANGED <<wallet, accepted, chain>>
    <3>1. Spends(d)
      BY <1>11, <2>4, <2>5, NothingSpent DEF Flush
    <3>2. Grows
      BY <1>11, <2>5, SameWorldGrows DEF Flush
    <3>3. \A e \in Staff \ {d} : Untouched(e)
      BY <1>11, <2>1, <2>5 DEF Flush, Untouched, Shape
    <3> QED BY <1>11, <3>1, <3>2, <3>3 DEF Touches, Flush
  <2>6. CASE \E tx \in wallet[d] : Offered(d, tx)
    <3>1. PICK tx \in wallet[d] : Offered(d, tx)
      BY <2>6
    <3>2. Ids(d)' \subseteq Ids(d)
      BY <2>4, <3>1 DEF Ids, Offered
    <3>3. Spends(d)
      BY <1>11, <3>1, <3>2, FlushTouches DEF Flush
    <3>4. Grows
      BY <1>11, <3>1 DEF Flush, Grows, Offered
    <3>5. \A e \in Staff \ {d} : Untouched(e)
      BY <1>11, <2>1, <3>1 DEF Flush, Untouched, Shape, Offered
    <3> QED BY <1>11, <3>3, <3>4, <3>5 DEF Touches, Flush
  <2> QED BY <2>2, <2>5, <2>6
<1>12. CASE Finish(d)
  <2>1. Grows
    BY <1>12, SameWorldGrows DEF Finish
  <2>2. \A e \in Staff \ {d} : Untouched(e)
    BY <1>12 DEF Finish, Settle, Untouched, Shape
  <2>3. Open(d)' \subseteq Open(d)
    BY <1>12, <1>run DEF Finish, Open, Run
  <2>4. Spends(d)
    BY <1>12, <2>3, NothingSpent DEF Finish
  <2> QED BY <1>12, <2>1, <2>2, <2>4 DEF Touches, Finish
<1>13. CASE OtherFlush(d)
  <2>1. PICK tx \in wallet[d] : Offer(d, tx)
    BY <1>13 DEF OtherFlush
  <2>2. Offered(d, tx)
    BY <2>1, OfferedWhenOffer
  <2>3. Ids(d)' \subseteq Ids(d)
    BY <1>13, <2>2 DEF OtherFlush, Ids, Open, Offered
  <2>4. Spends(d)
    BY <1>13, <2>2, <2>3, FlushTouches DEF OtherFlush
  <2>5. Grows
    BY <1>13, <2>2 DEF OtherFlush, Grows, Offered
  <2>6. \A e \in Staff \ {d} : Untouched(e)
    BY <1>13, <2>2 DEF OtherFlush, Untouched, Offered
  <2> QED BY <1>13, <2>4, <2>5, <2>6 DEF Touches, OtherFlush
<1>14. CASE StartNotices(d)
  <2>1. Grows
    BY <1>14, SameWorldGrows DEF StartNotices
  <2>2. \A e \in Staff \ {d} : Untouched(e)
    BY <1>14 DEF StartNotices, Untouched, Shape
  <2>3. Open(d)' = Open(d)
    BY <1>14, <1>run DEF StartNotices, Open, Run
  <2>4. Spends(d)
    BY <1>14, <2>3, NothingSpent DEF StartNotices
  <2> QED BY <1>14, <2>1, <2>2, <2>4 DEF Touches, StartNotices
<1>15. CASE ReadNotice(d)
  <2>1. Grows
    BY <1>15, SameWorldGrows DEF ReadNotice
  <2>2. PICK n \in drain[d].todo :
          drain' = [drain EXCEPT ![d].stage = "publish", ![d].todo = @ \ {n}, ![d].notice = n, ![d].failing = FALSE,
                      ![d].toFinish = Groups(d, {Notice(n, a) : a \in Left(d, n)}),
                      ![d].toBuild = {Notice(n, a) : a \in Left(d, n)} \ Built(d, {Notice(n, a) : a \in Left(d, n)})]
    BY <1>15 DEF ReadNotice
  <2> DEFINE items == {Notice(n, a) : a \in Left(d, n)}
  <2>3. \A e \in Staff \ {d} : Untouched(e)
    BY <1>15, <2>2 DEF ReadNotice, Untouched, Shape
  <2>4. items \in SUBSET Record
    <3>1. n \in noticeQueue[d]
      BY <1>15, <2>2 DEF ReadNotice, RunOrder
    <3> QED BY <3>1, LeftAreRecords
  <2>5. drain'[d].toFinish = Groups(d, items) /\ drain'[d].group = drain[d].group
    BY <1>run, <2>2 DEF Run
  <2> HIDE DEF items
  <2>6. drain[d].group = NoGroup
    BY <1>15, OpenIs DEF ReadNotice
  <2>7. Open(d)' = Groups(d, items)
    BY <2>5, <2>6 DEF Open
  <2>8. \A g \in Groups(d, items) : \E tx \in wallet[d] : g.tx = tx.id
    BY <2>4, GroupsAreGroups DEF Carriers
  <2>9. Spends(d)
    BY <1>15, <2>7, <2>8, NothingSpentOnBuilt DEF ReadNotice
  <2> QED BY <1>15, <2>1, <2>3, <2>9 DEF Touches, ReadNotice
<1>16. CASE EndNotice(d)
  <2>1. Grows
    BY <1>16, SameWorldGrows DEF EndNotice
  <2>2. \A e \in Staff \ {d} : Untouched(e)
    BY <1>16 DEF EndNotice, Untouched, Shape
  <2>3. Open(d)' = Open(d)
    BY <1>16, <1>run DEF EndNotice, Open, Run
  <2>4. Spends(d)
    BY <1>16, <2>3, NothingSpent DEF EndNotice
  <2> QED BY <1>16, <2>1, <2>2, <2>4 DEF Touches, EndNotice
<1>17. CASE EndDrain(d)
  <2>1. Grows
    BY <1>17, SameWorldGrows DEF EndDrain
  <2>2. \A e \in Staff \ {d} : Untouched(e)
    BY <1>17 DEF EndDrain, Untouched, Shape
  <2>3. Open(d)' = {}
    BY <1>17, <1>run DEF EndDrain, Open, Idle
  <2>4. Spends(d)
    BY <1>17, <2>3, NothingSpent DEF EndDrain
  <2> QED BY <1>17, <2>1, <2>2, <2>4 DEF Touches, EndDrain
<1>18. CASE Restart(d)
  <2>1. Grows
    BY <1>18, SameWorldGrows DEF Restart
  <2>2. \A e \in Staff \ {d} : Untouched(e)
    BY <1>18 DEF Restart, Untouched, Shape
  <2>3. Open(d)' = {}
    BY <1>18, <1>run DEF Restart, Open, Idle
  <2>4. Spends(d)
    BY <1>18, <2>3, NothingSpent DEF Restart
  <2> QED BY <1>18, <2>1, <2>2, <2>4 DEF Touches, Restart
<1> QED BY <1>1, <1>2, <1>3, <1>4, <1>5, <1>6, <1>7, <1>8, <1>9, <1>10, <1>11, <1>12, <1>13, <1>14, <1>15,
         <1>16, <1>17, <1>18 DEF Step, DrainStep

-----------------------------------------------------------------------------
(* Whose a transaction is. *)

\* At first there are no transactions.
LEMMA OwnersAtFirst == Init => OneOwner
<1> SUFFICES ASSUME Init PROVE OneOwner
  OBVIOUS
<1>1. Listed = {} /\ accepted = {} /\ reported = {}
  BY DEF Init, Listed
<1>2. \A d \in Staff : wallet[d] = {} /\ Open(d) = {}
  BY IdleIsRun DEF Init, Open, Idle
<1>3. \A d \in Staff : Ids(d) = {}
  BY <1>2 DEF Ids
<1> QED BY <1>1, <1>2, <1>3 DEF OneOwner

\* A device that does nothing has the same transactions and records in hand.
LEMMA UntouchedIds ==
  ASSUME NEW e, Untouched(e)
  PROVE  Open(e)' = Open(e) /\ Ids(e)' = Ids(e) /\ Sealed(e)' = Sealed(e) /\ InHand(e)' = InHand(e)
<1>1. Open(e)' = Open(e)
  BY DEF Untouched, Open
<1>2. Ids(e)' = Ids(e)
  BY <1>1 DEF Untouched, Ids
<1>3. Sealed(e)' = Sealed(e)
  BY <1>1 DEF Untouched, Sealed
<1> QED BY <1>1, <1>2, <1>3 DEF InHand, Untouched

\* A waiting transaction is the device's own.
LEMMA WaitingIsOwn ==
  ASSUME NEW d, NEW tx \in wallet[d]
  PROVE  tx.id \in Ids(d)
BY DEF Ids

\* The wallet's own transactions apart from the others'.
LEMMA OwnersKept ==
  ASSUME Shape, Shape', OneOwner, NEW d \in Staff, Touches(d)
  PROVE  OneOwner'
<1>nat. built \in Nat /\ \A e \in Staff : Ids(e) \subseteq 1 .. built
  BY DEF Shape, OneOwner
<1>others. \A e \in Staff \ {d} : Ids(e)' = Ids(e) /\ wallet'[e] = wallet[e]
  BY UntouchedIds DEF Touches, Untouched
<1>1. CASE Spends(d)
  <2>1. \A e \in Staff : Ids(e)' \subseteq Ids(e)
    BY <1>1, <1>others DEF Spends
  <2>2. \A e \in Staff : wallet'[e] \subseteq wallet[e]
    BY <1>1, <1>others DEF Spends
  <2>3. \A e \in Staff : Ids(e)' \subseteq 1 .. built'
    BY <1>1, <1>nat, <2>1 DEF Spends
  <2>4. \A e, f \in Staff : e # f => Ids(e)' \cap Ids(f)' = {}
    BY <2>1 DEF OneOwner
  <2>5. \A tx \in Listed' : tx.id \in 1 .. built'
    BY <1>1, <1>nat, WaitingIsOwn DEF Spends, OneOwner
  <2>6. accepted' \subseteq {tx.id : tx \in Listed'} /\ reported' \subseteq accepted'
    <3>1. accepted \subseteq {tx.id : tx \in Listed'}
      BY DEF OneOwner, Touches, Grows
    <3> QED BY <1>1, <3>1 DEF Spends, OneOwner, Touches
  <2>7. ASSUME NEW e \in Staff, NEW tx \in wallet'[e]
        PROVE  /\ tx.id \notin accepted'
               /\ \A u \in wallet'[e] \cup Listed' : u.id = tx.id => u = tx
    <3>1. tx \in wallet[e] /\ tx.id \notin accepted /\ \A u \in wallet[e] \cup Listed : u.id = tx.id => u = tx
      BY <2>2, <2>7 DEF OneOwner
    <3>2. \A u \in wallet[d] : u.id = tx.id => e = d
      BY <3>1, WaitingIsOwn DEF OneOwner
    <3>3. \A u \in Listed' : u.id = tx.id => u = tx
      BY <1>1, <3>1, <3>2 DEF Spends
    <3>4. tx.id \notin accepted'
      <4>1. CASE accepted' = accepted
        BY <3>1, <4>1
      <4>2. CASE \E u \in wallet[d] : u \in Listed' /\ accepted' = accepted \cup {u.id} /\ wallet'[d] = wallet[d] \ {u}
        <5>1. PICK u \in wallet[d] : accepted' = accepted \cup {u.id} /\ wallet'[d] = wallet[d] \ {u}
          BY <4>2
        <5>2. u.id = tx.id => u = tx /\ e = d
          BY <3>1, <3>2
        <5> QED BY <2>7, <3>1, <5>1, <5>2
      <4> QED BY <1>1, <4>1, <4>2 DEF Spends
    <3> QED BY <2>2, <3>1, <3>3, <3>4
  <2> QED BY <2>3, <2>4, <2>5, <2>6, <2>7 DEF OneOwner
<1>2. CASE Builds(d)
  <2>1. PICK records \in SUBSET Record : wallet'[d] = wallet[d] \cup {[id |-> built', records |-> records]}
    BY <1>2 DEF Builds
  <2> DEFINE new == [id |-> built', records |-> records]
  <2>2. built' = built + 1 /\ accepted' = accepted /\ Listed' = Listed
    BY <1>2 DEF Builds
  <2>3. new.id = built + 1 /\ wallet'[d] = wallet[d] \cup {new}
    BY <2>1, <2>2
  <2> HIDE DEF new
  <2>4. Ids(d)' \subseteq Ids(d) \cup {built + 1}
    BY <1>2, <2>2 DEF Builds
  <2>5. \A e \in Staff : Ids(e)' \subseteq 1 .. built'
    BY <1>nat, <1>others, <2>2, <2>4
  <2>6. \A e, f \in Staff : e # f => Ids(e)' \cap Ids(f)' = {}
    <3>1. \A e \in Staff : built + 1 \notin Ids(e)
      BY <1>nat
    <3> QED BY <1>others, <2>4, <3>1 DEF OneOwner
  <2>7. \A tx \in Listed' : tx.id \in 1 .. built'
    BY <1>nat, <2>2 DEF OneOwner
  <2>8. accepted' \subseteq {tx.id : tx \in Listed'} /\ reported' \subseteq accepted'
    BY <2>2 DEF OneOwner, Touches
  <2>9. built + 1 \notin accepted /\ \A u \in Listed : u.id # built + 1
    BY <1>nat DEF OneOwner
  <2>10. \A u \in wallet[d] : u.id # built + 1
    BY <1>nat, WaitingIsOwn
  <2>11. ASSUME NEW e \in Staff, NEW tx \in wallet'[e]
         PROVE  /\ tx.id \notin accepted'
                /\ \A u \in wallet'[e] \cup Listed' : u.id = tx.id => u = tx
    <3>1. CASE e # d
      <4>1. tx \in wallet[e] /\ wallet'[e] = wallet[e]
        BY <1>others, <2>11, <3>1
      <4> QED BY <4>1, <2>2 DEF OneOwner
    <3>2. CASE e = d /\ tx = new
      BY <2>2, <2>3, <2>9, <2>10, <3>2
    <3>3. CASE e = d /\ tx # new
      <4>1. tx \in wallet[d]
        BY <2>3, <2>11, <3>3
      <4>2. tx.id # new.id
        BY <2>3, <2>10, <4>1
      <4> QED BY <2>2, <2>3, <3>3, <4>1, <4>2 DEF OneOwner
    <3> QED BY <3>1, <3>2, <3>3
  <2> QED BY <2>5, <2>6, <2>7, <2>8, <2>11 DEF OneOwner
<1> QED BY <1>1, <1>2 DEF Touches

\* What waits and what is listed under one number is one transaction.
LEMMA OneOfItsNumber ==
  ASSUME OneOwner, NEW d \in Staff, NEW tx \in wallet[d], NEW u \in wallet[d] \cup Listed, u.id = tx.id
  PROVE  u = tx
BY DEF OneOwner

\* A transaction that lands had not been reported.
LEMMA ReportedSame ==
  ASSUME Shape, OneOwner, NEW d \in Staff, Touches(d), NEW tx \in Reported' \ Reported
  PROVE  tx \in Listed /\ tx.id \in reported' \ reported
<1>1. tx \in Listed' /\ tx.id \in reported' /\ tx.id \in accepted
  BY DEF Reported, Touches, OneOwner
<1>2. tx \in Listed \cup wallet[d]
  BY <1>1 DEF Touches, Builds, Spends
<1>3. tx \notin wallet[d]
  BY <1>1 DEF OneOwner
<1> QED BY <1>1, <1>2, <1>3 DEF Reported

-----------------------------------------------------------------------------
(* What is true of a record stays true. *)

\* What a device noted and grasped is what it was, unless it noted more.
LEMMA GraspSame ==
  ASSUME Shape, Grows, NEW e \in Staff, OwnChanges(e), noted'[e] = noted[e], NEW c
  PROVE  NotedAbout(e, c)' = NotedAbout(e, c) /\ Grasp(e, c)' = Grasp(e, c)
<1>1. noted[e] \subseteq DOMAIN changes /\ known[e] \subseteq DOMAIN changes
  BY DEF OwnChanges
<1>2. \A n \in DOMAIN changes : changes'[n] = changes[n]
  BY DEF Grows
<1>3. NotedAbout(e, c)' = NotedAbout(e, c)
  BY <1>1, <1>2 DEF NotedAbout, About
<1> DEFINE U == UNION {changes[n].sees : n \in NotedAbout(e, c)}
<1>4. NotedAbout(e, c) \subseteq noted[e]
  BY DEF NotedAbout, About
<1>5. U' = U
  BY <1>1, <1>2, <1>3, <1>4
<1>6. U \subseteq DOMAIN changes
  BY <1>1, <1>4 DEF OwnChanges
<1>7. Grasp(e, c) = About(noted[e] \cup U, c)
  BY DEF Grasp
<1>8. Grasp(e, c)' = About(noted[e] \cup U, c)'
  BY DEF Grasp
<1> HIDE DEF U
<1>9. About(noted[e] \cup U, c)' = About(noted[e] \cup U, c)
  BY <1>1, <1>2, <1>5, <1>6 DEF About
<1> QED BY <1>3, <1>7, <1>8, <1>9

\* A cadet's channel is never replaced by an earlier one.
LEMMA TurnsGrow ==
  ASSUME Shape, Shape', Grows, NEW e \in Staff, OwnChanges(e), OwnChanges(e)', NEW c
  PROVE  /\ viewFor(e, c) \subseteq viewFor(e, c)' /\ viewFor(e, c) \subseteq DOMAIN changes
         /\ Turns(e, c) \in Nat /\ Turns(e, c)' \in Nat /\ Turns(e, c) <= Turns(e, c)'
<1>1. known[e] \subseteq DOMAIN changes /\ known[e] \subseteq known'[e] /\ known'[e] \subseteq DOMAIN changes'
  BY DEF OwnChanges, Grows
<1>2. viewFor(e, c) \subseteq viewFor(e, c)' /\ viewFor(e, c) \subseteq DOMAIN changes
  BY <1>1 DEF Grows, viewFor, About
<1>3. Rotations(viewFor(e, c)) \subseteq Rotations(viewFor(e, c))'
  BY <1>1 DEF Grows, Rotations, viewFor, About
<1>4. Rotations(viewFor(e, c))' \subseteq 1 .. Len(changes') /\ Len(changes') \in Nat
  <2>1. DOMAIN changes' = 1 .. Len(changes') /\ Len(changes') \in Nat
    BY DEF Shape, ChangesOK
  <2> QED BY <1>1, <2>1 DEF Rotations, viewFor, About
<1>5. /\ Cardinality(Rotations(viewFor(e, c))) \in Nat /\ Cardinality(Rotations(viewFor(e, c))') \in Nat
      /\ Cardinality(Rotations(viewFor(e, c))) <= Cardinality(Rotations(viewFor(e, c))')
  BY <1>3, <1>4, CountWithin
<1>6. Turns(e, c) = Cardinality(Rotations(viewFor(e, c))) /\ Turns(e, c)' = Cardinality(Rotations(viewFor(e, c))')
  BY DEF Turns
<1> QED BY <1>2, <1>5, <1>6

\* Who a notice is for does not change as changes are added.
LEMMA AudienceSame ==
  ASSUME Grows, NEW n \in DOMAIN changes
  PROVE  AudienceOf(n)' = AudienceOf(n)
BY DEF Grows, AudienceOf

\* A record a device may send it may send later, too.
LEMMA FromStays ==
  ASSUME Shape, Shape', Grows, NEW e \in Staff, OwnChanges(e), OwnChanges(e)', NEW r \in Record, From(e, r)
  PROVE  From(e, r)'
<1>1. viewFor(e, r.cadet) \subseteq viewFor(e, r.cadet)' /\ viewFor(e, r.cadet) \subseteq DOMAIN changes
  BY TurnsGrow
<1>2. CASE ViewOf(e, r)
  <2>1. r.content \subseteq viewFor(e, r.cadet)' /\ r.content \subseteq DOMAIN changes
    BY <1>1, <1>2 DEF ViewOf
  <2>2. Rotations(r.content)' = Rotations(r.content)
    BY <2>1 DEF Grows, Rotations
  <2> QED BY <1>2, <2>1, <2>2 DEF ViewOf, From
<1>3. CASE NoticeOf(e, r)
  <2>1. PICK n \in Nat : /\ n \in noted[e] /\ changes[n].kind = "NOTICE" /\ r.content = {n} /\ r.cadet \in AudienceOf(n)
                         /\ r.address[1] = r.cadet /\ r.address[2] <= Turns(e, r.cadet)
    BY <1>3 DEF NoticeOf, Shape
  <2>2. n \in DOMAIN changes /\ n \in noted'[e]
    BY <2>1 DEF OwnChanges, Grows
  <2>3. changes'[n] = changes[n] /\ AudienceOf(n)' = AudienceOf(n)
    BY <2>2, AudienceSame DEF Grows
  <2>4. Turns(e, r.cadet) \in Nat /\ Turns(e, r.cadet)' \in Nat /\ Turns(e, r.cadet) <= Turns(e, r.cadet)'
    BY TurnsGrow
  <2>5. r.address[2] \in Nat
    BY DEF Record, Address
  <2>6. r.address[2] <= Turns(e, r.cadet)'
    BY <2>1, <2>4, <2>5
  <2> QED BY <1>3, <2>1, <2>2, <2>3, <2>6 DEF NoticeOf, From
<1> QED BY <1>2, <1>3 DEF From

\* Two records of a device that are taken for the same show the same.
LEMMA SameRecord ==
  ASSUME Shape, NEW d \in Staff, OwnChanges(d), NEW r \in Record, NEW s \in Record, From(d, r), From(d, s),
         Correlation(r) = Correlation(s),
         s.kind = "view" /\ r.kind = "view" /\ s.cadet = r.cadet => s.content \subseteq r.content
  PROVE  Alike(s, r)
<1>1. r.kind = s.kind /\ r.kind \in {"view", "notice"}
  BY DEF Correlation, Record
<1>2. CASE r.kind = "view"
  <2>1. s.cadet = r.cadet /\ Cardinality(Shows(s)) = Cardinality(Shows(r))
    BY <1>1, <1>2 DEF Correlation, Version, Shows
  <2>2. s.content \subseteq r.content
    BY <1>1, <1>2, <2>1
  <2>3. ViewOf(d, r)
    BY <1>1, <1>2 DEF From, NoticeOf
  <2>4. r.content \subseteq 1 .. Len(changes) /\ Len(changes) \in Nat
    BY <2>3 DEF ViewOf, viewFor, About, OwnChanges, Shape, ChangesOK
  <2>5. Shows(s) \subseteq Shows(r) /\ Shows(r) \subseteq 1 .. Len(changes)
    BY <2>2, <2>4 DEF Shows, Rotations
  <2>6. Shows(s) = Shows(r)
    BY <2>1, <2>4, <2>5, CountWithin
  <2> QED BY <1>1, <1>2, <2>1, <2>6 DEF Alike
<1>3. CASE r.kind = "notice"
  <2>1. s.content = r.content /\ s.address = r.address
    BY <1>1, <1>3 DEF Correlation
  <2>2. NoticeOf(d, r) /\ NoticeOf(d, s)
    BY <1>1, <1>3 DEF From, ViewOf
  <2>3. s.cadet = r.cadet
    BY <2>1, <2>2 DEF NoticeOf
  <2>4. s = r
    BY <1>1, <2>1, <2>3 DEF Record
  <2> QED BY <1>1, <1>3, <2>4 DEF Alike
<1> QED BY <1>1, <1>2, <1>3

-----------------------------------------------------------------------------
(* A device notes its own changes, and its run keeps its order. *)

\* A device that does nothing knows what it knew.
LEMMA OthersOwnChanges ==
  ASSUME Grows, NEW e \in Staff, Untouched(e), OwnChanges(e)
  PROVE  OwnChanges(e)'
BY DEF Grows, Untouched, OwnChanges

\* A device notes only changes it made and knows, whichever step it takes.
LEMMA OwnChangesKept ==
  ASSUME Shape, NEW d \in Staff, OwnChanges(d), Step(d)
  PROVE  OwnChanges(d)'
<1> USE DEF storage, funds, memory
<1>1. CASE Commit(d)
  <2>1. PICK what \in plan[d] :
          changes' = Append(changes, [kind |-> what.kind, cadet |-> what.cadet, by |-> d, sees |-> known[d]])
    BY <1>1 DEF Commit
  <2> DEFINE new == [kind |-> what.kind, cadet |-> what.cadet, by |-> d, sees |-> known[d]]
  <2>2. changes' = Append(changes, new) /\ new.by = d /\ new.sees = known[d]
    BY <2>1
  <2> HIDE DEF new
  <2>3. changes \in Seq(Change)
    BY DEF Shape, ChangesOK
  <2>4. /\ Len(changes') = Len(changes) + 1 /\ Len(changes) \in Nat
        /\ DOMAIN changes' = 1 .. Len(changes) + 1 /\ DOMAIN changes = 1 .. Len(changes)
        /\ changes'[Len(changes) + 1] = new /\ \A n \in DOMAIN changes : changes'[n] = changes[n]
    BY <2>2, <2>3
  <2>5. /\ known'[d] = known[d] \cup {Len(changes) + 1} /\ noting'[d] = noting[d] \cup {Len(changes) + 1}
        /\ noted'[d] = noted[d] /\ noticeQueue'[d] = noticeQueue[d]
    BY <1>1, <2>4 DEF Commit, Shape
  <2>6. Len(changes) + 1 \notin known[d] /\ known[d] \subseteq DOMAIN changes
    BY <2>4 DEF OwnChanges
  <2>7. ASSUME NEW n \in noted'[d] \cup noting'[d]
        PROVE  changes'[n].by = d /\ changes'[n].sees \subseteq known'[d]
    <3>1. CASE n = Len(changes) + 1
      BY <2>2, <2>4, <2>5, <3>1
    <3>2. CASE n # Len(changes) + 1
      <4>1. n \in noted[d] \cup noting[d] /\ n \in DOMAIN changes
        BY <2>5, <2>6, <2>7, <3>2 DEF OwnChanges
      <4>2. changes[n].by = d /\ changes[n].sees \subseteq known[d]
        BY <4>1 DEF OwnChanges
      <4> QED BY <2>4, <2>5, <4>1, <4>2
    <3> QED BY <3>1, <3>2
  <2>8. known'[d] \subseteq DOMAIN changes' /\ noted'[d] \subseteq known'[d] /\ noting'[d] \subseteq known'[d] \ noted'[d]
    BY <2>4, <2>5, <2>6 DEF OwnChanges
  <2>9. noticeQueue'[d] \subseteq {n \in noted'[d] : changes'[n].kind = "NOTICE"}
    BY <2>4, <2>5, <2>6 DEF OwnChanges
  <2> QED BY <2>7, <2>8, <2>9 DEF OwnChanges
<1>2. CASE \E n \in DOMAIN changes : Learn(d, n)
  BY <1>2 DEF Learn, Shape, OwnChanges
<1>3. CASE \E n \in DOMAIN changes : NoteEvent(d, n)
  <2>1. PICK n \in DOMAIN changes : NoteEvent(d, n)
    BY <1>3
  <2>2. /\ n \in noting[d] /\ noting'[d] = noting[d] \ {n} /\ noted'[d] = noted[d] \cup {n}
        /\ changes' = changes /\ known' = known
    BY <2>1 DEF NoteEvent, Shape
  <2>3. noticeQueue'[d] = noticeQueue[d] \/ (changes[n].kind = "NOTICE" /\ noticeQueue'[d] = noticeQueue[d] \cup {n})
    BY <2>1 DEF NoteEvent, Shape
  <2> QED BY <2>2, <2>3 DEF OwnChanges
<1>4. CASE EndNotice(d)
  <2>1. noticeQueue'[d] \subseteq noticeQueue[d] /\ UNCHANGED <<changes, known, noted, noting>>
    BY <1>4 DEF EndNotice, Shape
  <2> QED BY <2>1 DEF OwnChanges
<1>5. CASE Restart(d)
  BY <1>5 DEF Restart, Shape, OwnChanges
<1>6. CASE UNCHANGED <<changes, known, noted, noting, noticeQueue>>
  BY <1>6 DEF OwnChanges
<1>7. \/ Commit(d) \/ (\E n \in DOMAIN changes : Learn(d, n)) \/ (\E n \in DOMAIN changes : NoteEvent(d, n))
      \/ EndNotice(d) \/ Restart(d) \/ UNCHANGED <<changes, known, noted, noting, noticeQueue>>
  BY DEF Step, DrainStep, PublishAll, Elapse, StartDrain, Read, Seal, Build, BuildFails, Flush, Finish, OtherFlush,
         StartNotices, ReadNotice, EndDrain
<1> QED BY <1>1, <1>2, <1>3, <1>4, <1>5, <1>6, <1>7

\* The run of a device that does nothing stays in order.
LEMMA OthersRunOrder ==
  ASSUME NEW e \in Staff, Untouched(e), RunOrder(e)
  PROVE  RunOrder(e)'
BY DEF Untouched, RunOrder, Open

\* The order of a run, from the run alone.
Ordinary(run, waiting) ==
  /\ run.stage = "idle" => run = Idle
  /\ run.items # {} => run.stage = "read"
  /\ run.stage \in {"idle", "read", "notices"} => run.toFinish = {} /\ run.toBuild = {} /\ run.notice = 0
  /\ run.stage = "settle" <=> run.group # NoGroup
  /\ run.stage = "read" => run.todo \subseteq DOMAIN run.started
  /\ run.stage = "notices" => run.todo \subseteq waiting
  /\ run.notice # 0 => run.notice \in waiting /\ run.todo \subseteq waiting \ {run.notice}
  /\ \A g \in run.toFinish \cup ({run.group} \ {NoGroup}) : g.items # {}

\* The order of a run is a fact about the run and the queue of notices alone.
LEMMA RunOrderIs ==
  ASSUME NEW d
  PROVE  /\ RunOrder(d) <=> Ordinary(drain[d], noticeQueue[d])
         /\ RunOrder(d)' <=> Ordinary(drain'[d], noticeQueue'[d])
BY DEF RunOrder, Ordinary, Open

\* Each step of a run leaves it with the parts of its stage: records to read only when it
\* reads, a group only while it settles one.
LEMMA RunOrderKept ==
  ASSUME Shape, NEW d \in Staff, OwnChanges(d), RunOrder(d), Step(d)
  PROVE  RunOrder(d)'
<1> USE DEF storage, funds, memory
<1>run. drain[d] \in Run /\ drain \in [Staff -> Run] /\ Ordinary(drain[d], noticeQueue[d])
  BY RunOrderIs DEF Shape
<1> SUFFICES Ordinary(drain'[d], noticeQueue'[d])
  BY RunOrderIs
<1>same. CASE drain' = drain /\ noticeQueue' = noticeQueue
  BY <1>same, <1>run
<1>idle. Ordinary(Idle, noticeQueue'[d])
  BY DEF Ordinary, Idle, NoGroup
<1>4. CASE \E n \in DOMAIN changes : NoteEvent(d, n)
  <2>1. drain' = drain /\ noticeQueue[d] \subseteq noticeQueue'[d]
    BY <1>4 DEF NoteEvent, Shape
  <2> QED BY <2>1, <1>run DEF Ordinary
<1>6. CASE StartDrain(d)
  <2> DEFINE run == [Idle EXCEPT !.stage = "read", !.todo = queue[d], !.started = [c \in queue[d] |-> generation[d][c]]]
  <2>1. drain'[d] = run
    BY <1>6, <1>run DEF StartDrain
  <2>2. /\ run.stage = "read" /\ run.items = {} /\ run.toFinish = {} /\ run.toBuild = {} /\ run.notice = 0
        /\ run.group = NoGroup /\ run.todo = queue[d] /\ DOMAIN run.started = queue[d]
    BY DEF Idle
  <2> HIDE DEF run
  <2> QED BY <2>1, <2>2 DEF Ordinary
<1>7. CASE Read(d)
  <2>1. PICK c \in drain[d].todo :
          drain' = [drain EXCEPT ![d].todo = @ \ {c}, ![d].items = @ \cup {View(d, c)}]
    BY <1>7 DEF Read
  <2>2. drain'[d] = [drain[d] EXCEPT !.todo = @ \ {c}, !.items = @ \cup {View(d, c)}]
    BY <2>1, <1>run
  <2>3. drain[d].stage = "read" /\ noticeQueue' = noticeQueue
    BY <1>7 DEF Read
  <2> QED BY <1>run, <2>2, <2>3 DEF Ordinary, Run
<1>8. CASE Seal(d)
  <2> DEFINE sealed == drain[d].items \ {r \in drain[d].items : IsTooLarge(r)}
  <2>1. sealed \in SUBSET Record
    BY <1>run DEF Run
  <2>2. drain' = [drain EXCEPT ![d].stage = "publish", ![d].items = {},
                    ![d].toFinish = Groups(d, sealed), ![d].toBuild = sealed \ Built(d, sealed)]
    BY <1>8 DEF Seal
  <2> HIDE DEF sealed
  <2>3. drain'[d] = [drain[d] EXCEPT !.stage = "publish", !.items = {},
                       !.toFinish = Groups(d, sealed), !.toBuild = sealed \ Built(d, sealed)]
    BY <2>2, <1>run
  <2>4. \A g \in Groups(d, sealed) : g.items # {}
    BY <2>1, GroupsAreGroups
  <2>5. drain[d].stage = "read" /\ noticeQueue' = noticeQueue
    BY <1>8 DEF Seal
  <2> QED BY <1>run, <2>3, <2>4, <2>5 DEF Ordinary, Run
<1>9. CASE Build(d)
  <2>1. PICK batch \in Batches(drain[d].toBuild) :
          drain' = [drain EXCEPT ![d].toBuild = @ \ batch, ![d].toFinish = {[tx |-> built', items |-> batch]}]
    BY <1>9 DEF Build
  <2>2. batch # {}
    BY <2>1, FS_EmptySet DEF Batches
  <2>3. drain[d].stage = "publish" /\ noticeQueue' = noticeQueue
    BY <1>9 DEF Build, IsBuilding
  <2>4. drain'[d] = [drain[d] EXCEPT !.toBuild = @ \ batch, !.toFinish = {[tx |-> built', items |-> batch]}]
    BY <2>1, <1>run
  <2> QED BY <1>run, <2>2, <2>3, <2>4 DEF Ordinary, Run
<1>10. CASE BuildFails(d)
  <2>1. PICK batch \in Batches(drain[d].toBuild) : drain' = [drain EXCEPT ![d].toBuild = @ \ batch, ![d].failing = TRUE]
    BY <1>10 DEF BuildFails
  <2>2. drain[d].stage = "publish" /\ noticeQueue' = noticeQueue
    BY <1>10 DEF BuildFails, IsBuilding
  <2>3. drain'[d] = [drain[d] EXCEPT !.toBuild = @ \ batch, !.failing = TRUE]
    BY <2>1, <1>run
  <2> QED BY <1>run, <2>2, <2>3 DEF Ordinary, Run
<1>11. CASE Flush(d)
  <2>1. PICK group \in drain[d].toFinish :
          drain' = [drain EXCEPT ![d].stage = "settle", ![d].group = group, ![d].toFinish = @ \ {group}]
    BY <1>11 DEF Flush
  <2>2. drain[d].stage = "publish" /\ noticeQueue' = noticeQueue
    BY <1>11 DEF Flush
  <2>3. drain'[d] = [drain[d] EXCEPT !.stage = "settle", !.group = group, !.toFinish = @ \ {group}]
    BY <2>1, <1>run
  <2>4. group.items # {} /\ group # NoGroup
    BY <1>run, <2>1 DEF Ordinary, NoGroup
  <2> QED BY <1>run, <2>2, <2>3, <2>4 DEF Ordinary, Run
<1>12. CASE Finish(d)
  <2>1. PICK f \in BOOLEAN : drain' = [drain EXCEPT ![d].stage = "publish", ![d].group = NoGroup, ![d].failing = f]
    BY <1>12, <1>run DEF Finish, Run
  <2>2. drain[d].stage = "settle" /\ noticeQueue' = noticeQueue
    BY <1>12 DEF Finish
  <2>3. drain'[d] = [drain[d] EXCEPT !.stage = "publish", !.group = NoGroup, !.failing = f]
    BY <2>1, <1>run
  <2> QED BY <1>run, <2>2, <2>3 DEF Ordinary, Run
<1>14. CASE StartNotices(d)
  <2>1. /\ drain' = [drain EXCEPT ![d].stage = "notices", ![d].todo = noticeQueue[d]] /\ noticeQueue' = noticeQueue
        /\ drain[d].stage = "publish" /\ drain[d].toFinish = {} /\ drain[d].toBuild = {} /\ drain[d].notice = 0
    BY <1>14 DEF StartNotices, Published, IsBuilding
  <2>2. drain'[d] = [drain[d] EXCEPT !.stage = "notices", !.todo = noticeQueue[d]]
    BY <2>1, <1>run
  <2> QED BY <1>run, <2>1, <2>2 DEF Ordinary, Run
<1>15. CASE ReadNotice(d)
  <2>1. PICK n \in drain[d].todo :
          drain' = [drain EXCEPT ![d].stage = "publish", ![d].todo = @ \ {n}, ![d].notice = n, ![d].failing = FALSE,
                      ![d].toFinish = Groups(d, {Notice(n, a) : a \in Left(d, n)}),
                      ![d].toBuild = {Notice(n, a) : a \in Left(d, n)} \ Built(d, {Notice(n, a) : a \in Left(d, n)})]
    BY <1>15 DEF ReadNotice
  <2> DEFINE items == {Notice(n, a) : a \in Left(d, n)}
  <2>2. drain[d].stage = "notices" /\ noticeQueue' = noticeQueue /\ n \in noticeQueue[d]
    BY <1>15, <1>run, <2>1 DEF ReadNotice, Ordinary
  <2>3. items \in SUBSET Record
    BY <2>2, LeftAreRecords
  <2>4. drain'[d] = [drain[d] EXCEPT !.stage = "publish", !.todo = @ \ {n}, !.notice = n, !.failing = FALSE,
                       !.toFinish = Groups(d, items), !.toBuild = items \ Built(d, items)]
    BY <2>1, <1>run
  <2> HIDE DEF items
  <2>5. \A g \in Groups(d, items) : g.items # {}
    BY <2>3, GroupsAreGroups
  <2> QED BY <1>run, <2>2, <2>4, <2>5 DEF Ordinary, Run
<1>16. CASE EndNotice(d)
  <2>1. /\ drain'[d] = [drain[d] EXCEPT !.stage = "notices", !.notice = 0]
        /\ drain[d].stage = "publish" /\ drain[d].toFinish = {} /\ drain[d].toBuild = {} /\ drain[d].notice # 0
        /\ noticeQueue[d] \ {drain[d].notice} \subseteq noticeQueue'[d]
    BY <1>16, <1>run DEF EndNotice, Published, IsBuilding, Shape
  <2> QED BY <1>run, <2>1 DEF Ordinary, Run
<1>17. CASE EndDrain(d)
  BY <1>17, <1>run, <1>idle DEF EndDrain
<1>18. CASE Restart(d)
  BY <1>18, <1>run, <1>idle DEF Restart
<1>19. \/ \E n \in DOMAIN changes : NoteEvent(d, n)
       \/ DrainStep(d) \/ BuildFails(d) \/ Restart(d)
       \/ drain' = drain /\ noticeQueue' = noticeQueue
  BY DEF Step, Commit, PublishAll, Learn, Elapse, OtherFlush
<1> QED BY <1>same, <1>4, <1>6, <1>7, <1>8, <1>9, <1>10, <1>11, <1>12, <1>14, <1>15,
         <1>16, <1>17, <1>18, <1>19 DEF DrainStep

-----------------------------------------------------------------------------
(* What a run has in hand. *)

\* What a device has in hand, waiting or listed are records.
LEMMA InHandAreRecords ==
  ASSUME Shape, NEW d \in Staff
  PROVE  /\ InHand(d) \subseteq Record /\ Sealed(d) \subseteq Record /\ Open(d) \subseteq Group
         /\ \A tx \in wallet[d] : tx \in Tx /\ tx.records \subseteq Record
         /\ \A tx \in Listed : tx \in Tx /\ tx.records \subseteq Record
<1>1. drain[d] \in Run
  BY DEF Shape
<1>2. Open(d) \subseteq Group
  BY <1>1 DEF Open, Run
<1>3. Sealed(d) \subseteq Record
  BY <1>1, <1>2 DEF Sealed, Run, Group
<1>4. InHand(d) \subseteq Record
  BY <1>1, <1>3 DEF InHand, Run
<1>5. \A tx \in wallet[d] : tx \in Tx /\ tx.records \subseteq Record
  BY DEF Shape, Tx
<1>6. \A tx \in Listed : tx \in Tx /\ tx.records \subseteq Record
  <2>1. \A k \in DOMAIN chain : chain[k] \in Tx
    BY DEF Shape
  <2>2. \A tx \in Tx : tx.records \subseteq Record
    BY DEF Tx
  <2> QED BY <2>1, <2>2 DEF Listed
<1> QED BY <1>2, <1>3, <1>4, <1>5, <1>6

HandInv(d) == OneKind(d) /\ Truthful(d) /\ ReadIsNewer(d) /\ Fresh(d)

\* A step by which a run gets nothing new in hand.
HandShrinks(e) ==
  /\ noted'[e] = noted[e]
  /\ InHand(e)' \subseteq InHand(e)
  /\ \/ drain'[e].items = {}
     \/ drain'[e].items \subseteq drain[e].items /\ wallet'[e] \subseteq wallet[e]
  /\ \A tx \in wallet'[e] \ wallet[e] : tx.records \subseteq InHand(e)
  /\ \/ InHand(e)' = {} /\ \A c \in DOMAIN drain'[e].started : drain'[e].started[c] <= generation'[e][c]
     \/ /\ drain'[e].notice = drain[e].notice /\ drain'[e].started = drain[e].started
        /\ \A c \in Cadet : generation[e][c] <= generation'[e][c]

\* A device whose records in hand only became fewer keeps what holds of them.
LEMMA HandKept ==
  ASSUME Shape, Shape', Grows, NEW e \in Staff, OwnChanges(e), OwnChanges(e)', HandInv(e), HandShrinks(e)
  PROVE  HandInv(e)'
<1>records. InHand(e) \subseteq Record /\ \A tx \in wallet[e] : tx.records \subseteq Record
  BY InHandAreRecords
<1>from. \A r \in Record : From(e, r) => From(e, r)'
  BY FromStays
<1>1. OneKind(e)'
  BY DEF HandInv, HandShrinks, OneKind
<1>2. Truthful(e)'
  <2>1. ASSUME NEW r \in InHand(e)' PROVE From(e, r)'
    BY <1>records, <1>from, <2>1 DEF HandInv, HandShrinks, Truthful
  <2>2. ASSUME NEW tx \in wallet'[e], NEW r \in tx.records PROVE From(e, r)'
    <3>1. r \in Record /\ From(e, r)
      BY <1>records, <2>2 DEF HandInv, HandShrinks, Truthful
    <3> QED BY <3>1, <1>from
  <2> QED BY <2>1, <2>2 DEF Truthful
<1>3. ReadIsNewer(e)'
  BY DEF HandInv, HandShrinks, ReadIsNewer
<1>4. Fresh(e)'
  <2>1. CASE InHand(e)' = {} /\ \A c \in DOMAIN drain'[e].started : drain'[e].started[c] <= generation'[e][c]
    BY <2>1 DEF Fresh
  <2>2. CASE /\ drain'[e].notice = drain[e].notice /\ drain'[e].started = drain[e].started
             /\ \A c \in Cadet : generation[e][c] <= generation'[e][c]
    <3>1. /\ drain[e].started \in UNION {[S -> Nat] : S \in SUBSET Cadet}
          /\ generation[e] \in [Cadet -> Nat] /\ generation'[e] \in [Cadet -> Nat]
      BY DEF Shape, Run
    <3>2. ASSUME NEW c \in DOMAIN drain[e].started
          PROVE  /\ c \in Cadet /\ drain[e].started[c] <= generation'[e][c]
                 /\ generation'[e][c] = drain[e].started[c] => generation[e][c] = drain[e].started[c]
      <4>1. c \in Cadet /\ drain[e].started[c] \in Nat
        BY <3>1
      <4>2. drain[e].started[c] <= generation[e][c] /\ generation[e][c] <= generation'[e][c]
        BY <2>2, <4>1 DEF HandInv, Fresh
      <4>3. generation[e][c] \in Nat /\ generation'[e][c] \in Nat
        BY <3>1, <4>1
      <4> QED BY <4>1, <4>2, <4>3
    <3>3. ASSUME NEW r \in InHand(e)', r.kind = "view"
          PROVE  /\ r.cadet \in DOMAIN drain'[e].started
                 /\ generation'[e][r.cadet] = drain'[e].started[r.cadet] => Grasp(e, r.cadet)' \subseteq r.content
      <4>1. r \in InHand(e)
        BY <3>3 DEF HandShrinks
      <4>2. /\ r.cadet \in DOMAIN drain[e].started
            /\ generation[e][r.cadet] = drain[e].started[r.cadet] => Grasp(e, r.cadet) \subseteq r.content
        BY <3>3, <4>1 DEF HandInv, Fresh
      <4>3. Grasp(e, r.cadet)' = Grasp(e, r.cadet)
        BY GraspSame DEF HandShrinks
      <4> QED BY <2>2, <3>2, <4>2, <4>3
    <3> QED BY <2>2, <3>2, <3>3 DEF Fresh
  <2> QED BY <2>1, <2>2 DEF HandShrinks
<1> QED BY <1>1, <1>2, <1>3, <1>4 DEF HandInv

\* The records in hand of a device that does nothing are the same.
LEMMA OthersHand ==
  ASSUME Shape, NEW e \in Staff, Untouched(e)
  PROVE  HandShrinks(e)
<1>1. InHand(e)' = InHand(e)
  BY UntouchedIds
<1>2. \A c \in Cadet : generation[e][c] \in Nat
  BY DEF Shape
<1> QED BY <1>1, <1>2 DEF Untouched, HandShrinks

\* A run that goes on without anything new.
LEMMA SameHandShrinks ==
  ASSUME Shape, NEW d \in Staff, drain' = drain, noted' = noted, wallet'[d] \subseteq wallet[d],
         \A c \in Cadet : generation[d][c] <= generation'[d][c]
  PROVE  HandShrinks(d)
<1>1. InHand(d)' = InHand(d)
  BY DEF InHand, Sealed, Open
<1> QED BY <1>1 DEF HandShrinks

\* A run that ends, or one that begins.
LEMMA EmptyHandShrinks ==
  ASSUME NEW d \in Staff, noted' = noted, wallet' = wallet,
         drain'[d].items = {}, drain'[d].toBuild = {}, drain'[d].toFinish = {}, drain'[d].group = NoGroup,
         \A c \in DOMAIN drain'[d].started : drain'[d].started[c] <= generation'[d][c]
  PROVE  HandShrinks(d) /\ Open(d)' = {}
<1>1. Open(d)' = {}
  BY DEF Open
<1>2. InHand(d)' = {}
  BY <1>1 DEF InHand, Sealed
<1> QED BY <1>1, <1>2 DEF HandShrinks

\* A run that goes on with less.
LEMMA LessInHandShrinks ==
  ASSUME Shape, NEW d \in Staff, noted' = noted, generation' = generation, wallet'[d] \subseteq wallet[d],
         drain'[d].items = {}, drain'[d].toBuild \subseteq drain[d].toBuild, Open(d)' \subseteq Open(d),
         drain'[d].notice = drain[d].notice, drain'[d].started = drain[d].started
  PROVE  HandShrinks(d)
<1>1. Sealed(d)' \subseteq Sealed(d)
  BY DEF Sealed
<1>2. InHand(d)' \subseteq InHand(d)
  BY <1>1 DEF InHand
<1>3. \A c \in Cadet : generation[d][c] \in Nat
  BY DEF Shape
<1> QED BY <1>2, <1>3 DEF HandShrinks

\* Only noting, reading and the notices add to what a device has in hand, or to its view.
LEMMA HandShrinksWhen ==
  ASSUME Shape, NEW d \in Staff, OwnChanges(d), RunOrder(d), Step(d),
         ~ (\E n \in DOMAIN changes : NoteEvent(d, n)), ~ Read(d), ~ ReadNotice(d), ~ EndNotice(d)
  PROVE  HandShrinks(d)
<1> USE DEF storage, funds, memory
<1>run. drain[d] \in Run /\ drain \in [Staff -> Run] /\ \A c \in Cadet : generation[d][c] \in Nat
  BY DEF Shape
<1>open. Open(d) = drain[d].toFinish \cup ({drain[d].group} \ {NoGroup})
  BY DEF Open
<1>1. CASE Commit(d) \/ (\E n \in DOMAIN changes : Learn(d, n)) \/ Elapse(d)
  BY <1>1, <1>run, SameHandShrinks DEF Commit, Learn, Elapse
<1>2. CASE PublishAll(d)
  <2>1. \A c \in Cadet : generation'[d][c] = generation[d][c] + 1
    BY <1>2 DEF PublishAll, Shape
  <2> QED BY <1>2, <1>run, <2>1, SameHandShrinks DEF PublishAll
<1>3. CASE OtherFlush(d)
  <2>1. wallet'[d] \subseteq wallet[d]
    BY <1>3, OfferedWhenOffer DEF OtherFlush, Offered
  <2> QED BY <1>3, <1>run, <2>1, SameHandShrinks DEF OtherFlush
<1>4. CASE StartDrain(d)
  <2> DEFINE run == [Idle EXCEPT !.stage = "read", !.todo = queue[d], !.started = [c \in queue[d] |-> generation[d][c]]]
  <2>1. drain'[d] = run /\ noted' = noted /\ wallet' = wallet /\ generation' = generation
    BY <1>4, <1>run DEF StartDrain
  <2>2. /\ run.items = {} /\ run.toFinish = {} /\ run.toBuild = {} /\ run.group = NoGroup
        /\ run.started = [c \in queue[d] |-> generation[d][c]]
    BY DEF Idle
  <2> HIDE DEF run
  <2>3. queue[d] \subseteq Cadet
    BY DEF Shape
  <2> QED BY <1>run, <2>1, <2>2, <2>3, EmptyHandShrinks
<1>5. CASE EndDrain(d) \/ Restart(d)
  <2>1. drain'[d] = Idle /\ noted' = noted /\ wallet' = wallet
    BY <1>5, <1>run DEF EndDrain, Restart
  <2>2. Idle.items = {} /\ Idle.toFinish = {} /\ Idle.toBuild = {} /\ Idle.group = NoGroup /\ DOMAIN Idle.started = {}
    BY DEF Idle
  <2> QED BY <2>1, <2>2, EmptyHandShrinks
<1>6. CASE Seal(d)
  <2> DEFINE sealed == drain[d].items \ {r \in drain[d].items : IsTooLarge(r)}
  <2>1. sealed \in SUBSET Record
    BY <1>run DEF Run
  <2>2. drain' = [drain EXCEPT ![d].stage = "publish", ![d].items = {},
                    ![d].toFinish = Groups(d, sealed), ![d].toBuild = sealed \ Built(d, sealed)]
    BY <1>6 DEF Seal
  <2>3. sealed \subseteq InHand(d)
    BY DEF InHand
  <2> HIDE DEF sealed
  <2>4. /\ drain'[d].toFinish = Groups(d, sealed) /\ drain'[d].group = NoGroup /\ drain'[d].items = {}
        /\ drain'[d].toBuild = sealed \ Built(d, sealed)
        /\ drain'[d].notice = drain[d].notice /\ drain'[d].started = drain[d].started
    <3>1. drain[d].group = NoGroup
      BY <1>6, OpenIs DEF Seal
    <3> QED BY <1>run, <2>2, <3>1 DEF Run
  <2>5. Open(d)' = Groups(d, sealed)
    BY <2>4 DEF Open
  <2>6. \A g \in Groups(d, sealed) : g.items \subseteq sealed
    BY <2>1, GroupsAreGroups
  <2>7. InHand(d)' \subseteq sealed
    BY <2>4, <2>5, <2>6 DEF InHand, Sealed
  <2>8. noted' = noted /\ wallet' = wallet /\ generation' = generation
    BY <1>6 DEF Seal
  <2> QED BY <1>run, <2>3, <2>4, <2>7, <2>8 DEF HandShrinks
<1>7. CASE Build(d)
  <2>1. PICK batch \in Batches(drain[d].toBuild) :
          /\ wallet' = [wallet EXCEPT ![d] = @ \cup {[id |-> built', records |-> batch]}]
          /\ drain' = [drain EXCEPT ![d].toBuild = @ \ batch, ![d].toFinish = {[tx |-> built', items |-> batch]}]
    BY <1>7 DEF Build
  <2>2. batch \subseteq drain[d].toBuild
    BY <2>1 DEF Batches
  <2>3. /\ drain'[d].toBuild = drain[d].toBuild \ batch /\ drain'[d].toFinish = {[tx |-> built', items |-> batch]}
        /\ drain'[d].group = NoGroup /\ drain'[d].items = {}
        /\ drain'[d].notice = drain[d].notice /\ drain'[d].started = drain[d].started
    BY <1>7, <1>run, <2>1, OpenIs DEF Build, IsBuilding, Run
  <2>4. Open(d)' = {[tx |-> built', items |-> batch]}
    BY <2>3 DEF Open, NoGroup
  <2>5. Sealed(d)' \subseteq drain[d].toBuild
    BY <2>2, <2>3, <2>4 DEF Sealed
  <2>6. drain[d].toBuild \subseteq InHand(d) /\ InHand(d)' = Sealed(d)'
    BY <2>3 DEF InHand, Sealed
  <2>7. \A tx \in wallet'[d] \ wallet[d] : tx.records = batch
    BY <2>1 DEF Shape
  <2>8. noted' = noted /\ generation' = generation
    BY <1>7 DEF Build
  <2> QED BY <1>run, <2>2, <2>3, <2>5, <2>6, <2>7, <2>8 DEF HandShrinks
<1>8. CASE BuildFails(d)
  <2>1. PICK batch \in Batches(drain[d].toBuild) : drain' = [drain EXCEPT ![d].toBuild = @ \ batch, ![d].failing = TRUE]
    BY <1>8 DEF BuildFails
  <2>2. /\ drain'[d].toBuild = drain[d].toBuild \ batch /\ drain'[d].toFinish = drain[d].toFinish
        /\ drain'[d].group = drain[d].group /\ drain'[d].items = {}
        /\ drain'[d].notice = drain[d].notice /\ drain'[d].started = drain[d].started
    BY <1>8, <1>run, <2>1, OpenIs DEF BuildFails, IsBuilding, Run
  <2>3. Open(d)' = Open(d)
    BY <2>2 DEF Open
  <2> QED BY <1>8, <2>2, <2>3, LessInHandShrinks DEF BuildFails
<1>9. CASE Flush(d)
  <2>1. PICK group \in drain[d].toFinish :
          /\ drain' = [drain EXCEPT ![d].stage = "settle", ![d].group = group, ![d].toFinish = @ \ {group}]
          /\ LET mine == {tx \in wallet[d] : tx.id = group.tx} IN
             IF mine = {} THEN UNCHANGED <<wallet, accepted, chain, trouble>> ELSE \E tx \in mine : Offer(d, tx)
    BY <1>9 DEF Flush
  <2>2. wallet'[d] \subseteq wallet[d]
    BY <2>1, OfferedWhenOffer DEF Offered
  <2>3. /\ drain'[d].toBuild = drain[d].toBuild /\ drain'[d].toFinish = drain[d].toFinish \ {group}
        /\ drain'[d].group = group /\ drain'[d].items = {}
        /\ drain'[d].notice = drain[d].notice /\ drain'[d].started = drain[d].started
    BY <1>9, <1>run, <2>1, OpenIs DEF Flush, Run
  <2>4. Open(d)' \subseteq Open(d)
    BY <1>open, <2>1, <2>3 DEF Open
  <2> QED BY <1>9, <2>2, <2>3, <2>4, LessInHandShrinks DEF Flush
<1>10. CASE Finish(d)
  <2>1. PICK f \in BOOLEAN : drain' = [drain EXCEPT ![d].stage = "publish", ![d].group = NoGroup, ![d].failing = f]
    BY <1>10, <1>run DEF Finish, Run
  <2>2. /\ drain'[d].toBuild = drain[d].toBuild /\ drain'[d].toFinish = drain[d].toFinish
        /\ drain'[d].group = NoGroup /\ drain'[d].items = {}
        /\ drain'[d].notice = drain[d].notice /\ drain'[d].started = drain[d].started
    BY <1>10, <1>run, <2>1, OpenIs DEF Finish, Run
  <2>3. Open(d)' \subseteq Open(d)
    BY <2>2 DEF Open
  <2> QED BY <1>10, <2>2, <2>3, LessInHandShrinks DEF Finish
<1>11. CASE StartNotices(d)
  <2>1. drain' = [drain EXCEPT ![d].stage = "notices", ![d].todo = noticeQueue[d]]
    BY <1>11 DEF StartNotices
  <2>2. /\ drain'[d].toBuild = drain[d].toBuild /\ drain'[d].toFinish = drain[d].toFinish
        /\ drain'[d].group = drain[d].group /\ drain'[d].items = {}
        /\ drain'[d].notice = drain[d].notice /\ drain'[d].started = drain[d].started
    BY <1>11, <1>run, <2>1, OpenIs DEF StartNotices, Published, IsBuilding, Run
  <2>3. Open(d)' = Open(d)
    BY <2>2 DEF Open
  <2> QED BY <1>11, <2>2, <2>3, LessInHandShrinks DEF StartNotices
<1> QED BY <1>1, <1>2, <1>3, <1>4, <1>5, <1>6, <1>7, <1>8, <1>9, <1>10, <1>11 DEF Step, DrainStep

\* A change that is noted says nothing of the other cadets.
LEMMA NotedOfAnother ==
  ASSUME NEW d \in Staff, changes' = changes, NEW n \in DOMAIN changes, noted'[d] = noted[d] \cup {n}, NEW c,
         changes[n].kind = "NOTICE" \/ changes[n].cadet # c
  PROVE  NotedAbout(d, c)' = NotedAbout(d, c) /\ Grasp(d, c)' = Grasp(d, c)
<1>1. NotedAbout(d, c)' = NotedAbout(d, c)
  BY DEF NotedAbout, About
<1> DEFINE U == UNION {changes[m].sees : m \in NotedAbout(d, c)}
<1>2. U' = U
  BY <1>1
<1>3. Grasp(d, c) = About(noted[d] \cup U, c) /\ Grasp(d, c)' = About(noted[d] \cup U, c)'
  BY DEF Grasp
<1> HIDE DEF U
<1>4. About(noted[d] \cup U, c)' = About(noted[d] \cup U, c)
  BY <1>2 DEF About
<1> QED BY <1>1, <1>3, <1>4

\* A change noted during a run raises the generation, so that no record in hand counts as
\* fresh for that cadet.
LEMMA NoteEventHand ==
  ASSUME Shape, Shape', Grows, NEW d \in Staff, OwnChanges(d), OwnChanges(d)', HandInv(d),
         NEW n \in DOMAIN changes, NoteEvent(d, n)
  PROVE  HandInv(d)'
<1> USE DEF storage, funds, memory
<1>records. InHand(d) \subseteq Record /\ \A tx \in wallet[d] : tx.records \subseteq Record
  BY InHandAreRecords
<1>from. \A r \in Record : From(d, r) => From(d, r)'
  BY FromStays
<1>same. drain' = drain /\ wallet' = wallet /\ changes' = changes /\ noted'[d] = noted[d] \cup {n}
  BY DEF NoteEvent, Shape
<1>hand. InHand(d)' = InHand(d)
  BY <1>same DEF InHand, Sealed, Open
<1>1. OneKind(d)'
  BY <1>same, <1>hand DEF HandInv, OneKind
<1>2. Truthful(d)'
  BY <1>same, <1>hand, <1>records, <1>from DEF HandInv, Truthful
<1>3. ReadIsNewer(d)'
  BY <1>same DEF HandInv, ReadIsNewer
<1>4. ASSUME NEW c \in Cadet
      PROVE  /\ generation[d][c] \in Nat
             /\ \/ generation'[d][c] = generation[d][c] + 1
                \/ generation'[d][c] = generation[d][c] /\ Grasp(d, c)' = Grasp(d, c)
  <2>1. generation \in [Staff -> [Cadet -> Nat]]
    BY DEF Shape
  <2>2. CASE changes[n].kind = "NOTICE"
    <3>1. Grasp(d, c)' = Grasp(d, c)
      BY <1>same, <2>2, NotedOfAnother
    <3> QED BY <2>1, <2>2, <3>1 DEF NoteEvent
  <2>3. CASE changes[n].kind # "NOTICE"
    <3> DEFINE k == changes[n].cadet
    <3>1. generation' = [generation EXCEPT ![d] = [generation[d] EXCEPT ![k] = generation[d][k] + 1]]
      BY <2>3, Zenon DEF NoteEvent
    <3>2. k # c => Grasp(d, c)' = Grasp(d, c)
      BY <1>same, NotedOfAnother
    <3> HIDE DEF k
    <3>3. generation'[d] = [generation[d] EXCEPT ![k] = generation[d][k] + 1]
      BY <2>1, <3>1
    <3>4. generation'[d][c] = IF k = c THEN generation[d][k] + 1 ELSE generation[d][c]
      BY <2>1, <3>3
    <3> QED BY <2>1, <3>2, <3>4
  <2> QED BY <2>2, <2>3
<1>5. Fresh(d)'
  <2>1. drain[d].started \in UNION {[S -> Nat] : S \in SUBSET Cadet}
    BY DEF Shape, Run
  <2>2. \A c \in DOMAIN drain[d].started : c \in Cadet /\ drain[d].started[c] \in Nat
    BY <2>1
  <2>3. ASSUME NEW c \in DOMAIN drain[d].started PROVE drain[d].started[c] <= generation'[d][c]
    <3>1. drain[d].started[c] <= generation[d][c]
      BY DEF HandInv, Fresh
    <3> QED BY <1>4, <2>2, <3>1
  <2>4. ASSUME NEW r \in InHand(d), r.kind = "view"
        PROVE  /\ r.cadet \in DOMAIN drain[d].started
               /\ generation'[d][r.cadet] = drain[d].started[r.cadet] => Grasp(d, r.cadet)' \subseteq r.content
    <3>1. /\ r.cadet \in DOMAIN drain[d].started
          /\ generation[d][r.cadet] = drain[d].started[r.cadet] => Grasp(d, r.cadet) \subseteq r.content
      BY <2>4 DEF HandInv, Fresh
    <3>2. drain[d].started[r.cadet] <= generation[d][r.cadet]
      BY <3>1 DEF HandInv, Fresh
    <3>3. r.cadet \in Cadet /\ drain[d].started[r.cadet] \in Nat
      BY <2>2, <3>1
    <3>4. CASE generation'[d][r.cadet] = generation[d][r.cadet] + 1
      BY <1>4, <3>1, <3>2, <3>3, <3>4
    <3>5. CASE generation'[d][r.cadet] = generation[d][r.cadet] /\ Grasp(d, r.cadet)' = Grasp(d, r.cadet)
      BY <3>1, <3>5
    <3> QED BY <1>4, <3>3, <3>4, <3>5
  <2> QED BY <1>same, <1>hand, <2>3, <2>4 DEF Fresh
<1> QED BY <1>1, <1>2, <1>3, <1>5 DEF HandInv

\* The device knew what it noted, and what it knew when it made those changes.
LEMMA GraspIsKnown ==
  ASSUME Shape, NEW d \in Staff, OwnChanges(d), NEW c
  PROVE  Grasp(d, c) \subseteq viewFor(d, c) /\ NotedAbout(d, c) \subseteq Grasp(d, c)
<1> DEFINE U == UNION {changes[n].sees : n \in NotedAbout(d, c)}
<1>1. NotedAbout(d, c) \subseteq noted[d]
  BY DEF NotedAbout, About
<1>2. U \subseteq known[d] /\ noted[d] \subseteq known[d]
  BY <1>1 DEF OwnChanges
<1>3. Grasp(d, c) = About(noted[d] \cup U, c)
  BY DEF Grasp
<1> HIDE DEF U
<1> QED BY <1>2, <1>3 DEF About, viewFor, NotedAbout

\* The view that project() makes is a view of what the device knows.
LEMMA ViewIsOf ==
  ASSUME NEW d, NEW c
  PROVE  /\ ViewOf(d, View(d, c)) /\ From(d, View(d, c))
         /\ View(d, c).kind = "view" /\ View(d, c).cadet = c /\ View(d, c).content = viewFor(d, c)
BY DEF ViewOf, View, From, channelFor

\* What readQueued projects is fresh, and newer than all that waits.
LEMMA ReadHand ==
  ASSUME Shape, Shape', Grows, NEW d \in Staff, OwnChanges(d), OwnChanges(d)', RunOrder(d), HandInv(d), Read(d)
  PROVE  HandInv(d)'
<1> USE DEF storage, funds, memory
<1>run. drain[d] \in Run /\ drain \in [Staff -> Run]
  BY DEF Shape
<1>records. InHand(d) \subseteq Record /\ \A tx \in wallet[d] : tx.records \subseteq Record
  BY InHandAreRecords
<1>from. \A r \in Record : From(d, r) => From(d, r)'
  BY FromStays
<1>1. PICK c \in drain[d].todo : drain' = [drain EXCEPT ![d].todo = @ \ {c}, ![d].items = @ \cup {View(d, c)}]
  BY DEF Read
<1>same. changes' = changes /\ known' = known /\ noted' = noted /\ wallet' = wallet /\ generation' = generation
  BY DEF Read
<1>2. c \in DOMAIN drain[d].started /\ c \in Cadet /\ drain[d].notice = 0
  BY <1>run, <1>1 DEF Read, RunOrder, Run
<1> DEFINE new == View(d, c)
<1>3. /\ new \in Record /\ From(d, new) /\ new.kind = "view" /\ new.cadet = c /\ new.content = viewFor(d, c)
      /\ drain' = [drain EXCEPT ![d].todo = @ \ {c}, ![d].items = @ \cup {new}]
  BY <1>1, <1>2, ViewIsRecord, ViewIsOf
<1> HIDE DEF new
<1>4. /\ drain'[d].items = drain[d].items \cup {new} /\ drain'[d].toFinish = drain[d].toFinish
      /\ drain'[d].toBuild = drain[d].toBuild /\ drain'[d].group = drain[d].group
      /\ drain'[d].started = drain[d].started /\ drain'[d].notice = drain[d].notice
  BY <1>run, <1>3 DEF Run
<1>5. Sealed(d)' = Sealed(d)
  BY <1>4 DEF Sealed, Open
<1>6. InHand(d)' = InHand(d) \cup {new}
  BY <1>4, <1>5 DEF InHand
<1>7. OneKind(d)'
  BY <1>2, <1>3, <1>4, <1>6 DEF HandInv, OneKind
<1>8. Truthful(d)'
  BY <1>same, <1>3, <1>6, <1>records, <1>from DEF HandInv, Truthful
<1>9. ReadIsNewer(d)'
  <2>1. ASSUME NEW tx \in wallet[d], NEW s \in tx.records, s.kind = "view", s.cadet = c
        PROVE  s.content \subseteq new.content
    <3>1. From(d, s)
      BY <2>1 DEF HandInv, Truthful
    <3>2. ViewOf(d, s)
      BY <2>1, <3>1 DEF From, NoticeOf
    <3> QED BY <1>3, <2>1, <3>2 DEF ViewOf
  <2> QED BY <1>same, <1>3, <1>4, <2>1 DEF HandInv, ReadIsNewer
<1>10. Fresh(d)'
  <2>1. \A k : Grasp(d, k)' = Grasp(d, k)
    BY <1>same, GraspSame
  <2>2. Grasp(d, c) \subseteq new.content
    BY <1>3, GraspIsKnown
  <2>3. \A r \in InHand(d)' : r.kind = "view" =>
          /\ r.cadet \in DOMAIN drain[d].started
          /\ generation[d][r.cadet] = drain[d].started[r.cadet] => Grasp(d, r.cadet) \subseteq r.content
    BY <1>2, <1>3, <1>6, <2>2 DEF HandInv, Fresh
  <2>4. \A k \in DOMAIN drain[d].started : drain[d].started[k] <= generation[d][k]
    BY DEF HandInv, Fresh
  <2> QED BY <1>same, <1>4, <2>1, <2>3, <2>4 DEF Fresh
<1> QED BY <1>7, <1>8, <1>9, <1>10 DEF HandInv

\* What a notice is sent as is of the device.
LEMMA NoticeIsOf ==
  ASSUME Shape, NEW d \in Staff, OwnChanges(d), NEW n \in noticeQueue[d], NEW a \in Left(d, n)
  PROVE  /\ From(d, Notice(n, a)) /\ Notice(n, a).kind = "notice" /\ Notice(n, a).content = {n}
         /\ Notice(n, a).cadet = a[1] /\ Notice(n, a).address = a
<1>1. n \in noted[d] /\ changes[n].kind = "NOTICE"
  BY DEF OwnChanges
<1>2. PICK c \in AudienceOf(n) : a = channelFor(d, c)
  BY DEF Left, noticeFor
<1>3. a[1] = c /\ a[2] = Turns(d, c)
  BY <1>2 DEF channelFor, Turns
<1>4. c \in Cadet
  BY <1>2, LeftAreRecords
<1>5. Turns(d, c) \in Nat
  BY <1>4, ViewIsRecord DEF channelFor, Turns, Address
<1>6. /\ Notice(n, a).kind = "notice" /\ Notice(n, a).content = {n}
      /\ Notice(n, a).cadet = a[1] /\ Notice(n, a).address = a
  BY DEF Notice
<1>7. NoticeOf(d, Notice(n, a))
  BY <1>1, <1>2, <1>3, <1>5, <1>6 DEF NoticeOf
<1> QED BY <1>6, <1>7 DEF From

\* The copies of a notice are for those it is about, at the channels the device knows.
LEMMA ReadNoticeHand ==
  ASSUME Shape, Shape', Grows, NEW d \in Staff, OwnChanges(d), OwnChanges(d)', RunOrder(d), HandInv(d), ReadNotice(d)
  PROVE  HandInv(d)'
<1> USE DEF storage, funds, memory
<1>run. drain[d] \in Run /\ drain \in [Staff -> Run]
  BY DEF Shape
<1>records. \A tx \in wallet[d] : tx.records \subseteq Record
  BY InHandAreRecords
<1>from. \A r \in Record : From(d, r) => From(d, r)'
  BY FromStays
<1>1. PICK n \in drain[d].todo :
        drain' = [drain EXCEPT ![d].stage = "publish", ![d].todo = @ \ {n}, ![d].notice = n, ![d].failing = FALSE,
                    ![d].toFinish = Groups(d, {Notice(n, a) : a \in Left(d, n)}),
                    ![d].toBuild = {Notice(n, a) : a \in Left(d, n)} \ Built(d, {Notice(n, a) : a \in Left(d, n)})]
  BY DEF ReadNotice
<1>2. n \in noticeQueue[d] /\ drain[d].items = {} /\ drain[d].group = NoGroup
  BY <1>1, OpenIs DEF ReadNotice, RunOrder
<1>same. changes' = changes /\ known' = known /\ noted' = noted /\ wallet' = wallet /\ generation' = generation
  BY DEF ReadNotice
<1> DEFINE items == {Notice(n, a) : a \in Left(d, n)}
<1>3. items \in SUBSET Record /\ n # 0
  BY <1>2, LeftAreRecords DEF Shape, ChangesOK
<1>4. \A r \in items : From(d, r) /\ r.kind = "notice" /\ r.content = {n}
  BY <1>2, NoticeIsOf
<1>5. drain' = [drain EXCEPT ![d].stage = "publish", ![d].todo = @ \ {n}, ![d].notice = n, ![d].failing = FALSE,
                  ![d].toFinish = Groups(d, items), ![d].toBuild = items \ Built(d, items)]
  BY <1>1
<1> HIDE DEF items
<1>6. /\ drain'[d].items = {} /\ drain'[d].group = NoGroup /\ drain'[d].toFinish = Groups(d, items)
      /\ drain'[d].toBuild = items \ Built(d, items) /\ drain'[d].started = drain[d].started /\ drain'[d].notice = n
  BY <1>run, <1>2, <1>5 DEF Run
<1>7. Open(d)' = Groups(d, items)
  BY <1>6 DEF Open
<1>8. \A g \in Groups(d, items) : g.items \subseteq items
  BY <1>3, GroupsAreGroups
<1>9. InHand(d)' \subseteq items
  BY <1>6, <1>7, <1>8 DEF InHand, Sealed
<1>10. OneKind(d)'
  BY <1>3, <1>4, <1>6, <1>9 DEF OneKind
<1>11. Truthful(d)'
  BY <1>same, <1>3, <1>4, <1>9, <1>records, <1>from DEF HandInv, Truthful
<1>12. ReadIsNewer(d)'
  BY <1>6 DEF ReadIsNewer
<1>13. Fresh(d)'
  <2>1. \A r \in InHand(d)' : r.kind # "view"
    BY <1>4, <1>9
  <2>2. \A k \in DOMAIN drain[d].started : drain[d].started[k] <= generation[d][k]
    BY DEF HandInv, Fresh
  <2> QED BY <1>same, <1>6, <2>1, <2>2 DEF Fresh
<1> QED BY <1>10, <1>11, <1>12, <1>13 DEF HandInv

\* The end of a notice adds nothing to what is in hand.
LEMMA EndNoticeShrinks ==
  ASSUME Shape, NEW d \in Staff, RunOrder(d), HandInv(d), EndNotice(d)
  PROVE  HandShrinks(d)
<1>1. drain[d] \in Run /\ drain \in [Staff -> Run]
  BY DEF Shape
<1>2. /\ drain[d].stage = "publish" /\ drain[d].toFinish = {} /\ drain[d].toBuild = {}
      /\ drain' = [drain EXCEPT ![d].stage = "notices", ![d].notice = 0]
      /\ noted' = noted /\ wallet' = wallet /\ generation' = generation
  BY DEF EndNotice, Published, IsBuilding, funds
<1>3. drain[d].group = NoGroup /\ drain[d].items = {}
  BY <1>2, OpenIs
<1>4. /\ drain'[d].items = {} /\ drain'[d].group = NoGroup /\ drain'[d].toFinish = {} /\ drain'[d].toBuild = {}
      /\ drain'[d].started = drain[d].started
  BY <1>1, <1>2, <1>3 DEF Run
<1>5. \A c \in DOMAIN drain[d].started : drain[d].started[c] <= generation[d][c]
  BY DEF HandInv, Fresh
<1> QED BY <1>2, <1>4, <1>5, EmptyHandShrinks

\* Whatever the device does, what it has in hand stays true and fresh.
LEMMA StepKeepsHand ==
  ASSUME Shape, Shape', Grows, NEW d \in Staff, OwnChanges(d), OwnChanges(d)', RunOrder(d), HandInv(d), Step(d)
  PROVE  HandInv(d)'
<1>1. CASE \E n \in DOMAIN changes : NoteEvent(d, n)
  BY <1>1, NoteEventHand
<1>2. CASE Read(d)
  BY <1>2, ReadHand
<1>3. CASE ReadNotice(d)
  BY <1>3, ReadNoticeHand
<1>4. CASE EndNotice(d)
  BY <1>4, EndNoticeShrinks, HandKept
<1>5. CASE ~ (\E n \in DOMAIN changes : NoteEvent(d, n)) /\ ~ Read(d) /\ ~ ReadNotice(d) /\ ~ EndNotice(d)
  BY <1>5, HandShrinksWhen, HandKept
<1> QED BY <1>1, <1>2, <1>3, <1>4, <1>5

-----------------------------------------------------------------------------
(* The groups of a run have what is in their transactions. *)

\* The records, as one invariant.
RecordInv ==
  /\ Shape /\ OneOwner /\ ChainTruthful
  /\ \A d \in Staff : OwnChanges(d) /\ RunOrder(d) /\ HandInv(d) /\ GroupsSound(d) /\ Kept(d)

\* A record shows changes that were made.
LEMMA FromIsPast ==
  ASSUME NEW e \in Staff, OwnChanges(e), NEW r, From(e, r)
  PROVE  r.content \subseteq DOMAIN changes
BY DEF From, ViewOf, NoticeOf, viewFor, About, OwnChanges

\* So do all that are in hand, that wait, and that the network has or was taken to have.
LEMMA AllArePast ==
  ASSUME RecordInv
  PROVE  /\ \A e \in Staff : \A r \in InHand(e) : r.content \subseteq DOMAIN changes
         /\ \A e \in Staff : \A tx \in wallet[e] : \A r \in tx.records : r.content \subseteq DOMAIN changes
         /\ \A r \in OnChain \cup mistaken : r.content \subseteq DOMAIN changes
         /\ \A tx \in Listed : \A r \in tx.records : r.content \subseteq DOMAIN changes
<1>1. \A e \in Staff : \A r : From(e, r) => r.content \subseteq DOMAIN changes
  BY FromIsPast DEF RecordInv
<1>2. \A tx \in Listed : \A r \in tx.records : r \in OnChain
  BY DEF OnChain
<1> QED BY <1>1, <1>2 DEF RecordInv, HandInv, Truthful, ChainTruthful

\* What such a record shows does not change.
LEMMA ShowsStays ==
  ASSUME Grows, NEW r, r.content \subseteq DOMAIN changes
  PROVE  Shows(r)' = Shows(r)
BY DEF Grows, Shows, Rotations

LEMMA AlikeStays ==
  ASSUME Grows, NEW r, NEW s, r.content \subseteq DOMAIN changes, s.content \subseteq DOMAIN changes
  PROVE  /\ Alike(s, r) => Alike(s, r)'
         /\ StandsFor(s, r) => StandsFor(s, r)'
<1>1. Shows(r)' = Shows(r) /\ Shows(s)' = Shows(s)
  BY ShowsStays
<1> QED BY <1>1 DEF Alike, StandsFor, Grows

LEMMA WithinStays ==
  ASSUME Grows, NEW items, NEW tx, \A r \in items \cup tx.records : r.content \subseteq DOMAIN changes, Within(items, tx)
  PROVE  Within(items, tx)'
BY AlikeStays DEF Within

\* Another device's step leaves a group with its transaction.
LEMMA OthersGroupsSound ==
  ASSUME RecordInv, NEW d \in Staff, Touches(d), NEW e \in Staff \ {d}
  PROVE  GroupsSound(e)'
<1>1. Open(e)' = Open(e) /\ wallet'[e] = wallet[e]
  BY UntouchedIds DEF Touches, Untouched
<1>2. Listed' \subseteq Listed \cup wallet[d]
  BY DEF Touches, Builds, Spends
<1>3. ASSUME NEW g \in Open(e), NEW tx \in wallet[d] PROVE tx.id # g.tx
  <2>1. g.tx \in Ids(e) /\ tx.id \in Ids(d)
    BY DEF Ids
  <2> QED BY <2>1 DEF RecordInv, OneOwner
<1>4. ASSUME NEW g \in Open(e), NEW tx \in wallet[e] \cup Listed, tx.id = g.tx PROVE Within(g.items, tx)'
  <2>1. Within(g.items, tx)
    BY <1>4 DEF RecordInv, GroupsSound
  <2>2. g.items \subseteq InHand(e)
    BY DEF InHand, Sealed
  <2>3. \A r \in g.items \cup tx.records : r.content \subseteq DOMAIN changes
    BY <2>2, AllArePast
  <2> QED BY <2>1, <2>3, WithinStays DEF Touches
<1> QED BY <1>1, <1>2, <1>3, <1>4 DEF GroupsSound

\* A group keeps its transaction when that goes from waiting to listed.
LEMMA SpendsGroupsSound ==
  ASSUME RecordInv, Grows, NEW d \in Staff, Spends(d), Open(d)' \subseteq Open(d)
  PROVE  GroupsSound(d)'
<1>1. wallet'[d] \subseteq wallet[d] /\ Listed' \subseteq Listed \cup wallet[d]
  BY DEF Spends
<1>2. ASSUME NEW g \in Open(d), NEW tx \in wallet[d] \cup Listed, tx.id = g.tx PROVE Within(g.items, tx)'
  <2>1. Within(g.items, tx)
    BY <1>2 DEF RecordInv, GroupsSound
  <2>2. g.items \subseteq InHand(d)
    BY DEF InHand, Sealed
  <2>3. \A r \in g.items \cup tx.records : r.content \subseteq DOMAIN changes
    BY <2>2, AllArePast
  <2> QED BY <2>1, <2>3, WithinStays
<1> QED BY <1>1, <1>2 DEF GroupsSound

\* A record that the wallet has built already is finished by the transaction that has it, or
\* one that shows the same.
LEMMA GroupsAreInTheirs ==
  ASSUME Shape, OneOwner, NEW d \in Staff, OwnChanges(d), Truthful(d),
         NEW items \in SUBSET Record, \A r \in items : From(d, r),
         \A r \in items : \A tx \in wallet[d] : \A s \in tx.records :
           s.kind = "view" /\ r.kind = "view" /\ s.cadet = r.cadet => s.content \subseteq r.content,
         NEW g \in Groups(d, items), NEW tx \in wallet[d] \cup Listed, tx.id = g.tx
  PROVE  tx \in wallet[d] /\ Within(g.items, tx)
<1>1. g.items # {} /\ g.items \subseteq items /\ \A r \in g.items : \E u \in Carriers(d, r) : g.tx = u.id
  BY GroupsAreGroups
<1>2. ASSUME NEW r \in g.items PROVE tx \in wallet[d] /\ \E s \in tx.records : Alike(s, r)
  <2>1. PICK u \in Carriers(d, r) : g.tx = u.id
    BY <1>1, <1>2
  <2>2. u \in wallet[d] /\ Correlation(r) \in {Correlation(s) : s \in u.records}
    BY <2>1 DEF Carriers
  <2>3. tx = u
    BY <2>1, <2>2, OneOfItsNumber
  <2>4. PICK s \in u.records : Correlation(r) = Correlation(s)
    BY <2>2
  <2>5. r \in Record /\ s \in Record /\ r \in items
    BY <1>1, <1>2, <2>2, InHandAreRecords
  <2>6. From(d, r) /\ From(d, s)
    BY <2>2, <2>5 DEF Truthful
  <2>7. s.kind = "view" /\ r.kind = "view" /\ s.cadet = r.cadet => s.content \subseteq r.content
    BY <2>2, <2>5
  <2>8. Alike(s, r)
    BY <2>4, <2>5, <2>6, <2>7, SameRecord
  <2> QED BY <2>2, <2>3, <2>8
<1> QED BY <1>1, <1>2 DEF Within

\* seal() splits the views that fit into groups that were built before and views to build.
LEMMA SealGroups ==
  ASSUME Shape, NEW d \in Staff, RunOrder(d), Seal(d)
  PROVE  \E sealed \in SUBSET Record :
           /\ sealed = {r \in drain[d].items : ~ IsTooLarge(r)}
           /\ Open(d)' = Groups(d, sealed) /\ drain'[d].toBuild = sealed \ Built(d, sealed)
<1> DEFINE sealed == drain[d].items \ {r \in drain[d].items : IsTooLarge(r)}
<1>run. drain[d] \in Run /\ drain \in [Staff -> Run]
  BY DEF Shape
<1>1. sealed \in SUBSET Record /\ sealed = {r \in drain[d].items : ~ IsTooLarge(r)}
  BY <1>run DEF Run
<1>2. drain' = [drain EXCEPT ![d].stage = "publish", ![d].items = {},
                  ![d].toFinish = Groups(d, sealed), ![d].toBuild = sealed \ Built(d, sealed)]
  BY DEF Seal
<1>3. drain[d].group = NoGroup
  BY OpenIs DEF Seal
<1> HIDE DEF sealed
<1>4. /\ drain'[d].toFinish = Groups(d, sealed) /\ drain'[d].group = NoGroup
      /\ drain'[d].toBuild = sealed \ Built(d, sealed)
  BY <1>run, <1>2, <1>3 DEF Run
<1>5. Open(d)' = Groups(d, sealed)
  BY <1>4 DEF Open
<1> QED BY <1>1, <1>4, <1>5

\* For a notice the same is done with the copies that are left to send.
LEMMA ReadNoticeGroups ==
  ASSUME Shape, NEW d \in Staff, OwnChanges(d), RunOrder(d), ReadNotice(d)
  PROVE  \E n \in noticeQueue[d] : \E items \in SUBSET Record :
           /\ items = {Notice(n, a) : a \in Left(d, n)}
           /\ drain'[d].notice = n /\ drain'[d].failing = FALSE
           /\ Open(d)' = Groups(d, items) /\ drain'[d].toBuild = items \ Built(d, items)
<1>run. drain[d] \in Run /\ drain \in [Staff -> Run]
  BY DEF Shape
<1>1. PICK n \in drain[d].todo :
        drain' = [drain EXCEPT ![d].stage = "publish", ![d].todo = @ \ {n}, ![d].notice = n, ![d].failing = FALSE,
                    ![d].toFinish = Groups(d, {Notice(n, a) : a \in Left(d, n)}),
                    ![d].toBuild = {Notice(n, a) : a \in Left(d, n)} \ Built(d, {Notice(n, a) : a \in Left(d, n)})]
  BY DEF ReadNotice
<1>2. n \in noticeQueue[d] /\ drain[d].group = NoGroup
  BY <1>1, OpenIs DEF ReadNotice, RunOrder
<1> DEFINE items == {Notice(n, a) : a \in Left(d, n)}
<1>3. items \in SUBSET Record /\ items = {Notice(n, a) : a \in Left(d, n)}
  BY <1>2, LeftAreRecords
<1>4. drain' = [drain EXCEPT ![d].stage = "publish", ![d].todo = @ \ {n}, ![d].notice = n, ![d].failing = FALSE,
                  ![d].toFinish = Groups(d, items), ![d].toBuild = items \ Built(d, items)]
  BY <1>1
<1> HIDE DEF items
<1>5. /\ drain'[d].toFinish = Groups(d, items) /\ drain'[d].group = NoGroup
      /\ drain'[d].toBuild = items \ Built(d, items) /\ drain'[d].notice = n /\ drain'[d].failing = FALSE
  BY <1>run, <1>2, <1>4 DEF Run
<1>6. Open(d)' = Groups(d, items)
  BY <1>5 DEF Open
<1> QED BY <1>2, <1>3, <1>5, <1>6

\* One batch of what is to build becomes one new waiting transaction and its group.
LEMMA BuildGroups ==
  ASSUME Shape, NEW d \in Staff, RunOrder(d), Build(d)
  PROVE  \E batch \in SUBSET drain[d].toBuild :
           /\ wallet'[d] = wallet[d] \cup {[id |-> built', records |-> batch]}
           /\ Open(d)' = {[tx |-> built', items |-> batch]}
           /\ drain'[d].toBuild = drain[d].toBuild \ batch
<1>run. drain[d] \in Run /\ drain \in [Staff -> Run]
  BY DEF Shape
<1>1. PICK batch \in Batches(drain[d].toBuild) :
        /\ wallet' = [wallet EXCEPT ![d] = @ \cup {[id |-> built', records |-> batch]}]
        /\ drain' = [drain EXCEPT ![d].toBuild = @ \ batch, ![d].toFinish = {[tx |-> built', items |-> batch]}]
  BY DEF Build
<1>2. batch \in SUBSET drain[d].toBuild
  BY <1>1 DEF Batches
<1>3. drain[d].group = NoGroup
  BY OpenIs DEF Build, IsBuilding
<1>4. /\ drain'[d].toBuild = drain[d].toBuild \ batch /\ drain'[d].toFinish = {[tx |-> built', items |-> batch]}
      /\ drain'[d].group = NoGroup
  BY <1>run, <1>1, <1>3 DEF Run
<1>5. Open(d)' = {[tx |-> built', items |-> batch]}
  BY <1>4 DEF Open, NoGroup
<1>6. wallet'[d] = wallet[d] \cup {[id |-> built', records |-> batch]}
  BY <1>1 DEF Shape
<1> QED BY <1>2, <1>4, <1>5, <1>6

\* In every other step no group of the run is new, and the wallet builds nothing.
LEMMA OpenShrinksWhen ==
  ASSUME Shape, NEW d \in Staff, RunOrder(d), Step(d), ~ Seal(d), ~ ReadNotice(d), ~ Build(d)
  PROVE  Open(d)' \subseteq Open(d) /\ drain'[d].toBuild \subseteq drain[d].toBuild /\ built' = built
<1> USE DEF storage, funds, memory
<1>run. drain[d] \in Run /\ drain \in [Staff -> Run]
  BY DEF Shape
<1>same. CASE drain' = drain /\ built' = built
  BY <1>same DEF Open
<1>empty. ASSUME drain'[d].toFinish = {}, drain'[d].group = NoGroup, drain'[d].toBuild = {}
          PROVE  Open(d)' \subseteq Open(d) /\ drain'[d].toBuild \subseteq drain[d].toBuild
  BY <1>empty DEF Open
<1>kept. ASSUME drain'[d].toFinish = drain[d].toFinish, drain'[d].group \in {drain[d].group, NoGroup},
                drain'[d].toBuild \subseteq drain[d].toBuild
         PROVE  Open(d)' \subseteq Open(d) /\ drain'[d].toBuild \subseteq drain[d].toBuild
  BY <1>kept DEF Open
<1>1. CASE StartDrain(d)
  <2>1. drain'[d].toFinish = {} /\ drain'[d].group = NoGroup /\ drain'[d].toBuild = {} /\ built' = built
    BY <1>1, <1>run DEF StartDrain, Idle
  <2> QED BY <1>empty, <2>1
<1>8. CASE EndDrain(d) \/ Restart(d)
  <2>1. drain'[d] = Idle /\ built' = built
    BY <1>8, <1>run DEF EndDrain, Restart
  <2>2. Idle.toFinish = {} /\ Idle.group = NoGroup /\ Idle.toBuild = {}
    BY DEF Idle
  <2> QED BY <1>empty, <2>1, <2>2
<1>2. CASE Read(d)
  <2>1. /\ drain'[d].toFinish = drain[d].toFinish /\ drain'[d].group = drain[d].group
        /\ drain'[d].toBuild = drain[d].toBuild /\ built' = built
    BY <1>2, <1>run DEF Read, Run
  <2> QED BY <1>kept, <2>1
<1>3. CASE BuildFails(d)
  <2>1. /\ drain'[d].toFinish = drain[d].toFinish /\ drain'[d].group = drain[d].group
        /\ drain'[d].toBuild \subseteq drain[d].toBuild /\ built' = built
    BY <1>3, <1>run DEF BuildFails, Run
  <2> QED BY <1>kept, <2>1
<1>4. CASE Flush(d)
  <2>1. PICK group \in drain[d].toFinish :
          drain' = [drain EXCEPT ![d].stage = "settle", ![d].group = group, ![d].toFinish = @ \ {group}]
    BY <1>4 DEF Flush
  <2>2. drain'[d].toFinish = drain[d].toFinish \ {group} /\ drain'[d].group = group /\ drain'[d].toBuild = drain[d].toBuild
    BY <1>run, <2>1 DEF Run
  <2>3. Open(d)' \subseteq Open(d)
    BY <2>1, <2>2 DEF Open
  <2> QED BY <1>4, <2>2, <2>3 DEF Flush
<1>5. CASE Finish(d)
  <2>1. /\ drain'[d].toFinish = drain[d].toFinish /\ drain'[d].group = NoGroup
        /\ drain'[d].toBuild = drain[d].toBuild /\ built' = built
    BY <1>5, <1>run DEF Finish, Run
  <2> QED BY <1>kept, <2>1
<1>6. CASE StartNotices(d) \/ EndNotice(d)
  <2>1. /\ drain'[d].toFinish = drain[d].toFinish /\ drain'[d].group = drain[d].group
        /\ drain'[d].toBuild = drain[d].toBuild /\ built' = built
    BY <1>6, <1>run DEF StartNotices, EndNotice, Run
  <2> QED BY <1>kept, <2>1
<1>7. CASE Commit(d) \/ PublishAll(d) \/ (\E n \in DOMAIN changes : Learn(d, n) \/ NoteEvent(d, n))
           \/ Elapse(d) \/ OtherFlush(d)
  BY <1>7, <1>same DEF Commit, PublishAll, Learn, NoteEvent, Elapse, OtherFlush
<1> QED BY <1>1, <1>2, <1>3, <1>4, <1>5, <1>6, <1>7, <1>8 DEF Step, DrainStep

\* The records of a group are in the transaction it looks for, after any step.
LEMMA GroupsSoundKept ==
  ASSUME RecordInv, NEW d \in Staff, Step(d), Touches(d)
  PROVE  GroupsSound(d)'
<1>inv. Shape /\ OneOwner /\ OwnChanges(d) /\ RunOrder(d) /\ HandInv(d)
  BY DEF RecordInv
<1>same. changes' = changes => \A items, tx : Within(items, tx) => Within(items, tx)'
  BY DEF Within, Alike, Shows, Rotations
<1>1. CASE Seal(d)
  <2>1. PICK sealed \in SUBSET Record :
          sealed = {r \in drain[d].items : ~ IsTooLarge(r)} /\ Open(d)' = Groups(d, sealed)
    BY <1>1, <1>inv, SealGroups
  <2>2. \A r \in sealed : From(d, r)
    BY <1>inv, <2>1 DEF HandInv, Truthful, InHand
  <2>3. \A r \in sealed : \A tx \in wallet[d] : \A s \in tx.records :
          s.kind = "view" /\ r.kind = "view" /\ s.cadet = r.cadet => s.content \subseteq r.content
    BY <1>inv, <2>1 DEF HandInv, ReadIsNewer
  <2>4. wallet' = wallet /\ Listed' = Listed /\ changes' = changes
    BY <1>1 DEF Seal, funds, Listed
  <2>5. \A g \in Groups(d, sealed) : \A tx \in wallet[d] \cup Listed : tx.id = g.tx => Within(g.items, tx)
    BY <1>inv, <2>2, <2>3, GroupsAreInTheirs DEF HandInv
  <2> QED BY <1>same, <2>1, <2>4, <2>5 DEF GroupsSound
<1>2. CASE ReadNotice(d)
  <2>1. PICK n \in noticeQueue[d], items \in SUBSET Record :
          items = {Notice(n, a) : a \in Left(d, n)} /\ Open(d)' = Groups(d, items)
    BY <1>2, <1>inv, ReadNoticeGroups
  <2>2. \A r \in items : From(d, r) /\ r.kind = "notice"
    BY <1>inv, <2>1, NoticeIsOf
  <2>3. \A r \in items : \A tx \in wallet[d] : \A s \in tx.records :
          s.kind = "view" /\ r.kind = "view" /\ s.cadet = r.cadet => s.content \subseteq r.content
    BY <2>2
  <2>4. wallet' = wallet /\ Listed' = Listed /\ changes' = changes
    <3>1. wallet' = wallet /\ chain' = chain /\ changes' = changes
      BY <1>2 DEF ReadNotice, funds
    <3> QED BY <3>1 DEF Listed
  <2>5. \A g \in Groups(d, items) : \A tx \in wallet[d] \cup Listed : tx.id = g.tx => Within(g.items, tx)
    BY <1>inv, <2>2, <2>3, GroupsAreInTheirs DEF HandInv
  <2> QED BY <1>same, <2>1, <2>4, <2>5 DEF GroupsSound
<1>3. CASE Build(d)
  <2>1. PICK batch \in SUBSET drain[d].toBuild :
          /\ wallet'[d] = wallet[d] \cup {[id |-> built', records |-> batch]}
          /\ Open(d)' = {[tx |-> built', items |-> batch]}
    BY <1>3, <1>inv, BuildGroups
  <2>2. built' = built + 1 /\ built \in Nat /\ Listed' = Listed
    BY <1>3, <1>inv DEF Build, Shape, Listed
  <2>3. \A tx \in wallet[d] \cup Listed : tx.id # built'
    BY <1>inv, <2>2, WaitingIsOwn DEF OneOwner
  <2>4. ASSUME NEW tx \in wallet'[d] \cup Listed', tx.id = built' PROVE Within(batch, tx)'
    <3>1. tx.records = batch
      BY <2>1, <2>2, <2>3, <2>4
    <3> QED BY <3>1 DEF Within, Alike
  <2> QED BY <2>1, <2>4 DEF GroupsSound
<1>4. CASE ~ Seal(d) /\ ~ ReadNotice(d) /\ ~ Build(d)
  <2>1. Open(d)' \subseteq Open(d) /\ built' = built
    BY <1>4, <1>inv, OpenShrinksWhen
  <2>2. Spends(d)
    BY <1>inv, <2>1 DEF Touches, Builds, Shape
  <2> QED BY <2>1, <2>2, SpendsGroupsSound DEF Touches
<1> QED BY <1>1, <1>2, <1>3, <1>4

-----------------------------------------------------------------------------
(* A cadet leaves the queue with a record. *)

\* The records of a listed transaction are on the chain.
LEMMA ListedAreOnChain ==
  ASSUME NEW tx \in Listed, NEW r \in tx.records
  PROVE  r \in OnChain
BY DEF OnChain

\* The network loses nothing.
LEMMA OnChainGrows ==
  ASSUME Grows
  PROVE  OnChain \subseteq OnChain'
BY DEF Grows, OnChain

\* What a finished group had is listed.
LEMMA FinishedIsListed ==
  ASSUME OneOwner, NEW d \in Staff, RunOrder(d), GroupsSound(d), drain[d].stage = "settle"
  PROVE  /\ drain[d].group \in Open(d) /\ drain[d].group.items \subseteq InHand(d)
         /\ drain[d].group.items \subseteq Sealed(d)
         /\ drain[d].group.tx \in accepted =>
              \E tx \in Listed : tx.id = drain[d].group.tx /\ Within(drain[d].group.items, tx)
<1>1. drain[d].group \in Open(d)
  BY DEF RunOrder, Open
<1>2. drain[d].group.items \subseteq Sealed(d)
  BY <1>1 DEF Sealed
<1>3. ASSUME drain[d].group.tx \in accepted
      PROVE  \E tx \in Listed : tx.id = drain[d].group.tx /\ Within(drain[d].group.items, tx)
  <2>1. PICK tx \in Listed : tx.id = drain[d].group.tx
    BY <1>3 DEF OneOwner
  <2>2. Within(drain[d].group.items, tx)
    BY <1>1, <2>1 DEF GroupsSound
  <2> QED BY <2>1, <2>2
<1> QED BY <1>1, <1>2, <1>3 DEF InHand

\* Of a finished notice each copy is on the chain itself.
LEMMA FinishedCopies ==
  ASSUME OneOwner, NEW d \in Staff, RunOrder(d), GroupsSound(d), drain[d].stage = "settle",
         drain[d].group.tx \in accepted, NEW r \in drain[d].group.items, r.kind = "notice"
  PROVE  r \in OnChain
<1>1. PICK tx \in Listed : Within(drain[d].group.items, tx)
  BY FinishedIsListed
<1>2. r \in tx.records
  BY <1>1 DEF Within, Alike
<1> QED BY <1>1, <1>2, ListedAreOnChain

\* A record with all that the device knew stays listed, or another one in its place.
LEMMA HeldStays ==
  ASSUME RecordInv, Grows, NEW e \in Staff, noted'[e] = noted[e], NEW c, Held(e, c)
  PROVE  Held(e, c)'
<1>1. PICK r \in OnChain : \E m \in mistaken \cup {r} : StandsFor(r, m) /\ Grasp(e, c) \subseteq m.content
  BY DEF Held
<1>2. PICK m \in mistaken \cup {r} : StandsFor(r, m) /\ Grasp(e, c) \subseteq m.content
  BY <1>1
<1>3. r.content \subseteq DOMAIN changes /\ m.content \subseteq DOMAIN changes
  BY <1>1, <1>2, AllArePast
<1>4. StandsFor(r, m)'
  BY <1>2, <1>3, AlikeStays
<1>5. Grasp(e, c)' = Grasp(e, c)
  BY GraspSame DEF RecordInv
<1>6. r \in OnChain' /\ m \in mistaken' \cup {r}
  BY <1>1, <1>2, OnChainGrows DEF Grows
<1> QED BY <1>2, <1>4, <1>5, <1>6 DEF Held

\* What a device noted stays kept when a cadet leaves the queue only for a record that
\* holds it, or for a refused one.
LEMMA KeptWhen ==
  ASSUME RecordInv, Grows, NEW e \in Staff, noted'[e] = noted[e],
         \A c \in queue[e] \ queue'[e] : Held(e, c)' \/ \E r \in refused' : r.cadet = c
  PROVE  Kept(e)'
<1>1. \A c \in Cadet : NotedAbout(e, c)' = NotedAbout(e, c)
  BY GraspSame DEF RecordInv
<1>2. refused \subseteq refused'
  BY DEF Grows
<1>3. ASSUME NEW c \in Cadet, NotedAbout(e, c)' # {}
      PROVE  c \in queue'[e] \/ Held(e, c)' \/ \E r \in refused' : r.cadet = c
  <2>1. c \in queue[e] \/ Held(e, c) \/ \E r \in refused : r.cadet = c
    BY <1>1, <1>3 DEF RecordInv, Kept
  <2>2. Held(e, c) => Held(e, c)'
    BY HeldStays
  <2> QED BY <1>2, <2>1, <2>2
<1> QED BY <1>3 DEF Kept

\* finishPublished lets a cadet out of the queue only when nothing was noted since, and the
\* drain only when its record was refused: so every step keeps what was noted.
LEMMA KeptByStep ==
  ASSUME RecordInv, Grows, NEW d \in Staff, Step(d)
  PROVE  Kept(d)'
<1> USE DEF storage, funds, memory
<1>inv. Shape /\ OneOwner /\ OwnChanges(d) /\ RunOrder(d) /\ HandInv(d) /\ GroupsSound(d) /\ Kept(d)
  BY DEF RecordInv
<1>1. CASE \E n \in DOMAIN changes : NoteEvent(d, n)
  <2>1. PICK n \in DOMAIN changes : NoteEvent(d, n)
    BY <1>1
  <2>2. changes' = changes /\ noted'[d] = noted[d] \cup {n} /\ refused' = refused /\ OnChain' = OnChain /\ mistaken' = mistaken
    BY <1>inv, <2>1 DEF NoteEvent, Shape, OnChain, Listed
  <2>3. queue[d] \subseteq queue'[d] /\ (changes[n].kind # "NOTICE" => changes[n].cadet \in queue'[d])
    BY <1>inv, <2>1 DEF NoteEvent, Shape
  <2>4. ASSUME NEW c \in Cadet, NotedAbout(d, c)' # {}
        PROVE  c \in queue'[d] \/ Held(d, c)' \/ \E r \in refused' : r.cadet = c
    <3>1. CASE changes[n].kind # "NOTICE" /\ changes[n].cadet = c
      BY <2>3, <3>1
    <3>2. CASE changes[n].kind = "NOTICE" \/ changes[n].cadet # c
      <4>1. NotedAbout(d, c)' = NotedAbout(d, c) /\ Grasp(d, c)' = Grasp(d, c)
        BY <1>inv, <2>2, <3>2, NotedOfAnother
      <4>2. c \in queue[d] \/ Held(d, c) \/ \E r \in refused : r.cadet = c
        BY <1>inv, <2>4, <4>1 DEF Kept
      <4>3. Held(d, c) => Held(d, c)'
        BY <2>2, <4>1 DEF Held, StandsFor, Shows, Rotations
      <4> QED BY <2>2, <2>3, <4>2, <4>3
    <3> QED BY <3>1, <3>2
  <2> QED BY <2>4 DEF Kept
<1>2. CASE Seal(d)
  <2>1. noted' = noted
    BY <1>2 DEF Seal
  <2>2. ASSUME NEW c \in queue[d] \ queue'[d] PROVE \E r \in refused' : r.cadet = c
    <3> DEFINE large == {r \in drain[d].items : IsTooLarge(r)}
    <3>1. queue' = [queue EXCEPT ![d] = @ \ {r.cadet : r \in large}] /\ refused' = refused \cup large
      BY <1>2 DEF Seal
    <3> HIDE DEF large
    <3>2. queue'[d] = queue[d] \ {r.cadet : r \in large}
      BY <1>inv, <3>1 DEF Shape
    <3> QED BY <2>2, <3>1, <3>2
  <2> QED BY <2>1, <2>2, KeptWhen
<1>3. CASE Finish(d)
  <2>1. noted' = noted
    BY <1>3 DEF Finish
  <2>2. ASSUME NEW c \in queue[d] \ queue'[d]
        PROVE  Held(d, c)'
    <3> DEFINE sent == IF drain[d].group.tx \in accepted THEN drain[d].group.items ELSE {}
    <3>1. drain[d].stage = "settle" /\ queue' = [queue EXCEPT ![d] = @ \ Done(d, sent)]
      BY <1>3 DEF Finish, Settle
    <3>2. queue'[d] = queue[d] \ Done(d, sent)
      BY <1>inv, <3>1 DEF Shape
    <3>3. PICK m \in sent : m.kind = "view" /\ generation[d][m.cadet] = drain[d].started[m.cadet] /\ m.cadet = c
      BY <2>2, <3>2 DEF Done
    <3>4. drain[d].group.tx \in accepted /\ m \in drain[d].group.items
      BY <3>3
    <3>5. m \in InHand(d)
      BY <1>inv, <3>1, <3>4, FinishedIsListed
    <3>6. Grasp(d, c) \subseteq m.content
      BY <1>inv, <3>3, <3>5 DEF HandInv, Fresh
    <3>7. PICK tx \in Listed : tx.id = drain[d].group.tx /\ Within(drain[d].group.items, tx)
      BY <1>inv, <3>1, <3>4, FinishedIsListed
    <3>8. PICK s \in tx.records : Alike(s, m)
      BY <3>4, <3>7 DEF Within
    <3>9. s \in OnChain /\ s.kind = "view" /\ s.cadet = m.cadet /\ Shows(s) = Shows(m)
      BY <3>3, <3>8, ListedAreOnChain DEF Alike
    <3>10. changes' = changes /\ OnChain' = OnChain /\ mistaken' = mistaken \cup NotCarried(drain[d].group)
      BY <1>3, <3>4 DEF Finish, OnChain, Listed
    <3>11. Grasp(d, c)' = Grasp(d, c) /\ Shows(s)' = Shows(s) /\ Shows(m)' = Shows(m)
      BY <2>1, <3>10 DEF Grasp, NotedAbout, About, Shows, Rotations
    <3>12. CASE m \in OnChain
      <4>1. StandsFor(m, m)'
        BY <3>3 DEF StandsFor
      <4> QED BY <3>6, <3>10, <3>11, <3>12, <4>1 DEF Held
    <3>13. CASE m \notin OnChain
      <4>1. \A u \in Listed : m \notin u.records
        BY <3>13, ListedAreOnChain
      <4>2. m \in mistaken'
        BY <3>4, <3>10, <4>1 DEF NotCarried
      <4>3. StandsFor(s, m)'
        BY <3>9, <3>11, <4>2 DEF StandsFor
      <4> QED BY <3>6, <3>9, <3>10, <3>11, <4>2, <4>3 DEF Held
    <3> QED BY <3>12, <3>13
  <2> QED BY <2>1, <2>2, KeptWhen
<1>4. CASE BuildFails(d)
  <2>1. noted' = noted /\ \E batch : Settle(d, batch, FALSE)
    BY <1>4 DEF BuildFails
  <2>2. queue'[d] = queue[d]
    BY <1>inv, <2>1 DEF Settle, Done, Shape
  <2> QED BY <2>1, <2>2, KeptWhen
<1>5. CASE PublishAll(d)
  <2>1. noted' = noted /\ queue[d] \subseteq queue'[d]
    BY <1>5, <1>inv DEF PublishAll, Shape
  <2> QED BY <2>1, KeptWhen
<1>6. CASE noted' = noted /\ queue' = queue
  BY <1>6, KeptWhen
<1>7. \/ \E n \in DOMAIN changes : NoteEvent(d, n)
      \/ Seal(d) \/ Finish(d) \/ BuildFails(d) \/ PublishAll(d) \/ (noted' = noted /\ queue' = queue)
  BY DEF Step, DrainStep, Commit, Learn, Elapse, StartDrain, Read, Build, Flush, OtherFlush,
         StartNotices, ReadNotice, EndNotice, EndDrain, Restart
<1> QED BY <1>1, <1>2, <1>3, <1>4, <1>5, <1>6, <1>7

-----------------------------------------------------------------------------
(* The invariant of the records is inductive. *)

\* The invariant of the records holds at first.
LEMMA RecordsAtFirst == Init => RecordInv
<1> SUFFICES ASSUME Init PROVE RecordInv
  OBVIOUS
<1>1. Shape /\ OneOwner
  BY ShapeAtFirst, OwnersAtFirst
<1>2. Listed = {} /\ OnChain = {} /\ mistaken = {}
  BY DEF Init, Listed, OnChain
<1>3. ChainTruthful
  BY <1>2 DEF ChainTruthful
<1>4. ASSUME NEW d \in Staff
      PROVE  OwnChanges(d) /\ RunOrder(d) /\ HandInv(d) /\ GroupsSound(d) /\ Kept(d)
  <2>1. drain[d] = Idle /\ wallet[d] = {} /\ noted[d] = {} /\ noting[d] = {} /\ known[d] = {} /\ noticeQueue[d] = {}
    BY DEF Init
  <2>2. OwnChanges(d)
    BY <2>1 DEF OwnChanges
  <2>3. Ordinary(Idle, noticeQueue[d])
    BY DEF Ordinary, Idle, NoGroup
  <2>4. RunOrder(d)
    BY <2>1, <2>3, RunOrderIs
  <2>5. Open(d) = {} /\ InHand(d) = {} /\ drain[d].items = {} /\ DOMAIN drain[d].started = {}
    <3>1. Open(d) = {} /\ Sealed(d) = {}
      BY <1>1, <2>1, <2>4, OpenIs DEF Idle
    <3> QED BY <2>1, <3>1 DEF InHand, Idle
  <2>6. HandInv(d)
    BY <2>1, <2>5 DEF HandInv, OneKind, Truthful, ReadIsNewer, Fresh
  <2>7. GroupsSound(d) /\ Kept(d)
    BY <2>1, <2>5 DEF GroupsSound, Kept, NotedAbout, About
  <2> QED BY <2>2, <2>4, <2>6, <2>7
<1> QED BY <1>1, <1>3, <1>4 DEF RecordInv

\* What is newly taken for another record was in hand.
LEMMA MistakenWasInHand ==
  ASSUME RecordInv, NEW d \in Staff, Step(d)
  PROVE  mistaken' \subseteq mistaken \cup InHand(d)
<1>1. CASE Finish(d)
  <2>1. drain[d].group.items \subseteq InHand(d)
    BY <1>1, FinishedIsListed DEF Finish, RecordInv
  <2> QED BY <1>1, <2>1 DEF Finish, NotCarried
<1>2. Finish(d) \/ mistaken' = mistaken
  BY DEF Step, DrainStep, Commit, PublishAll, Learn, NoteEvent, Elapse, StartDrain, Read, Seal, Build, BuildFails,
         Flush, OtherFlush, StartNotices, ReadNotice, EndNotice, EndDrain, Restart
<1> QED BY <1>1, <1>2

\* Every listed record stays one that some device had reason to send.
LEMMA ChainStaysTruthful ==
  ASSUME RecordInv, Shape', NEW d \in Staff, Step(d), Touches(d), \A e \in Staff : OwnChanges(e)'
  PROVE  ChainTruthful'
<1>1. Listed' \subseteq Listed \cup wallet[d]
  BY DEF Touches, Builds, Spends
<1>0. ASSUME NEW r \in mistaken' PROVE r \in Record /\ \E e \in Staff : From(e, r)
  <2>1. r \in mistaken \/ r \in InHand(d)
    BY <1>0, MistakenWasInHand
  <2>2. InHand(d) \subseteq Record /\ mistaken \subseteq Record
    BY InHandAreRecords DEF RecordInv, Shape
  <2> QED BY <2>1, <2>2 DEF RecordInv, ChainTruthful, HandInv, Truthful
<1>2. ASSUME NEW r \in OnChain' PROVE r \in Record /\ \E e \in Staff : From(e, r)
  <2>1. PICK tx \in Listed' : r \in tx.records
    BY <1>2 DEF OnChain
  <2>2. CASE tx \in Listed
    BY <2>1, <2>2, InHandAreRecords, ListedAreOnChain DEF RecordInv, ChainTruthful
  <2>3. CASE tx \in wallet[d]
    BY <2>1, <2>3, InHandAreRecords DEF RecordInv, HandInv, Truthful
  <2> QED BY <1>1, <2>1, <2>2, <2>3
<1>3. \A e \in Staff : \A r \in Record : From(e, r) => From(e, r)'
  BY FromStays DEF RecordInv, Touches
<1> QED BY <1>0, <1>2, <1>3 DEF ChainTruthful

\* Every step of a device keeps what holds of each, and of what the network has.
LEMMA RecordsKept ==
  ASSUME RecordInv, NEW d \in Staff, Step(d)
  PROVE  RecordInv' /\ Touches(d)
<1>1. Shape /\ OneOwner /\ OwnChanges(d) /\ RunOrder(d) /\ HandInv(d) /\ GroupsSound(d) /\ Kept(d)
  BY DEF RecordInv
<1>2. Shape'
  BY <1>1, ShapeKept DEF HandInv
<1>3. Touches(d) /\ Grows
  BY <1>1, StepTouches DEF Touches
<1>4. OneOwner'
  BY <1>1, <1>2, <1>3, OwnersKept
<1>5. OwnChanges(d)' /\ RunOrder(d)'
  BY <1>1, OwnChangesKept, RunOrderKept
<1>6. HandInv(d)' /\ GroupsSound(d)' /\ Kept(d)'
  BY <1>1, <1>2, <1>3, <1>5, StepKeepsHand, GroupsSoundKept, KeptByStep
<1>7. ASSUME NEW e \in Staff \ {d}
      PROVE  OwnChanges(e)' /\ RunOrder(e)' /\ HandInv(e)' /\ GroupsSound(e)' /\ Kept(e)'
  <2>1. OwnChanges(e) /\ RunOrder(e) /\ HandInv(e) /\ GroupsSound(e) /\ Kept(e) /\ Untouched(e)
    BY <1>3 DEF RecordInv, Touches
  <2>2. OwnChanges(e)' /\ RunOrder(e)'
    BY <1>3, <2>1, OthersOwnChanges, OthersRunOrder
  <2>3. HandInv(e)'
    BY <1>1, <1>2, <1>3, <2>1, <2>2, OthersHand, HandKept
  <2>4. GroupsSound(e)'
    BY <1>1, <1>3, <2>1, OthersGroupsSound
  <2>5. Kept(e)'
    BY <1>1, <1>3, <2>1, KeptWhen DEF Untouched
  <2> QED BY <2>2, <2>3, <2>4, <2>5
<1>8. ChainTruthful'
  BY <1>2, <1>3, <1>5, <1>7, ChainStaysTruthful
<1> QED BY <1>2, <1>3, <1>4, <1>5, <1>6, <1>7, <1>8 DEF RecordInv

\* The invariant of the records holds when nothing happens.
LEMMA RecordsStutter ==
  ASSUME RecordInv, UNCHANGED vars
  PROVE  RecordInv'
<1> USE DEF vars, storage, funds, memory
<1>0. Shape /\ OneOwner
  BY DEF RecordInv
<1>1. Shape'
  BY <1>0 DEF Shape, ChangesOK
<1>2. Listed' = Listed /\ OnChain' = OnChain /\ Grows
  BY <1>0, SameWorldGrows DEF Listed, OnChain
<1>same. \A items, tx : Within(items, tx)' <=> Within(items, tx)
  BY DEF Within, Alike, Shows, Rotations
<1>3. \A e \in Staff : Untouched(e)
  BY DEF Untouched
<1>4. \A e \in Staff : Open(e)' = Open(e) /\ Ids(e)' = Ids(e)
  BY <1>3, UntouchedIds
<1>5. OneOwner'
  BY <1>0, <1>2, <1>4 DEF OneOwner
<1>6. ASSUME NEW e \in Staff
      PROVE  OwnChanges(e)' /\ RunOrder(e)' /\ HandInv(e)' /\ GroupsSound(e)' /\ Kept(e)'
  <2>1. OwnChanges(e) /\ RunOrder(e) /\ HandInv(e) /\ GroupsSound(e) /\ Kept(e) /\ Untouched(e)
    BY <1>3 DEF RecordInv
  <2>2. OwnChanges(e)' /\ RunOrder(e)'
    BY <1>2, <2>1, OthersOwnChanges, OthersRunOrder
  <2>3. HandInv(e)'
    BY <1>0, <1>1, <1>2, <2>1, <2>2, OthersHand, HandKept
  <2>4. GroupsSound(e)'
    BY <1>2, <1>4, <1>same, <2>1 DEF GroupsSound
  <2>5. Kept(e)'
    BY <1>0, <1>2, <2>1, KeptWhen DEF Untouched
  <2> QED BY <2>2, <2>3, <2>4, <2>5
<1>7. ChainTruthful'
  <2>1. \A e \in Staff : \A r \in Record : From(e, r) => From(e, r)'
    BY <1>0, <1>1, <1>2, <1>6, FromStays DEF RecordInv
  <2>2. ASSUME NEW r \in OnChain \cup mistaken PROVE \E e \in Staff : From(e, r)'
    <3>1. PICK e \in Staff : From(e, r)
      BY <2>2 DEF RecordInv, ChainTruthful
    <3>2. r \in Record
      BY <1>0, <2>2, InHandAreRecords DEF OnChain, Shape
    <3> QED BY <2>1, <3>1, <3>2
  <2> QED BY <1>2, <2>2 DEF ChainTruthful
<1> QED BY <1>1, <1>5, <1>6, <1>7 DEF RecordInv

\* The inductive invariant of what is published, for any number of staff, cadets and
\* changes: what a run has read shows at least what waits, what it has in hand it finds
\* again, for this channel or for the one before.
THEOREM RecordsInductive == Spec => []RecordInv
<1>1. RecordInv /\ [Next]_vars => RecordInv'
  <2> SUFFICES ASSUME RecordInv, [Next]_vars PROVE RecordInv'
    OBVIOUS
  <2>1. CASE Next
    <3>1. PICK d \in Staff : Step(d)
      BY <2>1 DEF Next, Step
    <3> QED BY <3>1, RecordsKept
  <2>2. CASE UNCHANGED vars
    BY <2>2, RecordsStutter
  <2> QED BY <2>1, <2>2
<1> QED BY <1>1, RecordsAtFirst, PTL DEF Spec

\* Type correctness: the queues and the notes of a device are of changes it knows, a run
\* is at one of its stages, and the network has only transactions that were built.
THEOREM TypesKept == Spec => []TypeOK
<1>1. RecordInv => TypeOK
  <2> SUFFICES ASSUME RecordInv PROVE TypeOK
    OBVIOUS
  <2>1. ASSUME NEW d \in Staff
        PROVE  /\ known[d] \subseteq DOMAIN changes /\ noticeQueue[d] \subseteq noted[d] /\ noted[d] \subseteq known[d]
               /\ noting[d] \subseteq known[d] \ noted[d]
    BY DEF RecordInv, OwnChanges
  <2>2. ASSUME NEW d \in Staff PROVE queue[d] \subseteq Cadet
    BY DEF RecordInv, Shape
  <2>3. ASSUME NEW d \in Staff PROVE drain[d].stage \in {"idle", "read", "publish", "settle", "notices"}
    <3>1. drain[d] \in Run
      BY DEF RecordInv, Shape
    <3> QED BY <3>1 DEF Run, Stages
  <2>4. \A tx \in Listed : tx.id \in 1 .. built
    BY DEF RecordInv, OneOwner
  <2> QED BY <2>1, <2>2, <2>3, <2>4 DEF TypeOK
<1> QED BY <1>1, RecordsInductive, PTL

\* No change is forgotten: what a device noted about a cadet waits in its queue, or one
\* record that the network has shows all of it (for the channel as it was then, or for an
\* older one when a run took it for that), or a record for that cadet was refused for good.
THEOREM NothingIsForgotten == Spec => []NothingForgotten
<1>1. RecordInv => NothingForgotten
  <2> SUFFICES ASSUME RecordInv, NEW d \in Staff, NEW c \in Cadet, NotedAbout(d, c) # {}
               PROVE  \/ c \in queue[d]
                      \/ \E r \in OnChain : \E m \in mistaken \cup {r} :
                           StandsFor(r, m) /\ NotedAbout(d, c) \subseteq m.content
                      \/ \E r \in refused : r.cadet = c
    BY DEF NothingForgotten
  <2>1. NotedAbout(d, c) \subseteq Grasp(d, c)
    BY GraspIsKnown DEF RecordInv
  <2> QED BY <2>1 DEF RecordInv, Kept, Held
<1> QED BY <1>1, RecordsInductive, PTL

-----------------------------------------------------------------------------
(* The cadet's phone. *)

\* What the phone reads at an address are the listed views of that address.
LEMMA ReadAtIs ==
  ASSUME NEW a
  PROVE  \A e : e \in ReadAt(a) <=>
           \E k \in DOMAIN chain : \E r \in chain[k].records :
             r.kind = "view" /\ r.address = a /\ e = [place |-> k, view |-> r.content]
BY DEF ReadAt

\* The view that is newest of all, when some entry shows all and the others less, of the
\* same rotations.
LEMMA NewestIsAll ==
  ASSUME chain \in Seq(Tx), NEW a, NEW N \in Nat, NEW all, all \subseteq 1 .. N,
         \A e \in ReadAt(a) : e.view \subseteq all /\ Rotations(e.view) = Rotations(all),
         \E e \in ReadAt(a) : e.view = all
  PROVE  NewestView(a) = all
<1> DEFINE S == {k \in DOMAIN chain : \E e \in ReadAt(a) : e.place = k /\ e.view = all}
<1>1. Len(chain) \in Nat /\ DOMAIN chain = 1 .. Len(chain)
  OBVIOUS
<1>2. \A e \in ReadAt(a) : e.place \in DOMAIN chain
  BY ReadAtIs
<1>3. S # {} /\ S \subseteq 1 .. Len(chain)
  BY <1>1, <1>2
<1>4. PICK m \in S : \A k \in S : k <= m
  BY <1>1, <1>3, GreatestExists
<1>5. PICK e0 \in ReadAt(a) : e0.place = m /\ e0.view = all
  BY <1>4
<1>6. \A f \in ReadAt(a) : f.view = all => f.place <= m
  BY <1>2, <1>4
<1> HIDE DEF S
<1>7. ASSUME NEW f \in ReadAt(a)
      PROVE  /\ Version(f.view) \in Nat /\ Version(all) \in Nat /\ Version(f.view) <= Version(all)
             /\ Version(f.view) = Version(all) => f.view = all
  <2> DEFINE shown == f.view \ Rotations(f.view)
             shownOfAll == all \ Rotations(all)
  <2>1. f.view \subseteq all /\ Rotations(f.view) = Rotations(all)
    BY <1>7
  <2>2. shown \subseteq shownOfAll /\ shownOfAll \subseteq 1 .. N /\ (shown = shownOfAll => f.view = all)
    BY <2>1 DEF Rotations
  <2>3. Version(f.view) = Cardinality(shown) /\ Version(all) = Cardinality(shownOfAll)
    BY DEF Version
  <2> HIDE DEF shown, shownOfAll
  <2> QED BY <2>2, <2>3, CountWithin
<1>8. \A f \in ReadAt(a) : Supersedes(e0, f)
  <2>1. ASSUME NEW f \in ReadAt(a) PROVE Supersedes(e0, f)
    <3>1. CASE f.view = all
      <4>1. e0.place >= f.place
        BY <1>1, <1>2, <1>5, <1>6, <3>1
      <4> QED BY <1>5, <3>1, <4>1 DEF Supersedes
    <3>2. CASE f.view # all
      <4>1. Version(all) > Version(f.view)
        BY <1>7, <3>2
      <4> QED BY <1>5, <4>1 DEF Supersedes
    <3> QED BY <3>1, <3>2
  <2> QED BY <2>1
<1> DEFINE best == CHOOSE e \in ReadAt(a) : \A f \in ReadAt(a) : Supersedes(e, f)
<1>9. best \in ReadAt(a) /\ \A f \in ReadAt(a) : Supersedes(best, f)
  BY <1>5, <1>8
<1>10. NewestView(a) = best.view
  BY <1>5 DEF NewestView
<1> HIDE DEF best
<1>11. Supersedes(best, e0)
  BY <1>5, <1>9
<1>12. Version(best.view) >= Version(all)
  BY <1>5, <1>7, <1>9, <1>11 DEF Supersedes
<1> QED BY <1>7, <1>9, <1>10, <1>12

\* When everything was published, a device that knew all the others' changes published
\* last: each phone shows all, unless an older record was taken for that one.
THEOREM PhonesAreCurrent == Spec => []PhoneCurrentIfOrdered
<1>1. RecordInv => PhoneCurrentIfOrdered
  <2> SUFFICES ASSUME RecordInv, Ordered, Settled, NEW c \in Cadet, About(DOMAIN changes, c) # {}
               PROVE  \/ NewestView(<<c, Cardinality(Rotations(About(DOMAIN changes, c)))>>) = About(DOMAIN changes, c)
                      \/ \E m \in mistaken : m.cadet = c /\ m.content = About(DOMAIN changes, c)
    BY DEF PhoneCurrentIfOrdered, Shown
  <2> DEFINE all == About(DOMAIN changes, c)
             a == <<c, Cardinality(Rotations(all))>>
  <2>1. Len(changes) \in Nat /\ DOMAIN changes = 1 .. Len(changes) /\ chain \in Seq(Tx)
    BY DEF RecordInv, Shape, ChangesOK
  <2>2. all \subseteq 1 .. Len(changes) /\ \A n \in all : changes[n].kind # "NOTICE" /\ changes[n].cadet = c
    BY <2>1 DEF About
  <2>3. PICK n \in all : \A m \in all : m <= n
    BY <2>1, <2>2, GreatestExists
  <2>4. n \in DOMAIN changes /\ changes[n].by \in Staff
    <3>1. n \in DOMAIN changes
      BY <2>1, <2>2
    <3>2. changes[n] \in Change
      BY <3>1 DEF RecordInv, Shape, ChangesOK
    <3> QED BY <3>1, <3>2 DEF Change
  <2> DEFINE d == changes[n].by
  <2>5. n \in noted[d] /\ known[d] = DOMAIN changes /\ queue[d] = {} /\ refused = {} /\ changes[n].sees = 1 .. (n - 1)
    BY <2>4 DEF Settled, Ordered, Waiting
  <2>6. n \in NotedAbout(d, c)
    BY <2>2, <2>5 DEF NotedAbout, About
  <2>7. all \subseteq Grasp(d, c)
    <3>1. ASSUME NEW m \in all PROVE m \in Grasp(d, c)
      <4>1. m = n \/ m \in changes[n].sees
        BY <2>1, <2>2, <2>3, <2>5
      <4>2. m \in noted[d] \cup UNION {changes[k].sees : k \in NotedAbout(d, c)}
        BY <2>5, <2>6, <4>1
      <4> QED BY <2>2, <4>2 DEF Grasp, About
    <3> QED BY <3>1
  <2>8. PICK r \in OnChain : \E m \in mistaken \cup {r} : StandsFor(r, m) /\ Grasp(d, c) \subseteq m.content
    BY <2>4, <2>5, <2>6 DEF RecordInv, Kept, Held
  <2>m. PICK m \in mistaken \cup {r} : StandsFor(r, m) /\ Grasp(d, c) \subseteq m.content
    BY <2>8
  <2> HIDE DEF d
  <2>9. ASSUME NEW s \in OnChain \cup mistaken, s.kind = "view" \/ n \in s.content
        PROVE  /\ s.address = <<s.cadet, Cardinality(Rotations(s.content))>>
               /\ s.content \subseteq About(DOMAIN changes, s.cadet)
    <3>1. PICK e \in Staff : From(e, s)
      BY <2>9 DEF RecordInv, ChainTruthful
    <3>2. ViewOf(e, s)
      BY <2>2, <2>9, <3>1 DEF From, NoticeOf
    <3>3. known[e] = DOMAIN changes
      BY DEF Settled
    <3> QED BY <3>2, <3>3 DEF ViewOf, viewFor
  <2>10. m.cadet = c /\ m.content = all /\ m.address = a
    <3>0. n \in m.content
      BY <2>3, <2>7, <2>m
    <3>1. m.content \subseteq About(DOMAIN changes, m.cadet) /\ m.address = <<m.cadet, Cardinality(Rotations(m.content))>>
      BY <2>9, <2>m, <3>0
    <3>2. m.cadet = c
      BY <2>2, <3>0, <3>1 DEF About
    <3>3. m.content = all
      BY <2>7, <2>m, <3>1, <3>2
    <3> QED BY <3>1, <3>2, <3>3
  <2>mistaken. CASE m \in mistaken
    BY <2>10, <2>mistaken
  <2>shown. CASE m \notin mistaken
    <3>1. m = r /\ r.kind = "view"
      BY <2>m, <2>shown DEF StandsFor
    <3>2. \A k \in DOMAIN chain : \A s \in chain[k].records : s \in OnChain
      BY DEF OnChain, Listed
    <3>3. \E e \in ReadAt(a) : e.view = all
      <4>1. PICK k \in DOMAIN chain : r \in chain[k].records
        BY <2>8 DEF OnChain, Listed
      <4>2. [place |-> k, view |-> r.content] \in ReadAt(a)
        BY <2>10, <3>1, <4>1, ReadAtIs
      <4> QED BY <2>10, <3>1, <4>2
    <3>4. ASSUME NEW e \in ReadAt(a) PROVE e.view \subseteq all /\ Rotations(e.view) = Rotations(all)
      <4>1. PICK k \in DOMAIN chain : \E s \in chain[k].records :
              s.kind = "view" /\ s.address = a /\ e = [place |-> k, view |-> s.content]
        BY <3>4, ReadAtIs
      <4>2. PICK s \in chain[k].records : s.kind = "view" /\ s.address = a /\ e.view = s.content
        BY <4>1
      <4>3. s.address = <<s.cadet, Cardinality(Rotations(s.content))>> /\ s.content \subseteq About(DOMAIN changes, s.cadet)
        BY <2>9, <3>2, <4>2
      <4>4. s.cadet = c /\ Cardinality(Rotations(s.content)) = Cardinality(Rotations(all))
        BY <4>2, <4>3
      <4>5. e.view \subseteq all
        BY <4>2, <4>3, <4>4
      <4> HIDE DEF all, a
      <4>6. Rotations(e.view) \subseteq Rotations(all) /\ Rotations(all) \subseteq 1 .. Len(changes)
        BY <2>2, <4>5 DEF Rotations
      <4>7. Rotations(e.view) = Rotations(all)
        BY <2>1, <4>2, <4>4, <4>6, CountWithin
      <4> QED BY <4>5, <4>7
    <3> HIDE DEF all, a
    <3>5. NewestView(a) = all
      BY <2>1, <2>2, <3>3, <3>4, NewestIsAll
    <3> QED BY <3>5 DEF a, all
  <2> QED BY <2>mistaken, <2>shown
<1> QED BY <1>1, RecordsInductive, PTL

-----------------------------------------------------------------------------
(* A notice leaves the queue when it went to all. *)

SentInv(d) == DeliveredTrue(d) /\ AllOnTheirWay(d) /\ SentByNow(d)

\* What is marked delivered is on the chain, and stays there.
LEMMA DeliveredStays ==
  ASSUME Grows, NEW e, DeliveredTrue(e), delivered'[e] \subseteq delivered[e]
  PROVE  DeliveredTrue(e)'
BY OnChainGrows DEF DeliveredTrue

\* A notice that was sent to all stays so.
LEMMA SentStays ==
  ASSUME Grows, NEW e \in Staff, OwnChanges(e), SentByNow(e), noted'[e] = noted[e], noticeQueue[e] \subseteq noticeQueue'[e]
  PROVE  SentByNow(e)'
<1>1. \A n \in noted[e] : changes'[n] = changes[n] /\ AudienceOf(n)' = AudienceOf(n)
  BY AudienceSame DEF OwnChanges, Grows
<1> QED BY <1>1, OnChainGrows DEF SentByNow

\* The run goes on with the same notice, or with none.
LEMMA WayStays ==
  ASSUME Grows, NEW e \in Staff, OwnChanges(e), RunOrder(e), AllOnTheirWay(e),
         \/ drain'[e].notice = 0
         \/ drain'[e].failing
         \/ /\ drain'[e].notice = drain[e].notice /\ drain'[e].failing = drain[e].failing
            /\ delivered[e] \subseteq delivered'[e] /\ Sealed(e) \subseteq Sealed(e)'
  PROVE  AllOnTheirWay(e)'
<1> DEFINE n == drain[e].notice
<1>1. CASE drain'[e].notice = 0 \/ drain'[e].failing
  BY <1>1 DEF AllOnTheirWay
<1>2. CASE /\ drain'[e].notice = drain[e].notice /\ drain'[e].failing = drain[e].failing
           /\ delivered[e] \subseteq delivered'[e] /\ Sealed(e) \subseteq Sealed(e)'
  <2>1. ASSUME n # 0, ~ drain[e].failing, NEW c \in AudienceOf(n)
        PROVE  \E a \in Address : a[1] = c /\ (<<n, a>> \in delivered'[e] \/ Notice(n, a) \in Sealed(e)')
    <3>1. PICK a \in Address : a[1] = c /\ OnItsWay(e, n, a)
      BY <2>1 DEF AllOnTheirWay
    <3> QED BY <1>2, <3>1 DEF OnItsWay
  <2>2. n # 0 => AudienceOf(n)' = AudienceOf(drain[e].notice)'
    BY DEF AudienceOf
  <2>3. n # 0 => n \in DOMAIN changes
    BY DEF RunOrder, OwnChanges
  <2>4. n # 0 => changes'[n] = changes[n]
    BY <2>3 DEF Grows
  <2>5. n # 0 => (IF changes'[n].cadet = Everyone THEN Cadet ELSE {changes'[n].cadet}) = AudienceOf(n)
    BY <2>4 DEF AudienceOf
  <2> QED BY <1>2, <2>1, <2>5 DEF AllOnTheirWay, OnItsWay, AudienceOf
<1> QED BY <1>1, <1>2

\* A device that does nothing keeps what holds of its sending.
LEMMA OthersSent ==
  ASSUME Grows, NEW e \in Staff, Untouched(e), OwnChanges(e), RunOrder(e), SentInv(e)
  PROVE  SentInv(e)'
<1>1. Sealed(e)' = Sealed(e)
  BY UntouchedIds
<1>2. DeliveredTrue(e)' /\ SentByNow(e)'
  BY DeliveredStays, SentStays DEF SentInv, Untouched
<1>3. AllOnTheirWay(e)'
  BY <1>1, WayStays DEF SentInv, Untouched
<1> QED BY <1>2, <1>3 DEF SentInv

\* A group that was finished is where its notice has been.
LEMMA FinishSends ==
  ASSUME Shape, OneOwner, Grows, NEW d \in Staff, OwnChanges(d), RunOrder(d), HandInv(d), GroupsSound(d), SentInv(d),
         Finish(d)
  PROVE  SentInv(d)'
<1> USE DEF storage, funds, memory
<1>run. drain[d] \in Run /\ drain \in [Staff -> Run]
  BY DEF Shape
<1> DEFINE n == drain[d].notice
           ok == drain[d].group.tx \in accepted
           sent == IF ok THEN drain[d].group.items ELSE {}
           new == {<<n, r.address>> : r \in {r \in sent : r.kind = "notice"}}
<1>1. /\ drain[d].stage = "settle" /\ delivered' = [delivered EXCEPT ![d] = @ \cup new]
      /\ drain' = [drain EXCEPT ![d].stage = "publish", ![d].group = NoGroup, ![d].failing = @ \/ ~ok]
  BY DEF Finish, Settle
<1>2. noted' = noted /\ noticeQueue' = noticeQueue /\ changes' = changes /\ OnChain' = OnChain
  BY DEF Finish, OnChain, Listed
<1>3. delivered'[d] = delivered[d] \cup new
  BY <1>1 DEF Shape
<1>4. /\ drain[d].group.items \subseteq InHand(d)
      /\ ok => \A r \in drain[d].group.items : r.kind = "notice" => r \in OnChain
  BY <1>1, FinishedIsListed, FinishedCopies
<1>5. ASSUME NEW r \in sent, r.kind = "notice"
      PROVE  r \in OnChain /\ r.cadet = r.address[1] /\ n \in r.content
  <2>1. ok /\ r \in InHand(d) /\ r \in OnChain
    BY <1>4, <1>5
  <2>2. From(d, r) /\ (IF drain[d].notice = 0 THEN r.kind = "view" ELSE r.kind = "notice" /\ r.content = {drain[d].notice})
    BY <2>1 DEF HandInv, Truthful, OneKind
  <2>3. r.address[1] = r.cadet
    BY <1>5, <2>2 DEF From, ViewOf, NoticeOf
  <2> QED BY <1>5, <2>1, <2>2, <2>3
<1>6. DeliveredTrue(d)'
  <2>1. ASSUME NEW x \in delivered'[d] PROVE \E r \in OnChain : r.kind = "notice" /\ r.cadet = x[2][1] /\ x[1] \in r.content
    <3>1. CASE x \in delivered[d]
      BY <3>1 DEF SentInv, DeliveredTrue
    <3>2. CASE x \in new
      <4>1. PICK r \in sent : r.kind = "notice" /\ x = <<n, r.address>>
        BY <3>2
      <4> HIDE DEF sent, n
      <4>2. r \in OnChain /\ r.cadet = r.address[1] /\ n \in r.content
        BY <1>5, <4>1
      <4> QED BY <4>1, <4>2
    <3> QED BY <1>3, <2>1, <3>1, <3>2
  <2> QED BY <1>2, <2>1 DEF DeliveredTrue
<1>7. SentByNow(d)'
  BY <1>2, SentStays DEF SentInv
<1>8. AllOnTheirWay(d)'
  <2>1. /\ drain'[d].notice = drain[d].notice /\ drain'[d].failing = (drain[d].failing \/ ~ok)
        /\ drain'[d].toBuild = drain[d].toBuild /\ drain'[d].toFinish = drain[d].toFinish /\ drain'[d].group = NoGroup
    BY <1>run, <1>1 DEF Run
  <2>2. ASSUME n # 0, ~ drain[d].failing, ok, NEW c \in AudienceOf(n)
        PROVE  \E a \in Address : a[1] = c /\ (<<n, a>> \in delivered'[d] \/ Notice(n, a) \in Sealed(d)')
    <3>1. PICK a \in Address : a[1] = c /\ OnItsWay(d, n, a)
      BY <2>2 DEF SentInv, AllOnTheirWay
    <3>2. CASE <<n, a>> \in delivered[d]
      BY <1>3, <3>1, <3>2
    <3>3. CASE Notice(n, a) \in drain[d].group.items
      <4>1. Notice(n, a).kind = "notice" /\ Notice(n, a).address = a /\ Notice(n, a) \in sent
        BY <2>2, <3>3 DEF Notice
      <4>2. <<n, a>> \in new
        BY <4>1
      <4> QED BY <1>3, <3>1, <4>2
    <3>4. CASE Notice(n, a) \in drain[d].toBuild \cup UNION {g.items : g \in drain[d].toFinish}
      <4>1. Notice(n, a) \in Sealed(d)'
        BY <2>1, <3>4 DEF Sealed, Open
      <4> QED BY <3>1, <4>1
    <3>5. CASE Notice(n, a) \in Sealed(d)
      <4>1. Notice(n, a) \in drain[d].toBuild \/ \E g \in Open(d) : Notice(n, a) \in g.items
        BY <3>5 DEF Sealed
      <4>2. Open(d) \subseteq drain[d].toFinish \cup {drain[d].group}
        BY DEF Open
      <4> QED BY <3>3, <3>4, <4>1, <4>2
    <3> QED BY <3>1, <3>2, <3>5 DEF OnItsWay
  <2>3. \A m : AudienceOf(m)' = AudienceOf(m)
    BY <1>2 DEF AudienceOf
  <2> HIDE DEF ok
  <2> QED BY <2>1, <2>2, <2>3 DEF AllOnTheirWay, OnItsWay
<1> QED BY <1>6, <1>7, <1>8 DEF SentInv

\* When a notice is taken up, each of its cadets has a copy delivered or in hand.
LEMMA ReadNoticeSends ==
  ASSUME Shape, Grows, NEW d \in Staff, OwnChanges(d), RunOrder(d), SentInv(d), ReadNotice(d)
  PROVE  SentInv(d)'
<1>1. delivered' = delivered /\ noticeQueue' = noticeQueue /\ noted' = noted /\ changes' = changes
  BY DEF ReadNotice, storage
<1>2. DeliveredTrue(d)' /\ SentByNow(d)'
  BY <1>1, DeliveredStays, SentStays DEF SentInv
<1>3. PICK n \in noticeQueue[d], items \in SUBSET Record :
        /\ items = {Notice(n, a) : a \in Left(d, n)} /\ drain'[d].notice = n
        /\ Open(d)' = Groups(d, items) /\ drain'[d].toBuild = items \ Built(d, items)
  BY ReadNoticeGroups
<1>4. items \subseteq Sealed(d)'
  <2>1. \A r \in Built(d, items) : \E g \in Groups(d, items) : r \in g.items
    BY GroupsAreGroups
  <2> QED BY <1>3, <2>1 DEF Sealed
<1>5. ASSUME NEW c \in AudienceOf(n)
      PROVE  \E a \in Address : a[1] = c /\ (<<n, a>> \in delivered[d] \/ Notice(n, a) \in Sealed(d)')
  <2>1. c \in Cadet
    BY <1>5, LeftAreRecords
  <2>2. channelFor(d, c) \in Address /\ channelFor(d, c)[1] = c
    BY <2>1, ViewIsRecord DEF channelFor
  <2>3. <<n, channelFor(d, c)>> \in delivered[d] \/ channelFor(d, c) \in Left(d, n)
    BY <1>5 DEF Left, noticeFor
  <2>4. channelFor(d, c) \in Left(d, n) => Notice(n, channelFor(d, c)) \in Sealed(d)'
    BY <1>3, <1>4
  <2> QED BY <2>2, <2>3, <2>4
<1>6. AudienceOf(n)' = AudienceOf(n)
  BY <1>1 DEF AudienceOf
<1>7. AllOnTheirWay(d)'
  BY <1>1, <1>3, <1>5, <1>6 DEF AllOnTheirWay, OnItsWay, AudienceOf
<1> QED BY <1>2, <1>7 DEF SentInv

\* A notice leaves the queue only when each of its cadets has a copy on the chain.
LEMMA EndNoticeSends ==
  ASSUME Shape, Grows, NEW d \in Staff, OwnChanges(d), RunOrder(d), SentInv(d), EndNotice(d)
  PROVE  SentInv(d)'
<1>run. drain[d] \in Run /\ drain \in [Staff -> Run]
  BY DEF Shape
<1> DEFINE n == drain[d].notice
<1>1. /\ drain[d].stage = "publish" /\ drain[d].toFinish = {} /\ drain[d].toBuild = {} /\ n # 0
      /\ drain' = [drain EXCEPT ![d].stage = "notices", ![d].notice = 0]
      /\ noted' = noted /\ changes' = changes
  BY DEF EndNotice, Published, IsBuilding
<1>2. AllOnTheirWay(d)'
  <2>1. drain'[d].notice = 0
    BY <1>run, <1>1 DEF Run
  <2> QED BY <2>1 DEF AllOnTheirWay
<1>3. CASE drain[d].failing
  <2>1. noticeQueue' = noticeQueue /\ delivered' = delivered
    BY <1>3 DEF EndNotice, Failed
  <2> QED BY <1>1, <1>2, <2>1, DeliveredStays, SentStays DEF SentInv
<1>4. CASE ~ drain[d].failing
  <2>1. /\ noticeQueue'[d] = noticeQueue[d] \ {n} /\ delivered'[d] \subseteq delivered[d]
    BY <1>4 DEF EndNotice, Failed, Shape
  <2>2. DeliveredTrue(d)'
    BY <2>1, DeliveredStays DEF SentInv
  <2>3. Sealed(d) = {}
    BY <1>1, OpenIs DEF Sealed
  <2>4. \A c \in AudienceOf(n) : \E r \in OnChain : r.kind = "notice" /\ r.cadet = c /\ n \in r.content
    <3>1. ASSUME NEW c \in AudienceOf(n) PROVE \E r \in OnChain : r.kind = "notice" /\ r.cadet = c /\ n \in r.content
      <4>1. PICK a \in Address : a[1] = c /\ OnItsWay(d, n, a)
        BY <1>1, <1>4, <3>1 DEF SentInv, AllOnTheirWay
      <4>2. <<n, a>> \in delivered[d]
        BY <2>3, <4>1 DEF OnItsWay
      <4>3. PICK r \in OnChain : r.kind = "notice" /\ r.cadet = <<n, a>>[2][1] /\ <<n, a>>[1] \in r.content
        BY <4>2 DEF SentInv, DeliveredTrue
      <4> HIDE DEF n
      <4> QED BY <4>1, <4>3
    <3> QED BY <3>1
  <2> HIDE DEF n
  <2>5. \A m : AudienceOf(m)' = AudienceOf(m)
    BY <1>1 DEF AudienceOf
  <2>6. SentByNow(d)'
    BY <1>1, <2>1, <2>4, <2>5, OnChainGrows DEF SentInv, SentByNow
  <2> QED BY <1>2, <2>2, <2>6 DEF SentInv
<1> QED BY <1>3, <1>4

\* A new notice joins the queue and so is not claimed to be sent.
LEMMA NoteEventSends ==
  ASSUME Shape, Grows, NEW d \in Staff, OwnChanges(d), RunOrder(d), SentInv(d), NEW n \in DOMAIN changes, NoteEvent(d, n)
  PROVE  SentInv(d)'
<1>1. /\ delivered' = delivered /\ drain' = drain /\ noted'[d] = noted[d] \cup {n} /\ changes' = changes
      /\ noticeQueue[d] \subseteq noticeQueue'[d] /\ (changes[n].kind = "NOTICE" => n \in noticeQueue'[d])
  BY DEF NoteEvent, Shape
<1>2. DeliveredTrue(d)'
  BY <1>1, DeliveredStays DEF SentInv
<1>3. Sealed(d)' = Sealed(d)
  BY <1>1 DEF Sealed, Open
<1>4. AllOnTheirWay(d)'
  BY <1>1, <1>3, WayStays DEF SentInv
<1>5. \A m : AudienceOf(m)' = AudienceOf(m)
  BY <1>1 DEF AudienceOf
<1>6. SentByNow(d)'
  BY <1>1, <1>5, OnChainGrows DEF SentInv, SentByNow
<1> QED BY <1>2, <1>4, <1>6 DEF SentInv

\* What holds of the sending of notices holds after every step of the device.
LEMMA StepKeepsSent ==
  ASSUME Shape, OneOwner, Grows, NEW d \in Staff, OwnChanges(d), RunOrder(d), HandInv(d), GroupsSound(d), SentInv(d),
         Step(d)
  PROVE  SentInv(d)'
<1> USE DEF storage, funds, memory
<1>run. drain[d] \in Run /\ drain \in [Staff -> Run]
  BY DEF Shape
<1>1. CASE \E n \in DOMAIN changes : NoteEvent(d, n)
  BY <1>1, NoteEventSends
<1>2. CASE Finish(d)
  BY <1>2, FinishSends
<1>3. CASE ReadNotice(d)
  BY <1>3, ReadNoticeSends
<1>4. CASE EndNotice(d)
  BY <1>4, EndNoticeSends
<1>rest. CASE ~ (\E n \in DOMAIN changes : NoteEvent(d, n)) /\ ~ Finish(d) /\ ~ ReadNotice(d) /\ ~ EndNotice(d)
  <2>1. noted' = noted /\ noticeQueue' = noticeQueue
    BY <1>rest DEF Step, DrainStep, Commit, PublishAll, Learn, Elapse, StartDrain, Read, Seal, Build, BuildFails, Flush,
         OtherFlush, StartNotices, EndDrain, Restart
  <2>2. delivered'[d] = delivered[d]
    <3>1. CASE BuildFails(d)
      <4>1. \E batch : Settle(d, batch, FALSE)
        BY <3>1 DEF BuildFails
      <4> QED BY <4>1 DEF Settle, Shape
    <3>2. CASE ~ BuildFails(d)
      BY <1>rest, <3>2 DEF Step, DrainStep, Commit, PublishAll, Learn, Elapse, StartDrain, Read, Seal, Build, Flush,
         OtherFlush, StartNotices, EndDrain, Restart
    <3> QED BY <3>1, <3>2
  <2>3. DeliveredTrue(d)' /\ SentByNow(d)'
    BY <2>1, <2>2, DeliveredStays, SentStays DEF SentInv
  <2>4. \/ drain'[d].notice = 0
        \/ drain'[d].failing
        \/ drain'[d].notice = drain[d].notice /\ drain'[d].failing = drain[d].failing /\ Sealed(d) \subseteq Sealed(d)'
    <3>1. CASE drain' = drain
      BY <3>1 DEF Sealed, Open
    <3>2. CASE StartDrain(d)
      BY <1>run, <3>2 DEF StartDrain, Idle
    <3>3. CASE EndDrain(d) \/ Restart(d)
      <4>1. drain'[d] = Idle
        BY <1>run, <3>3 DEF EndDrain, Restart
      <4> QED BY <4>1 DEF Idle
    <3>4. CASE Read(d)
      BY <1>run, <3>4 DEF Read, Run, RunOrder
    <3>5. CASE Seal(d)
      <4>1. drain[d].notice = 0
        BY <3>5 DEF Seal, RunOrder
      <4>2. drain'[d].notice = drain[d].notice
        BY <1>run, <3>5 DEF Seal, Run
      <4> QED BY <4>1, <4>2
    <3>6. CASE Build(d)
      <4>1. PICK batch \in SUBSET drain[d].toBuild :
              Open(d)' = {[tx |-> built', items |-> batch]} /\ drain'[d].toBuild = drain[d].toBuild \ batch
        BY <3>6, BuildGroups
      <4>2. Open(d) = {}
        BY <3>6, OpenIs DEF Build, IsBuilding
      <4>3. Sealed(d) \subseteq Sealed(d)'
        BY <4>1, <4>2 DEF Sealed
      <4>4. drain'[d].notice = drain[d].notice /\ drain'[d].failing = drain[d].failing
        BY <1>run, <3>6 DEF Build, Run
      <4> QED BY <4>3, <4>4
    <3>7. CASE BuildFails(d)
      BY <1>run, <3>7 DEF BuildFails, Run
    <3>8. CASE Flush(d)
      <4>1. PICK group \in drain[d].toFinish :
              drain' = [drain EXCEPT ![d].stage = "settle", ![d].group = group, ![d].toFinish = @ \ {group}]
        BY <3>8 DEF Flush
      <4>2. /\ drain'[d].toFinish = drain[d].toFinish \ {group} /\ drain'[d].group = group
            /\ drain'[d].toBuild = drain[d].toBuild
            /\ drain'[d].notice = drain[d].notice /\ drain'[d].failing = drain[d].failing
        BY <1>run, <4>1 DEF Run
      <4>3. group # NoGroup /\ Open(d) = drain[d].toFinish
        BY <3>8, <4>1, OpenIs DEF Flush, RunOrder, NoGroup, Open
      <4>4. Open(d)' = Open(d)
        BY <4>1, <4>2, <4>3 DEF Open
      <4> QED BY <4>2, <4>4 DEF Sealed
    <3>9. CASE StartNotices(d)
      BY <1>run, <3>9 DEF StartNotices, Run
    <3> QED BY <1>rest, <3>1, <3>2, <3>3, <3>4, <3>5, <3>6, <3>7, <3>8, <3>9
          DEF Step, DrainStep, Commit, PublishAll, Learn, Elapse, OtherFlush
  <2>5. AllOnTheirWay(d)'
    BY <2>2, <2>4, WayStays DEF SentInv
  <2> QED BY <2>3, <2>5 DEF SentInv
<1> QED BY <1>1, <1>2, <1>3, <1>4, <1>rest

-----------------------------------------------------------------------------
(* No address gets a notice twice. *)

NoticeInv(d) == ReportedIsClosed(d) /\ CarriedOnce(d) /\ BuiltOnce(d) /\ GroupCovers(d)

\* Two transactions that were reported gave nobody the same notice.
ReportedOnce ==
  \A tx, u \in Reported : \A n \in DOMAIN changes, a \in Address : Carries(tx, n, a) /\ Carries(u, n, a) => tx.id = u.id

\* A notice that comes from a device is of one change that it noted.
LEMMA FromNoted ==
  ASSUME NEW e, NEW r, From(e, r), r.kind = "notice", NEW n \in r.content
  PROVE  n \in noted[e] /\ r.content = {n} /\ NoticeOf(e, r)
<1>1. NoticeOf(e, r)
  BY DEF From, ViewOf
<1>2. PICK m : m \in noted[e] /\ r.content = {m}
  BY <1>1 DEF NoticeOf
<1> QED BY <1>1, <1>2

\* A change is noted by the device that made it.
LEMMA NotedByOne ==
  ASSUME RecordInv, NEW d \in Staff, NEW e \in Staff, NEW n \in noted[d] \cup noting[d], n \in noted[e]
  PROVE  d = e
BY DEF RecordInv, OwnChanges

\* Nothing is sent before it was noted.
LEMMA NotedFirst ==
  ASSUME RecordInv, NEW d \in Staff, NEW n \in noting[d], NEW tx \in wallet[d] \cup Listed, NEW a
  PROVE  ~ Carries(tx, n, a)
<1> SUFFICES ASSUME NEW r \in tx.records, r.kind = "notice", n \in r.content PROVE FALSE
  BY DEF Carries, IsCopy
<1>1. PICK e \in Staff : From(e, r)
  <2>1. CASE tx \in wallet[d]
    BY <2>1 DEF RecordInv, HandInv, Truthful
  <2>2. CASE tx \in Listed
    BY <2>2, ListedAreOnChain DEF RecordInv, ChainTruthful
  <2> QED BY <2>1, <2>2
<1>2. n \in noted[e]
  BY <1>1, FromNoted
<1>3. d = e
  BY <1>2, NotedByOne
<1> QED BY <1>2, <1>3 DEF RecordInv, OwnChanges

\* What is in play was noted by the device.
LEMMA InPlayIsNoted ==
  ASSUME RecordInv, OneNoticeEach, NEW d \in Staff, NEW tx \in InPlay(d), NEW n, NEW a, Carries(tx, n, a)
  PROVE  n \in noted[d] /\ a \in Address
<1>1. PICK r \in tx.records : r.kind = "notice" /\ n \in r.content /\ r.address = a
  BY DEF Carries, IsCopy
<1>2. tx \in wallet[d] \cup Listed
  BY DEF InPlay
<1>3. a \in Address
  BY <1>1, <1>2, InHandAreRecords DEF RecordInv, Record
<1>4. CASE tx \in wallet[d]
  BY <1>1, <1>3, <1>4, FromNoted DEF RecordInv, HandInv, Truthful
<1>5. CASE tx \notin wallet[d]
  <2>1. PICK g \in Open(d) : tx \in Listed /\ g.tx = tx.id
    BY <1>5 DEF InPlay
  <2>2. PICK s \in g.items : TRUE
    BY <2>1 DEF RecordInv, RunOrder
  <2>0. PICK t \in tx.records : Alike(t, s)
    BY <2>1, <2>2 DEF RecordInv, GroupsSound, Within
  <2>3. s \in tx.records /\ s \in InHand(d)
    <3>1. t.kind = "notice"
      BY <1>1, <2>1 DEF OneNoticeEach, OneNotice
    <3>2. s = t
      BY <2>0, <3>1 DEF Alike
    <3> QED BY <2>1, <2>2, <3>2 DEF InHand, Sealed
  <2>4. s.kind = "notice" /\ n \in s.content
    BY <1>1, <2>1, <2>3 DEF OneNoticeEach, OneNotice
  <2> QED BY <1>3, <2>3, <2>4, FromNoted DEF RecordInv, HandInv, Truthful
<1> QED BY <1>4, <1>5

\* What ended for a notice does not begin again.
LEMMA ClosedStays ==
  ASSUME Shape, Shape', Grows, NEW e \in Staff, OwnChanges(e), OwnChanges(e)',
         noticeQueue'[e] \subseteq noticeQueue[e],
         \A x \in delivered[e] \ delivered'[e] : x[1] \notin noticeQueue'[e],
         NEW n, NEW a \in Address, Closed(e, n, a)
  PROVE  Closed(e, n, a)'
<1>1. Turns(e, a[1]) \in Nat /\ Turns(e, a[1])' \in Nat /\ Turns(e, a[1]) <= Turns(e, a[1])' /\ a[2] \in Nat
  BY TurnsGrow DEF Address
<1>2. CASE n \notin noticeQueue[e]
  BY <1>2 DEF Closed
<1>3. CASE <<n, a>> \in delivered[e]
  BY <1>3 DEF Closed, Over
<1>4. CASE a[2] < Turns(e, a[1])
  <2>1. a[2] < Turns(e, a[1])'
    BY <1>1, <1>4
  <2> QED BY <2>1 DEF Closed, Over
<1> QED BY <1>2, <1>3, <1>4 DEF Closed, Over

\* A copy that no run sends again is not sent by a later one either.
LEMMA OverStays ==
  ASSUME Shape, Shape', Grows, NEW e \in Staff, OwnChanges(e), OwnChanges(e)', delivered[e] \subseteq delivered'[e],
         NEW n, NEW a \in Address, Over(e, n, a)
  PROVE  Over(e, n, a)'
<1>1. Turns(e, a[1]) \in Nat /\ Turns(e, a[1])' \in Nat /\ Turns(e, a[1]) <= Turns(e, a[1])' /\ a[2] \in Nat
  BY TurnsGrow DEF Address
<1>2. a[2] < Turns(e, a[1]) => a[2] < Turns(e, a[1])'
  BY <1>1
<1> QED BY <1>2 DEF Over

\* A step by which nothing new comes into play for the notices of a device.
QuietFor(e) ==
  /\ noted'[e] = noted[e] /\ noticeQueue'[e] \subseteq noticeQueue[e]
  /\ \A x \in delivered[e] \ delivered'[e] : x[1] \notin noticeQueue'[e]
  /\ Open(e)' = {} \/ delivered[e] \subseteq delivered'[e]
  /\ Open(e)' \subseteq Open(e) /\ drain'[e].toBuild \subseteq drain[e].toBuild
  /\ InPlay(e)' \subseteq InPlay(e)
  /\ \A tx \in Reported' \ Reported : \A n \in noted[e], a \in Address : Carries(tx, n, a) =>
       tx \in InPlay(e) /\ Closed(e, n, a)'

\* A step that takes up, builds and reports nothing new keeps what holds of the notices.
LEMMA NoticesKept ==
  ASSUME RecordInv, RecordInv', Grows, NEW e \in Staff, NoticeInv(e), QuietFor(e)
  PROVE  NoticeInv(e)'
<1>shape. Shape /\ Shape' /\ OwnChanges(e) /\ OwnChanges(e)'
  BY DEF RecordInv
<1>closed. \A n, a : a \in Address /\ Closed(e, n, a) => Closed(e, n, a)'
  BY <1>shape, ClosedStays DEF QuietFor
<1>1. ReportedIsClosed(e)'
  <2>1. ASSUME NEW tx \in Reported', NEW n \in noted[e], NEW a \in Address, Carries(tx, n, a)
        PROVE  Closed(e, n, a)'
    <3>1. CASE tx \in Reported
      BY <1>closed, <2>1, <3>1 DEF NoticeInv, ReportedIsClosed
    <3>2. CASE tx \notin Reported
      BY <2>1, <3>2 DEF QuietFor
    <3> QED BY <3>1, <3>2
  <2> QED BY <2>1 DEF ReportedIsClosed, QuietFor, Carries, IsCopy
<1>new. \A u \in InPlay(e)' \cup Reported' : \A n \in noted[e], a \in Address :
          Carries(u, n, a) => u \in InPlay(e) \cup Reported
  BY DEF QuietFor
<1>2. CarriedOnce(e)'
  <2>1. ASSUME NEW tx \in InPlay(e)', NEW n \in noted[e], NEW a \in Address, Carries(tx, n, a),
               NEW u \in InPlay(e)' \cup Reported', u.id # tx.id
        PROVE  ~ Carries(u, n, a)
    <3>1. tx \in InPlay(e)
      BY <2>1 DEF QuietFor
    <3> QED BY <1>new, <2>1, <3>1 DEF NoticeInv, CarriedOnce
  <2> QED BY <2>1 DEF CarriedOnce, QuietFor, Carries, IsCopy
<1>3. BuiltOnce(e)'
  <2>1. ASSUME NEW r \in drain'[e].toBuild, r.kind = "notice", NEW n \in r.content, NEW u \in InPlay(e)' \cup Reported'
        PROVE  ~ Carries(u, n, r.address)
    <3>1. r \in drain[e].toBuild
      BY <2>1 DEF QuietFor
    <3>2. r \in InHand(e)
      BY <3>1 DEF InHand, Sealed
    <3>3. n \in noted[e] /\ r.address \in Address
      BY <1>shape, <2>1, <3>2, FromNoted, InHandAreRecords DEF RecordInv, HandInv, Truthful, Record
    <3> QED BY <1>new, <2>1, <3>1, <3>3 DEF NoticeInv, BuiltOnce
  <2> QED BY <2>1 DEF BuiltOnce, Carries, IsCopy
<1>4. GroupCovers(e)'
  <2>1. CASE Open(e)' = {}
    BY <2>1 DEF GroupCovers
  <2>2. CASE delivered[e] \subseteq delivered'[e]
    <3>1. \A n, a : a \in Address /\ Over(e, n, a) => Over(e, n, a)'
      BY <1>shape, <2>2, OverStays DEF RecordInv
    <3>2. ASSUME NEW g \in Open(e)', NEW tx \in InPlay(e)', tx.id = g.tx, NEW n \in noted[e], NEW a \in Address,
                 Carries(tx, n, a)
          PROVE  (\E r \in g.items : IsCopy(r, n, a)) \/ Over(e, n, a)'
      <4>1. g \in Open(e) /\ tx \in InPlay(e)
        BY <3>2 DEF QuietFor
      <4> QED BY <3>1, <3>2, <4>1 DEF NoticeInv, GroupCovers
    <3> QED BY <3>2 DEF GroupCovers, QuietFor, Carries, IsCopy
  <2> QED BY <2>1, <2>2 DEF QuietFor
<1> QED BY <1>1, <1>2, <1>3, <1>4 DEF NoticeInv

\* A transaction is reported when its group is finished.
LEMMA ReportedByFinish ==
  ASSUME RecordInv, NEW d \in Staff, Step(d), Touches(d), NEW tx \in Reported' \ Reported
  PROVE  Finish(d) /\ tx \in Listed /\ tx.id = drain[d].group.tx /\ drain[d].group.tx \in accepted /\ tx \in InPlay(d)
<1> USE DEF storage, funds, memory
<1>1. tx \in Listed /\ tx.id \in reported' \ reported
  BY ReportedSame DEF RecordInv
<1>2. Finish(d)
  BY <1>1 DEF Step, DrainStep, Commit, PublishAll, Learn, NoteEvent, Elapse, StartDrain, Read, Seal, Build, BuildFails,
       Flush, OtherFlush, StartNotices, ReadNotice, EndNotice, EndDrain, Restart
<1>3. tx.id = drain[d].group.tx /\ drain[d].group.tx \in accepted
  BY <1>1, <1>2 DEF Finish
<1>4. drain[d].group \in Open(d)
  BY <1>2, FinishedIsListed DEF Finish, RecordInv
<1> QED BY <1>1, <1>2, <1>3, <1>4 DEF InPlay

\* Another device's step is such a step.
LEMMA OthersQuiet ==
  ASSUME RecordInv, OneNoticeEach, NEW d \in Staff, Step(d), Touches(d), NEW e \in Staff \ {d}
  PROVE  QuietFor(e)
<1>1. Untouched(e) /\ Open(e)' = Open(e)
  BY UntouchedIds DEF Touches
<1>2. InPlay(e)' \subseteq InPlay(e)
  <2>1. Listed' \subseteq Listed \cup wallet[d]
    BY DEF Touches, Builds, Spends
  <2>2. ASSUME NEW g \in Open(e), NEW tx \in wallet[d] PROVE g.tx # tx.id
    <3>1. g.tx \in Ids(e) /\ tx.id \in Ids(d)
      BY DEF Ids
    <3> QED BY <3>1 DEF RecordInv, OneOwner
  <2> QED BY <1>1, <2>1, <2>2 DEF InPlay, Untouched
<1>3. ASSUME NEW tx \in Reported' \ Reported, NEW n \in noted[e], NEW a \in Address, Carries(tx, n, a)
      PROVE  FALSE
  <2>1. tx \in InPlay(d)
    BY <1>3, ReportedByFinish
  <2>2. n \in noted[d]
    BY <1>3, <2>1, InPlayIsNoted
  <2> QED BY <1>3, <2>2, NotedByOne
<1> QED BY <1>1, <1>2, <1>3 DEF QuietFor, Untouched

\* What the queues of notices do.
LEMMA NoticeQueues ==
  ASSUME Shape, NEW d \in Staff, RunOrder(d), Step(d), ~ (\E n \in DOMAIN changes : NoteEvent(d, n))
  PROVE  /\ noted'[d] = noted[d] /\ noticeQueue'[d] \subseteq noticeQueue[d]
         /\ \A x \in delivered[d] \ delivered'[d] : x[1] \notin noticeQueue'[d]
         /\ (EndNotice(d) /\ Open(d) = {}) \/ delivered[d] \subseteq delivered'[d]
<1> USE DEF storage, funds, memory
<1>1. CASE EndNotice(d)
  <2> DEFINE n == drain[d].notice
  <2>1. noted' = noted /\ drain[d].stage = "publish" /\ drain[d].toFinish = {}
    BY <1>1 DEF EndNotice, Published, IsBuilding
  <2>2. Open(d) = {}
    BY <2>1, OpenIs
  <2>3. \/ noticeQueue' = noticeQueue /\ delivered' = delivered
        \/ noticeQueue'[d] = noticeQueue[d] \ {n} /\ delivered'[d] = {x \in delivered[d] : x[1] # n}
    BY <1>1 DEF EndNotice, Shape
  <2> QED BY <1>1, <2>1, <2>2, <2>3
<1>2. CASE ~ EndNotice(d)
  <2>1. noted' = noted /\ noticeQueue' = noticeQueue
    BY <1>2 DEF Step, DrainStep, Commit, PublishAll, Learn, Elapse, StartDrain, Read, Seal, Build, BuildFails, Flush,
         Finish, OtherFlush, StartNotices, ReadNotice, EndDrain, Restart
  <2>2. delivered[d] \subseteq delivered'[d]
    <3>1. CASE BuildFails(d) \/ Finish(d)
      <4>1. \E items, ok : Settle(d, items, ok)
        BY <3>1 DEF BuildFails, Finish
      <4> QED BY <4>1 DEF Settle, Shape
    <3>2. CASE delivered' = delivered
      BY <3>2
    <3> QED BY <1>2, <3>1, <3>2 DEF Step, DrainStep, Commit, PublishAll, Learn, Elapse, StartDrain, Read, Seal, Build,
         Flush, OtherFlush, StartNotices, ReadNotice, EndDrain, Restart
  <2> QED BY <2>1, <2>2
<1> QED BY <1>1, <1>2

\* So are the device's own, but for noting, sealing, building and taking up a notice.
LEMMA QuietStep ==
  ASSUME RecordInv, RecordInv', NEW d \in Staff, NoticeInv(d), Step(d), Touches(d),
         ~ (\E n \in DOMAIN changes : NoteEvent(d, n)), ~ Seal(d), ~ Build(d), ~ ReadNotice(d)
  PROVE  QuietFor(d)
<1>inv. /\ Shape /\ Shape' /\ OneOwner /\ OwnChanges(d) /\ OwnChanges(d)' /\ RunOrder(d) /\ HandInv(d) /\ GroupsSound(d)
        /\ Grows
  BY DEF RecordInv, Touches
<1>1. /\ noted'[d] = noted[d] /\ noticeQueue'[d] \subseteq noticeQueue[d]
      /\ \A x \in delivered[d] \ delivered'[d] : x[1] \notin noticeQueue'[d]
      /\ Open(d) = {} \/ delivered[d] \subseteq delivered'[d]
  BY <1>inv, NoticeQueues
<1>2. Open(d)' \subseteq Open(d) /\ drain'[d].toBuild \subseteq drain[d].toBuild /\ built' = built
  BY <1>inv, OpenShrinksWhen
<1>3. Spends(d)
  BY <1>2, <1>inv DEF Touches, Builds, Shape
<1>4. InPlay(d)' \subseteq InPlay(d)
  BY <1>2, <1>3 DEF InPlay, Spends
<1>5. ASSUME NEW tx \in Reported' \ Reported, NEW n \in noted[d], NEW a \in Address, Carries(tx, n, a)
      PROVE  tx \in InPlay(d) /\ Closed(d, n, a)'
  <2>1. Finish(d) /\ tx.id = drain[d].group.tx /\ drain[d].group.tx \in accepted /\ tx \in InPlay(d)
    BY <1>5, ReportedByFinish
  <2>2. drain[d].group \in Open(d) /\ drain[d].group.items \subseteq InHand(d)
    BY <1>inv, <2>1, FinishedIsListed DEF Finish
  <2> DEFINE new == {<<drain[d].notice, r.address>> : r \in {r \in drain[d].group.items : r.kind = "notice"}}
  <2>3. delivered'[d] = delivered[d] \cup new
    <3>1. delivered' = [delivered EXCEPT ![d] = @ \cup new]
      BY <2>1 DEF Finish, Settle
    <3> QED BY <1>inv, <3>1 DEF Shape
  <2>4. (\E r \in drain[d].group.items : IsCopy(r, n, a)) \/ Over(d, n, a)
    BY <1>5, <2>1, <2>2 DEF NoticeInv, GroupCovers
  <2>5. CASE \E r \in drain[d].group.items : IsCopy(r, n, a)
    <3>1. PICK r \in drain[d].group.items : r.kind = "notice" /\ n \in r.content /\ r.address = a
      BY <2>5 DEF IsCopy
    <3>2. drain[d].notice = n
      BY <1>inv, <2>2, <3>1 DEF HandInv, OneKind
    <3>3. <<n, a>> \in new
      BY <3>1, <3>2
    <3>4. <<n, a>> \in delivered'[d]
      BY <2>3, <3>3
    <3> QED BY <2>1, <3>4 DEF Closed, Over
  <2>6. CASE Over(d, n, a)
    <3>1. Over(d, n, a)'
      BY <1>inv, <2>3, <2>6, <1>5, OverStays
    <3> QED BY <2>1, <3>1 DEF Closed
  <2> QED BY <2>4, <2>5, <2>6
<1> QED BY <1>1, <1>2, <1>4, <1>5 DEF QuietFor

\* A new notice has no copy yet.
LEMMA NoteEventNotices ==
  ASSUME RecordInv, RecordInv', OneNoticeEach, NEW d \in Staff, NoticeInv(d), NEW n \in DOMAIN changes, NoteEvent(d, n)
  PROVE  NoticeInv(d)'
<1>1. /\ n \in noting[d] /\ noted'[d] = noted[d] \cup {n} /\ noticeQueue'[d] \subseteq noticeQueue[d] \cup {n}
      /\ UNCHANGED <<changes, known, delivered, wallet, drain, chain, reported>>
  BY DEF NoteEvent, RecordInv, Shape, funds
<1>2. Listed' = Listed /\ Open(d)' = Open(d)
  BY <1>1 DEF Listed, Open
<1>3. InPlay(d)' = InPlay(d) /\ Reported' = Reported
  BY <1>1, <1>2 DEF InPlay, Reported
<1>4. \A tx \in InPlay(d) \cup Reported : \A a : ~ Carries(tx, n, a)
  BY <1>1, NotedFirst DEF InPlay, Reported
<1>5. \A m, a : Over(d, m, a)' <=> Over(d, m, a)
  BY <1>1 DEF Over, Turns, Rotations, viewFor, About
<1>6. n \notin noted[d]
  BY <1>1 DEF RecordInv, OwnChanges
<1>7. \A m \in noted[d] : \A a : Closed(d, m, a) => Closed(d, m, a)'
  BY <1>1, <1>5, <1>6 DEF Closed
<1>8. ReportedIsClosed(d)'
  <2>1. ASSUME NEW tx \in Reported, NEW m \in noted'[d], NEW a \in Address, Carries(tx, m, a) PROVE Closed(d, m, a)'
    <3>1. m \in noted[d]
      BY <1>1, <1>4, <2>1
    <3> QED BY <1>7, <2>1, <3>1 DEF NoticeInv, ReportedIsClosed
  <2> QED BY <1>3, <2>1 DEF ReportedIsClosed, Carries, IsCopy
<1>9. CarriedOnce(d)'
  <2>1. ASSUME NEW tx \in InPlay(d), NEW m \in noted'[d], NEW a \in Address, Carries(tx, m, a),
               NEW u \in InPlay(d) \cup Reported, u.id # tx.id
        PROVE  ~ Carries(u, m, a)
    <3>1. m \in noted[d]
      BY <1>1, <1>4, <2>1
    <3> QED BY <2>1, <3>1 DEF NoticeInv, CarriedOnce
  <2> QED BY <1>3, <2>1 DEF CarriedOnce, Carries, IsCopy
<1>10. BuiltOnce(d)'
  BY <1>1, <1>3 DEF NoticeInv, BuiltOnce, Carries, IsCopy
<1>11. GroupCovers(d)'
  <2>1. ASSUME NEW g \in Open(d), NEW tx \in InPlay(d), tx.id = g.tx, NEW m \in noted'[d], NEW a \in Address,
               Carries(tx, m, a)
        PROVE  (\E r \in g.items : IsCopy(r, m, a)) \/ Over(d, m, a)
    <3>1. m \in noted[d]
      BY <1>1, <1>4, <2>1
    <3> QED BY <2>1, <3>1 DEF NoticeInv, GroupCovers
  <2> QED BY <1>2, <1>3, <1>5, <2>1 DEF GroupCovers, Carries, IsCopy
<1> QED BY <1>8, <1>9, <1>10, <1>11 DEF NoticeInv

\* A run that takes up records: what it finds in the wallet was in play.
LEMMA TakenUp ==
  ASSUME RecordInv, NEW d \in Staff, NoticeInv(d), NEW items \in SUBSET Record, Open(d)' = Groups(d, items),
         UNCHANGED <<changes, known, noted, noticeQueue, delivered, wallet, chain, reported>>
  PROVE  /\ InPlay(d)' \subseteq wallet[d] /\ wallet[d] \subseteq InPlay(d) /\ Reported' = Reported
         /\ \A n, a : Over(d, n, a)' <=> Over(d, n, a)
         /\ ReportedIsClosed(d)' /\ CarriedOnce(d)'
<1>1. Listed' = Listed
  BY DEF Listed
<1>2. \A g \in Groups(d, items) : \E u \in wallet[d] : g.tx = u.id
  <2>1. ASSUME NEW g \in Groups(d, items) PROVE \E u \in wallet[d] : g.tx = u.id
    <3>1. g.items # {} /\ \A r \in g.items : \E u \in Carriers(d, r) : g.tx = u.id
      BY <2>1, GroupsAreGroups DEF RecordInv
    <3> QED BY <3>1 DEF Carriers
  <2> QED BY <2>1
<1>3. InPlay(d)' \subseteq wallet[d]
  <2>1. ASSUME NEW tx \in Listed, NEW g \in Groups(d, items), g.tx = tx.id PROVE tx \in wallet[d]
    <3>1. PICK u \in wallet[d] : g.tx = u.id
      BY <1>2
    <3>2. tx = u
      BY <2>1, <3>1, OneOfItsNumber DEF RecordInv
    <3> QED BY <3>1, <3>2
  <2> QED BY <1>1, <2>1 DEF InPlay
<1>4. wallet[d] \subseteq InPlay(d)
  BY DEF InPlay
<1>5. Reported' = Reported
  BY <1>1 DEF Reported
<1>6. \A n, a : Over(d, n, a)' <=> Over(d, n, a)
  BY DEF Over, Turns, Rotations, viewFor, About
<1>7. ReportedIsClosed(d)'
  BY <1>5, <1>6 DEF NoticeInv, ReportedIsClosed, Closed, Carries, IsCopy
<1>8. CarriedOnce(d)'
  BY <1>3, <1>4, <1>5 DEF NoticeInv, CarriedOnce, Carries, IsCopy
<1> QED BY <1>3, <1>4, <1>5, <1>6, <1>7, <1>8

\* Sealing views takes up no notice.
LEMMA SealNotices ==
  ASSUME RecordInv, OneNoticeEach, NEW d \in Staff, NoticeInv(d), Seal(d)
  PROVE  NoticeInv(d)'
<1>1. UNCHANGED <<changes, known, noted, noticeQueue, delivered, wallet, chain, reported>> /\ drain[d].stage = "read"
  BY DEF Seal, funds
<1>2. PICK sealed \in SUBSET Record :
        /\ sealed = {r \in drain[d].items : ~ IsTooLarge(r)}
        /\ Open(d)' = Groups(d, sealed) /\ drain'[d].toBuild = sealed \ Built(d, sealed)
  BY SealGroups DEF RecordInv
<1>3. \A r \in sealed : r.kind = "view" /\ r \in InHand(d)
  <2>1. drain[d].notice = 0
    BY <1>1 DEF RecordInv, RunOrder
  <2> QED BY <1>2, <2>1 DEF RecordInv, HandInv, OneKind, InHand
<1>4. /\ InPlay(d)' \subseteq wallet[d] /\ Reported' = Reported
      /\ ReportedIsClosed(d)' /\ CarriedOnce(d)'
  BY <1>1, <1>2, TakenUp
<1>5. BuiltOnce(d)'
  BY <1>2, <1>3 DEF BuiltOnce
<1>6. ASSUME NEW g \in Groups(d, sealed), NEW tx \in wallet[d], tx.id = g.tx, NEW n, NEW a
      PROVE  ~ Carries(tx, n, a)
  <2>1. \A r \in sealed : From(d, r)
    BY <1>3 DEF RecordInv, HandInv, Truthful
  <2>2. \A r \in sealed : \A u \in wallet[d] : \A s \in u.records :
          s.kind = "view" /\ r.kind = "view" /\ s.cadet = r.cadet => s.content \subseteq r.content
    BY <1>2 DEF RecordInv, HandInv, ReadIsNewer
  <2>3. Within(g.items, tx)
    BY <1>6, <2>1, <2>2, GroupsAreInTheirs DEF RecordInv, HandInv
  <2>4. g.items # {} /\ g.items \subseteq sealed
    BY GroupsAreGroups DEF RecordInv
  <2>5. PICK r \in g.items : TRUE
    BY <2>4
  <2>6. \E s \in tx.records : s.kind = "view"
    BY <1>3, <2>3, <2>4, <2>5 DEF Within, Alike
  <2> QED BY <2>6 DEF OneNoticeEach, OneNotice, Carries, IsCopy
<1>7. GroupCovers(d)'
  BY <1>2, <1>4, <1>6 DEF GroupCovers, Carries, IsCopy
<1> QED BY <1>4, <1>5, <1>7 DEF NoticeInv

\* A notice that waits in the wallet for an address is found there.
LEMMA CopyIsCarrier ==
  ASSUME RecordInv, NEW d \in Staff, NEW tx \in wallet[d], NEW n, NEW a, Carries(tx, n, a)
  PROVE  tx \in Carriers(d, Notice(n, a))
<1>1. PICK s \in tx.records : s.kind = "notice" /\ n \in s.content /\ s.address = a
  BY DEF Carries, IsCopy
<1>2. From(d, s)
  BY DEF RecordInv, HandInv, Truthful
<1>3. s.content = {n}
  BY <1>1, <1>2, FromNoted
<1>4. Correlation(Notice(n, a)) = Correlation(s)
  BY <1>1, <1>3 DEF Correlation, Notice
<1> QED BY <1>1, <1>4 DEF Carriers

\* When a notice is taken up, the copies already carried are grouped with their
\* transaction, and only what nothing carries is to build.
LEMMA ReadNoticeNotices ==
  ASSUME RecordInv, OneNoticeEach, NEW d \in Staff, NoticeInv(d), ReadNotice(d)
  PROVE  NoticeInv(d)'
<1>inv. Shape /\ OneOwner /\ OwnChanges(d) /\ RunOrder(d) /\ Truthful(d) /\ GroupsSound(d)
  BY DEF RecordInv, HandInv
<1>1. UNCHANGED <<changes, known, noted, noticeQueue, delivered, wallet, chain, reported>>
  BY DEF ReadNotice, storage, funds
<1>2. PICK n \in noticeQueue[d], items \in SUBSET Record :
        /\ items = {Notice(n, a) : a \in Left(d, n)}
        /\ Open(d)' = Groups(d, items) /\ drain'[d].toBuild = items \ Built(d, items)
  BY <1>inv, ReadNoticeGroups
<1>3. /\ InPlay(d)' \subseteq wallet[d] /\ wallet[d] \subseteq InPlay(d) /\ Reported' = Reported
      /\ \A m, a : Over(d, m, a)' <=> Over(d, m, a)
      /\ ReportedIsClosed(d)' /\ CarriedOnce(d)'
  BY <1>1, <1>2, TakenUp
<1>4. n \in noted[d] /\ changes[n].kind = "NOTICE"
  BY <1>inv DEF OwnChanges
<1>5. \A a \in Left(d, n) : a \in Address /\ ~ Over(d, n, a)
  <2>1. ASSUME NEW a \in Left(d, n) PROVE a \in Address /\ ~ Over(d, n, a)
    <3>1. a \in Address /\ <<n, a>> \notin delivered[d]
      BY <1>inv, LeftAreRecords DEF Left
    <3>2. PICK c \in AudienceOf(n) : a = channelFor(d, c)
      BY DEF Left, noticeFor
    <3>3. a[1] = c /\ a[2] = Turns(d, c)
      BY <3>2 DEF channelFor, Turns
    <3>4. a[2] \in Nat
      BY <3>1 DEF Address
    <3>5. ~ (a[2] < Turns(d, a[1]))
      BY <3>3, <3>4
    <3> QED BY <3>1, <3>5 DEF Over
  <2> QED BY <2>1
<1>6. BuiltOnce(d)'
  <2>1. ASSUME NEW r \in items \ Built(d, items), NEW m \in r.content, NEW u \in wallet[d] \cup Reported
        PROVE  ~ Carries(u, m, r.address)
    <3>1. PICK a \in Left(d, n) : r = Notice(n, a)
      BY <1>2, <2>1
    <3>2. m = n /\ r.address = a
      BY <2>1, <3>1 DEF Notice
    <3>3. Carriers(d, r) = {}
      BY <2>1 DEF Built
    <3>4. CASE u \in wallet[d]
      BY <3>1, <3>2, <3>3, <3>4, CopyIsCarrier
    <3>5. CASE u \in Reported
      <4>1. ~ Closed(d, n, a)
        BY <1>5 DEF Closed
      <4> QED BY <1>4, <1>5, <3>2, <3>5, <4>1 DEF NoticeInv, ReportedIsClosed
    <3> QED BY <2>1, <3>4, <3>5
  <2> QED BY <1>2, <1>3, <2>1 DEF BuiltOnce, Carries, IsCopy
<1>7. ASSUME NEW g \in Groups(d, items), NEW tx \in wallet[d], tx.id = g.tx, NEW m \in noted[d], NEW a \in Address,
             Carries(tx, m, a)
      PROVE  (\E r \in g.items : IsCopy(r, m, a)) \/ Over(d, m, a)
  <2>1. \A r \in items : From(d, r) /\ r.kind = "notice" /\ r.content = {n}
    BY <1>inv, <1>2, NoticeIsOf
  <2>2. \A r \in items : \A u \in wallet[d] : \A s \in u.records :
          s.kind = "view" /\ r.kind = "view" /\ s.cadet = r.cadet => s.content \subseteq r.content
    BY <2>1
  <2>4. g.items # {} /\ g.items \subseteq items
    BY <1>inv, GroupsAreGroups
  <2>3. g.items \subseteq tx.records
    <3>1. Within(g.items, tx)
      BY <1>inv, <1>7, <2>1, <2>2, GroupsAreInTheirs
    <3> QED BY <2>1, <2>4, <3>1 DEF Within, Alike
  <2>5. PICK r0 \in g.items : TRUE
    BY <2>4
  <2>6. PICK s \in tx.records : s.kind = "notice" /\ m \in s.content /\ s.address = a
    BY <1>7 DEF Carries, IsCopy
  <2>7. s.content = r0.content
    BY <2>1, <2>3, <2>4, <2>5, <2>6 DEF OneNoticeEach, OneNotice
  <2>8. m = n
    BY <2>1, <2>4, <2>5, <2>6, <2>7
  <2>9. NoticeOf(d, s)
    BY <1>inv, <2>6, FromNoted DEF Truthful
  <2>10. s.cadet \in AudienceOf(n) /\ a[1] = s.cadet /\ a[2] <= Turns(d, s.cadet)
    BY <2>1, <2>4, <2>5, <2>6, <2>7, <2>9 DEF NoticeOf
  <2>11. s.cadet \in Cadet /\ Turns(d, s.cadet) \in Nat /\ a[2] \in Nat /\ a = <<a[1], a[2]>>
    <3>1. s.cadet \in Cadet
      BY <1>inv, <2>10, LeftAreRecords
    <3>2. Turns(d, s.cadet) \in Nat
      BY <1>inv, <3>1, ViewIsRecord DEF channelFor, Turns, Address
    <3> QED BY <3>1, <3>2 DEF Address
  <2>12. CASE a[2] < Turns(d, s.cadet)
    BY <2>10, <2>12 DEF Over
  <2>13. CASE <<n, a>> \in delivered[d]
    BY <2>8, <2>13 DEF Over
  <2>14. CASE ~ (a[2] < Turns(d, s.cadet)) /\ <<n, a>> \notin delivered[d]
    <3>1. a = channelFor(d, s.cadet)
      <4>1. a[2] = Turns(d, s.cadet)
        BY <2>10, <2>11, <2>14
      <4> QED BY <2>10, <2>11, <4>1 DEF channelFor, Turns
    <3>2. a \in Left(d, n)
      BY <2>10, <2>14, <3>1 DEF Left, noticeFor
    <3> DEFINE r == Notice(n, a)
    <3>3. r \in items /\ tx \in Carriers(d, r)
      BY <1>2, <1>7, <2>8, <3>2, CopyIsCarrier
    <3>4. r \in Built(d, items)
      BY <3>3 DEF Built
    <3>5. PICK u \in Carriers(d, r) : TxOf(d, r) = u.id
      BY <1>inv, <3>3, TxOfExists
    <3>6. u \in wallet[d] /\ Carries(u, n, a)
      <4>1. u \in wallet[d] /\ Correlation(r) \in {Correlation(t) : t \in u.records}
        BY DEF Carriers
      <4>2. PICK t \in u.records : Correlation(r) = Correlation(t)
        BY <4>1
      <4>3. t.kind = "notice" /\ t.content = {n} /\ t.address = a
        <5>1. t.kind \in {"view", "notice"}
          BY <1>inv, <4>1, InHandAreRecords DEF Record
        <5>2. r.kind = "notice" /\ r.content = {n} /\ r.address = a
          BY DEF Notice
        <5> HIDE DEF r
        <5> QED BY <4>2, <5>1, <5>2 DEF Correlation
      <4> QED BY <4>1, <4>3 DEF Carries, IsCopy
    <3>7. u.id = tx.id
      BY <1>3, <1>7, <2>8, <3>6 DEF NoticeInv, CarriedOnce
    <3>8. PICK r1 \in Built(d, items) :
            g = [tx |-> TxOf(d, r1), items |-> {q \in Built(d, items) : TxOf(d, q) = TxOf(d, r1)}]
      BY DEF Groups
    <3>9. r \in g.items
      BY <1>7, <3>4, <3>5, <3>7, <3>8
    <3>10. IsCopy(r, m, a)
      BY <2>8 DEF IsCopy, Notice
    <3> QED BY <3>9, <3>10
  <2> QED BY <2>12, <2>13, <2>14
<1>8. GroupCovers(d)'
  BY <1>1, <1>2, <1>3, <1>7 DEF GroupCovers, Carries, IsCopy
<1> QED BY <1>3, <1>6, <1>8 DEF NoticeInv

\* A built copy is of no other transaction that waits or was reported.
LEMMA BuildNotices ==
  ASSUME RecordInv, OneNoticeEach, NEW d \in Staff, NoticeInv(d), Build(d)
  PROVE  NoticeInv(d)'
<1>inv. Shape /\ OneOwner /\ OwnChanges(d) /\ RunOrder(d) /\ OneKind(d) /\ Truthful(d)
  BY DEF RecordInv, HandInv
<1>1. /\ UNCHANGED <<changes, known, noted, noticeQueue, delivered, chain, reported>>
      /\ built' = built + 1 /\ built \in Nat /\ drain[d].stage = "publish" /\ drain[d].toFinish = {}
  BY <1>inv DEF Build, IsBuilding, storage, Shape
<1>2. PICK batch \in SUBSET drain[d].toBuild :
        /\ wallet'[d] = wallet[d] \cup {[id |-> built', records |-> batch]}
        /\ Open(d)' = {[tx |-> built', items |-> batch]}
        /\ drain'[d].toBuild = drain[d].toBuild \ batch
  BY <1>inv, BuildGroups
<1>3. Listed' = Listed
  BY <1>1 DEF Listed
<1>4. Reported' = Reported
  BY <1>1, <1>3 DEF Reported
<1> DEFINE new == [id |-> built + 1, records |-> batch]
<1>5. \A tx \in Listed \cup wallet[d] : tx.id # built + 1
  BY <1>inv, <1>1, WaitingIsOwn DEF OneOwner
<1>6. InPlay(d)' = wallet[d] \cup {new}
  <2>1. ~ \E tx \in Listed' : \E g \in Open(d)' : g.tx = tx.id
    BY <1>1, <1>2, <1>3, <1>5
  <2>2. InPlay(d)' = wallet'[d]
    BY <2>1 DEF InPlay
  <2> QED BY <1>1, <1>2, <2>2
<1>7. new.id = built + 1 /\ new.records = batch /\ wallet[d] \subseteq InPlay(d) /\ Open(d) = {}
  BY <1>inv, <1>1, OpenIs DEF InPlay
<1>8. \A r \in drain[d].toBuild : r \in InHand(d) /\ r \in Record /\ From(d, r)
  BY <1>inv, InHandAreRecords DEF InHand, Sealed, Truthful
<1> HIDE DEF new
<1>9. \A m, a : Over(d, m, a)' <=> Over(d, m, a)
  BY <1>1 DEF Over, Turns, Rotations, viewFor, About
<1>10. ReportedIsClosed(d)'
  BY <1>1, <1>4, <1>9 DEF NoticeInv, ReportedIsClosed, Closed, Carries, IsCopy
\* What the new transaction carries nothing else does.
<1>11. ASSUME NEW m, NEW a, Carries(new, m, a), NEW u \in wallet[d] \cup Reported PROVE ~ Carries(u, m, a)
  <2>1. PICK r \in batch : r.kind = "notice" /\ m \in r.content /\ r.address = a
    BY <1>7, <1>11 DEF Carries, IsCopy
  <2> QED BY <1>2, <1>7, <1>11, <2>1 DEF NoticeInv, BuiltOnce
<1>12. CarriedOnce(d)'
  <2>1. ASSUME NEW tx \in wallet[d] \cup {new}, NEW m \in noted[d], NEW a \in Address, Carries(tx, m, a),
               NEW u \in wallet[d] \cup {new} \cup Reported, u.id # tx.id
        PROVE  ~ Carries(u, m, a)
    <3>1. CASE tx = new
      BY <1>11, <2>1, <3>1
    <3>2. CASE u = new
      BY <1>11, <2>1, <3>2
    <3>3. CASE tx # new /\ u # new
      BY <1>7, <2>1, <3>3 DEF NoticeInv, CarriedOnce
    <3> QED BY <3>1, <3>2, <3>3
  <2> QED BY <1>1, <1>4, <1>6, <2>1 DEF CarriedOnce, Carries, IsCopy
<1>13. BuiltOnce(d)'
  <2>1. ASSUME NEW r \in drain[d].toBuild \ batch, r.kind = "notice", NEW m \in r.content,
               NEW u \in wallet[d] \cup {new} \cup Reported
        PROVE  ~ Carries(u, m, r.address)
    <3>1. CASE u # new
      BY <1>7, <2>1, <3>1 DEF NoticeInv, BuiltOnce
    <3>2. ASSUME Carries(new, m, r.address) PROVE FALSE
      <4>1. PICK s \in batch : s.kind = "notice" /\ m \in s.content /\ s.address = r.address
        BY <1>7, <3>2 DEF Carries, IsCopy
      <4>2. s \in Record /\ r \in Record /\ From(d, s) /\ From(d, r)
        BY <1>2, <1>8
      <4>3. s.content = r.content
        <5>1. s \in InHand(d) /\ r \in InHand(d)
          BY <1>2, <1>8
        <5>2. r.content = {drain[d].notice}
          BY <1>inv, <2>1, <5>1 DEF OneKind
        <5>3. s.content = {drain[d].notice}
          BY <1>inv, <4>1, <5>1 DEF OneKind
        <5> QED BY <5>2, <5>3
      <4>4. Correlation(r) = Correlation(s)
        BY <2>1, <4>1, <4>3 DEF Correlation
      <4>5. s = r
        <5>1. Alike(s, r)
          BY <1>inv, <2>1, <4>2, <4>4, SameRecord
        <5> QED BY <2>1, <5>1 DEF Alike
      <4> QED BY <2>1, <4>5
    <3> QED BY <3>1, <3>2
  <2> QED BY <1>2, <1>4, <1>6, <2>1 DEF BuiltOnce, Carries, IsCopy
<1>14. GroupCovers(d)'
  <2>1. ASSUME NEW tx \in wallet[d] \cup {new}, tx.id = built + 1, NEW m, NEW a, Carries(tx, m, a)
        PROVE  \E r \in batch : IsCopy(r, m, a)
    <3>1. tx = new
      BY <1>5, <2>1
    <3> QED BY <1>7, <2>1, <3>1 DEF Carries
  <2>2. \A g \in Open(d)' : g.tx = built + 1 /\ g.items = batch
    BY <1>1, <1>2
  <2> QED BY <1>6, <2>1, <2>2 DEF GroupCovers, Carries, IsCopy
<1> QED BY <1>10, <1>12, <1>13, <1>14 DEF NoticeInv

\* What holds of the notices holds after every step of the device.
LEMMA StepKeepsNotices ==
  ASSUME RecordInv, RecordInv', OneNoticeEach, NEW d \in Staff, NoticeInv(d), Step(d), Touches(d)
  PROVE  NoticeInv(d)'
<1>1. CASE \E n \in DOMAIN changes : NoteEvent(d, n)
  BY <1>1, NoteEventNotices
<1>2. CASE Seal(d)
  BY <1>2, SealNotices
<1>3. CASE Build(d)
  BY <1>3, BuildNotices
<1>4. CASE ReadNotice(d)
  BY <1>4, ReadNoticeNotices
<1>5. CASE ~ (\E n \in DOMAIN changes : NoteEvent(d, n)) /\ ~ Seal(d) /\ ~ Build(d) /\ ~ ReadNotice(d)
  BY <1>5, QuietStep, NoticesKept DEF Touches
<1> QED BY <1>1, <1>2, <1>3, <1>4, <1>5

\* No transaction is built of two notices, or of a notice and a view.
LEMMA OneNoticeKept ==
  ASSUME RecordInv, OneNoticeEach, NEW d \in Staff, Step(d), Touches(d)
  PROVE  OneNoticeEach'
<1>1. Listed' \subseteq Listed \cup wallet[d]
  BY DEF Touches, Builds, Spends
<1>2. \A e \in Staff \ {d} : wallet'[e] = wallet[e]
  BY DEF Touches, Untouched
<1>3. ASSUME NEW tx \in wallet'[d] PROVE OneNotice(tx)
  <2>1. CASE tx \in wallet[d]
    BY <2>1 DEF OneNoticeEach
  <2>2. CASE tx \notin wallet[d]
    <3>1. Build(d)
      <4>1. ~ (wallet'[d] \subseteq wallet[d])
        BY <1>3, <2>2
      <4>2. Builds(d)
        BY <4>1 DEF Touches, Spends
      <4>3. built' # built
        BY <4>2 DEF Builds, RecordInv, Shape
      <4>4. Build(d) \/ Seal(d) \/ ReadNotice(d)
        BY <4>3, OpenShrinksWhen DEF RecordInv
      <4> QED BY <4>3, <4>4 DEF Seal, ReadNotice, funds
    <3>2. PICK batch \in SUBSET drain[d].toBuild : wallet'[d] = wallet[d] \cup {[id |-> built', records |-> batch]}
      BY <3>1, BuildGroups DEF RecordInv
    <3>3. tx.records = batch
      BY <1>3, <2>2, <3>2
    <3>4. \A r \in batch : r \in InHand(d)
      BY DEF InHand, Sealed
    <3> QED BY <3>3, <3>4 DEF OneNotice, RecordInv, HandInv, OneKind
  <2> QED BY <2>1, <2>2
<1>4. \A tx \in Listed' : OneNotice(tx)
  BY <1>1 DEF OneNoticeEach
<1>5. \A e \in Staff : \A tx \in wallet'[e] : OneNotice(tx)
  BY <1>2, <1>3 DEF OneNoticeEach
<1> QED BY <1>4, <1>5 DEF OneNoticeEach, OneNotice

\* A run reports a copy only in the group of the one transaction that carries it.
LEMMA ReportedOnceKept ==
  ASSUME RecordInv, RecordInv', OneNoticeEach, NEW d \in Staff, NoticeInv(d), Step(d), Touches(d), ReportedOnce
  PROVE  ReportedOnce'
<1>1. ASSUME NEW tx \in Reported', NEW u \in Reported', NEW n \in DOMAIN changes', NEW a \in Address,
             Carries(tx, n, a), Carries(u, n, a)
      PROVE  tx.id = u.id
  <2>new. \A v \in Reported' \ Reported : v \in InPlay(d) /\ v.id = drain[d].group.tx
    BY ReportedByFinish
  <2>1. CASE tx \in Reported /\ u \in Reported
    <3>1. PICK r \in tx.records : r.kind = "notice" /\ n \in r.content
      BY <1>1 DEF Carries, IsCopy
    <3>2. PICK e \in Staff : From(e, r)
      BY <2>1, <3>1, ListedAreOnChain DEF Reported, RecordInv, ChainTruthful
    <3>3. n \in noted[e]
      BY <3>1, <3>2, FromNoted
    <3>4. n \in DOMAIN changes
      BY <3>3 DEF RecordInv, OwnChanges
    <3> QED BY <1>1, <2>1, <3>4 DEF ReportedOnce
  <2>2. CASE tx \notin Reported
    <3>1. n \in noted[d] /\ tx \in InPlay(d)
      BY <1>1, <2>new, <2>2, InPlayIsNoted
    <3>2. CASE u \in Reported
      BY <1>1, <3>1, <3>2 DEF NoticeInv, CarriedOnce
    <3>3. CASE u \notin Reported
      BY <1>1, <2>new, <2>2, <3>3
    <3> QED BY <3>2, <3>3
  <2>3. CASE u \notin Reported /\ tx \in Reported
    <3>1. n \in noted[d] /\ u \in InPlay(d)
      BY <1>1, <2>new, <2>3, InPlayIsNoted
    <3> QED BY <1>1, <2>3, <3>1 DEF NoticeInv, CarriedOnce
  <2> QED BY <2>1, <2>2, <2>3
<1> QED BY <1>1 DEF ReportedOnce, Carries, IsCopy

-----------------------------------------------------------------------------
(* The notices, as one invariant with the records. *)

PublisherInv ==
  /\ RecordInv /\ OneNoticeEach /\ ReportedOnce
  /\ \A d \in Staff : SentInv(d) /\ NoticeInv(d)

\* The whole invariant holds at first.
LEMMA NoticesAtFirst == Init => PublisherInv
<1> SUFFICES ASSUME Init PROVE PublisherInv
  OBVIOUS
<1>1. RecordInv
  BY RecordsAtFirst
<1>2. Listed = {} /\ Reported = {} /\ \A d \in Staff : wallet[d] = {}
  BY DEF Init, Listed, Reported
<1>3. OneNoticeEach /\ ReportedOnce
  BY <1>2 DEF OneNoticeEach, ReportedOnce
<1>4. ASSUME NEW d \in Staff PROVE SentInv(d) /\ NoticeInv(d)
  <2>1. drain[d] = Idle /\ delivered[d] = {} /\ noted[d] = {}
    BY DEF Init
  <2>2. Idle.toBuild = {} /\ Idle.notice = 0 /\ Idle.stage = "idle"
    BY DEF Idle
  <2>3. Open(d) = {}
    BY <1>1, <2>1, <2>2, OpenIs DEF RecordInv
  <2>4. SentInv(d)
    BY <2>1, <2>2 DEF SentInv, DeliveredTrue, AllOnTheirWay, SentByNow
  <2>5. InPlay(d) = {}
    BY <1>2 DEF InPlay
  <2>6. NoticeInv(d)
    BY <1>2, <2>1, <2>2, <2>3, <2>5 DEF NoticeInv, ReportedIsClosed, CarriedOnce, BuiltOnce, GroupCovers
  <2> QED BY <2>4, <2>6
<1> QED BY <1>1, <1>3, <1>4 DEF PublisherInv

\* The whole invariant holds after every step of a device.
LEMMA NoticesStepKept ==
  ASSUME PublisherInv, NEW d \in Staff, Step(d)
  PROVE  PublisherInv'
<1>1. RecordInv /\ RecordInv' /\ Touches(d) /\ Grows
  BY RecordsKept DEF PublisherInv, Touches
<1>2. Shape /\ OneOwner /\ OwnChanges(d) /\ RunOrder(d) /\ HandInv(d) /\ GroupsSound(d)
  BY <1>1 DEF RecordInv
<1>3. SentInv(d)'
  BY <1>1, <1>2, StepKeepsSent DEF PublisherInv
<1>4. NoticeInv(d)'
  BY <1>1, StepKeepsNotices DEF PublisherInv
<1>5. ASSUME NEW e \in Staff \ {d} PROVE SentInv(e)' /\ NoticeInv(e)'
  <2>1. SentInv(e)'
    BY <1>1, OthersSent DEF PublisherInv, RecordInv, Touches
  <2>2. QuietFor(e)
    BY <1>1, OthersQuiet DEF PublisherInv
  <2>3. NoticeInv(e)'
    BY <1>1, <2>2, NoticesKept DEF PublisherInv
  <2> QED BY <2>1, <2>3
<1>6. OneNoticeEach' /\ ReportedOnce'
  BY <1>1, OneNoticeKept, ReportedOnceKept DEF PublisherInv
<1> QED BY <1>1, <1>3, <1>4, <1>5, <1>6 DEF PublisherInv

\* The whole invariant holds when nothing happens.
LEMMA NoticesStutter ==
  ASSUME PublisherInv, UNCHANGED vars
  PROVE  PublisherInv'
<1> USE DEF vars, storage, funds, memory
<1>1. RecordInv /\ RecordInv' /\ Shape
  BY RecordsStutter DEF PublisherInv, RecordInv
<1>2. Listed' = Listed /\ Grows
  BY <1>1, SameWorldGrows
<1>3. Reported' = Reported
  BY <1>2 DEF Reported
<1>4. OneNoticeEach' /\ ReportedOnce'
  BY <1>2, <1>3 DEF PublisherInv, OneNoticeEach, ReportedOnce, OneNotice, Carries, IsCopy
<1>5. ASSUME NEW e \in Staff PROVE SentInv(e)' /\ NoticeInv(e)'
  <2>1. Untouched(e)
    BY DEF Untouched
  <2>2. Open(e)' = Open(e)
    BY <2>1, UntouchedIds
  <2>3. SentInv(e)'
    BY <1>1, <1>2, <2>1, OthersSent DEF PublisherInv, RecordInv
  <2>4. InPlay(e)' = InPlay(e)
    BY <1>2, <2>2 DEF InPlay
  <2>5. QuietFor(e)
    BY <1>3, <2>1, <2>2, <2>4 DEF QuietFor, Untouched
  <2>6. NoticeInv(e)'
    BY <1>1, <1>2, <2>5, NoticesKept DEF PublisherInv
  <2> QED BY <2>3, <2>6
<1> QED BY <1>1, <1>4, <1>5 DEF PublisherInv

\* The inductive invariant of the publisher, for any number of staff, cadets and changes.
THEOREM PublisherInductive == Spec => []PublisherInv
<1>1. PublisherInv /\ [Next]_vars => PublisherInv'
  <2> SUFFICES ASSUME PublisherInv, [Next]_vars PROVE PublisherInv'
    OBVIOUS
  <2>1. CASE Next
    <3>1. PICK d \in Staff : Step(d)
      BY <2>1 DEF Next, Step
    <3> QED BY <3>1, NoticesStepKept
  <2>2. CASE UNCHANGED vars
    BY <2>2, NoticesStutter
  <2> QED BY <2>1, <2>2
<1> QED BY <1>1, NoticesAtFirst, PTL DEF Spec

\* A notice that left the queue reached each cadet it is for; and of the transactions that
\* wait, that a run is about to look for and that a run reported, at most one carries it to
\* an address, whatever failed or restarted between.
THEOREM NoticesGoEverywhereOnce == Spec => []NoticeEverywhereOnce
<1>1. PublisherInv => SentToAll
  BY DEF PublisherInv, SentInv, SentByNow, SentToAll
<1>2. PublisherInv => SentOnce
  <2> SUFFICES ASSUME PublisherInv, NEW n \in DOMAIN changes, NEW a \in Addressed(HeardOf)
               PROVE  Cardinality(CopiesOf(HeardOf, n, a)) <= 1
    BY DEF SentOnce
  <2> DEFINE S == CopiesOf(HeardOf, n, a)
  <2>1. ASSUME NEW tx \in HeardOf PROVE tx \in Reported \/ \E d \in Staff : tx \in InPlay(d)
    <3>1. CASE \E d \in Staff : tx \in wallet[d]
      BY <3>1 DEF InPlay
    <3>2. CASE tx \in Listed /\ tx.id \in reported
      BY <3>2 DEF Reported
    <3>3. CASE tx \in Listed /\ \E d \in Staff : tx.id \in {g.tx : g \in OpenOf(d)}
      <4>1. PICK d \in Staff : tx.id \in {g.tx : g \in OpenOf(d)}
        BY <3>3
      <4>2. PICK g \in OpenOf(d) : tx.id = g.tx
        BY <4>1
      <4>3. tx.id # 0
        BY <3>3 DEF PublisherInv, RecordInv, OneOwner, Shape
      <4>4. g \in Open(d)
        BY <4>2, <4>3 DEF OpenOf, Open, NoGroup
      <4> QED BY <3>3, <4>2, <4>4 DEF InPlay
    <3> QED BY <2>1, <3>1, <3>2, <3>3 DEF HeardOf
  <2>2. ASSUME NEW d \in Staff, NEW tx \in InPlay(d), NEW u \in HeardOf, Carries(tx, n, a), Carries(u, n, a)
        PROVE  tx.id = u.id
    <3>1. n \in noted[d] /\ a \in Address
      BY <2>2, InPlayIsNoted DEF PublisherInv
    <3>2. CASE u \in Reported
      BY <2>2, <3>1, <3>2 DEF PublisherInv, NoticeInv, CarriedOnce
    <3>3. CASE \E e \in Staff : u \in InPlay(e)
      <4>1. PICK e \in Staff : u \in InPlay(e)
        BY <3>3
      <4>2. n \in noted[e]
        BY <2>2, <4>1, InPlayIsNoted DEF PublisherInv
      <4>3. d = e
        BY <3>1, <4>2, NotedByOne DEF PublisherInv
      <4> QED BY <2>2, <3>1, <4>1, <4>3 DEF PublisherInv, NoticeInv, CarriedOnce
    <3> QED BY <2>1, <3>2, <3>3
  <2>3. ASSUME NEW tx \in Reported, NEW u \in Reported, Carries(tx, n, a), Carries(u, n, a)
        PROVE  tx.id = u.id
    <3>1. PICK r \in tx.records : IsCopy(r, n, a)
      BY <2>3 DEF Carries
    <3>2. tx \in Listed
      BY DEF Reported
    <3>3. r \in Record
      <4>1. r \in OnChain
        BY <3>1, <3>2 DEF OnChain
      <4>2. PICK d \in Staff : From(d, r)
        BY <4>1 DEF PublisherInv, RecordInv, ChainTruthful
      <4> QED BY <3>1, <3>2, <4>2, InHandAreRecords DEF PublisherInv, RecordInv
    <3>4. a \in Address
      BY <3>1, <3>3 DEF IsCopy, Record
    <3> QED BY <2>3, <3>4 DEF PublisherInv, ReportedOnce
  <2>4. ASSUME NEW x \in S PROVE \E tx \in HeardOf : tx.id = x /\ Carries(tx, n, a)
    BY <2>4 DEF CopiesOf, Carries, IsCopy
  <2>5. ASSUME NEW x \in S, NEW y \in S PROVE x = y
    <3>1. PICK tx \in HeardOf : tx.id = x /\ Carries(tx, n, a)
      BY <2>4, <2>5
    <3>2. PICK u \in HeardOf : u.id = y /\ Carries(u, n, a)
      BY <2>4, <2>5
    <3>3. CASE tx \in Reported /\ u \in Reported
      BY <2>3, <3>1, <3>2, <3>3
    <3>4. CASE \E d \in Staff : tx \in InPlay(d)
      BY <2>2, <3>1, <3>2, <3>4
    <3>5. CASE \E d \in Staff : u \in InPlay(d)
      BY <2>2, <3>1, <3>2, <3>5
    <3> QED BY <2>1, <3>3, <3>4, <3>5
  <2> HIDE DEF S
  <2>6. CASE S = {}
    <3>1. Cardinality(S) = 0
      BY <2>6, FS_EmptySet
    <3> QED BY <3>1 DEF S
  <2>7. CASE S # {}
    <3>1. PICK x \in S : TRUE
      BY <2>7
    <3>2. S = {x}
      BY <2>5, <3>1
    <3>3. Cardinality(S) = 1
      BY <3>2, FS_Singleton
    <3> QED BY <3>3 DEF S
  <2> QED BY <2>6, <2>7
<1> QED BY <1>1, <1>2, PublisherInductive, PTL DEF NoticeEverywhereOnce

=============================================================================
