---------------------------- MODULE ResearchProofs ----------------------------
(* Theorems about Research, for every value of its constants. *)
EXTENDS Research, SequenceTheorems, TLAPS

(* A frontier remembers each try: how many failed in a row, and when the   *)
(* next one is due.                                                        *)
Searching(f, tr) ==
    /\ f.failures = Lesser(MaxFailures, tr[Search].n)
    /\ tr[Search].n > 0 => f.after = tr[Search].at + Delay[f.failures]

Recounts(row, tr) ==
    /\ row.failures = Lesser(MaxFailures, tr[row.page].n)
    /\ tr[row.page].n > 0 => row.due = tr[row.page].at + Delay[row.failures]

(* What a row says was decided is published. *)
Backed(row, pub) ==
    /\ row.decision \in {"new", "open"} => [page |-> row.page, text |-> row.last, kind |-> "verified"] \in pub
    /\ row.decision = "open" => [page |-> row.page, text |-> row.last, kind |-> "relation"] \in pub

Rows(q, tr, pub) ==
    /\ q \in Seq(Entry) /\ Len(q) <= MaxQueue
    /\ \A i, j \in DOMAIN q : q[i].page = q[j].page => i = j
    /\ \A i \in DOMAIN q : Recounts(q[i], tr) /\ Backed(q[i], pub)
    /\ \A p \in Pages : tr[p].n > 0 => \E i \in DOMAIN q : q[i].page = p

Sound(f, tr, pub) == f \in File /\ Searching(f, tr) /\ Rows(f.queue, tr, pub)

Checking == {"fetch", "relation", "observation", "judge"}

(* The tick checks the page of the row that it took; what it publishes was *)
(* decided, and the relation of something open comes first.                *)
Located ==
    /\ pc \in Checking => doc.row \in DOMAIN mem.queue /\ doc.page = mem.queue[doc.row].page
    /\ pc \in Checking \ {"fetch"} =>
           doc.text \in Texts /\ doc.refs \in Refs /\ doc.decision \in {"new", "open"}
    /\ pc \in {"observation", "judge"} /\ doc.decision = "open" => Item("relation") \in published

Typed ==
    /\ pc \in Pcs /\ (pc = "idle" => mem = None)
    /\ now \in Nat /\ infer \in BOOLEAN /\ hits \in Seq(Pages)
    /\ published \subseteq Document /\ text \in [Pages -> Texts]
    /\ clock \in Nat /\ faults \in 0..MaxFaults /\ changes \in 0..MaxChanges

TriedType == [Pages \cup {Search} -> [at : Nat, n : Nat]]

(* The inductive invariant. *)
IInv ==
    /\ Typed /\ tried \in TriedType
    /\ Sound(disk, tried, published)
    /\ pc # "idle" => Sound(mem, tried, published)
    /\ Located
    /\ ConflictNotHidden

-----------------------------------------------------------------------------
(* Arithmetic of the delays. *)

LEMMA Delays ==
    /\ MaxFailures \in Nat \ {0} /\ Day \in Nat
    /\ \A n \in 1..MaxFailures : Delay[n] \in Nat
    /\ \A n \in Nat : Lesser(MaxFailures, n) \in 0..MaxFailures
    /\ \A n \in Nat : Lesser(MaxFailures, n + 1) \in 1..MaxFailures
    /\ \A n \in Nat : n > 0 => Lesser(MaxFailures, n) \in 1..MaxFailures
    /\ \A n \in Nat : Lesser(MaxFailures, Lesser(MaxFailures, n) + 1) = Lesser(MaxFailures, n + 1)
    /\ Lesser(MaxFailures, 0) = 0
<1>1. Len(Delay) \in Nat /\ Len(Delay) # 0 /\ \A n \in 1..Len(Delay) : Delay[n] \in Nat
  BY ResearchAssumption
<1>2. QED BY <1>1 DEF MaxFailures, Day, Lesser

(* A row that was only added to the frontier has no failed try. *)
LEMMA FreshRow ==
    ASSUME NEW p \in Pages, NEW t \in Nat
    PROVE  /\ NewRow(p, t) \in Entry /\ NewRow(p, t).page = p /\ NewRow(p, t).failures = 0
           /\ NewRow(p, t).decision = None
BY Delays DEF NewRow, Entry

LEMMA Members ==
    ASSUME NEW q \in Seq(Entry)
    PROVE  /\ Len(q) \in Nat /\ DOMAIN q = 1..Len(q)
           /\ \A i \in DOMAIN q : q[i] \in Entry /\ q[i].page \in Pages
<1>1. Len(q) \in Nat /\ DOMAIN q = 1..Len(q) /\ \A i \in DOMAIN q : q[i] \in Entry
  OBVIOUS
<1>2. \A r \in Entry : r.page \in Pages BY DEF Entry
<1>3. QED BY <1>1, <1>2

-----------------------------------------------------------------------------
(* What the operations of a tick make of a frontier. *)

(* What is published stays, so decisions stay backed. *)
LEMMA MorePublished ==
    ASSUME NEW f, NEW tr, NEW pub, NEW more, Sound(f, tr, pub), pub \subseteq more
    PROVE  Sound(f, tr, more)
BY DEF Sound, Rows, Backed

LEMMA SearchTried ==
    ASSUME NEW f, NEW tr \in TriedType, NEW pub, NEW t \in Nat, Sound(f, tr, pub)
    PROVE  LET n == Lesser(MaxFailures, f.failures + 1) IN
           Sound([f EXCEPT !.failures = n, !.after = t + Delay[n]],
                 [tr EXCEPT ![Search] = [at |-> t, n |-> @.n + 1]], pub)
<1> DEFINE n == Lesser(MaxFailures, f.failures + 1)
           g == [f EXCEPT !.failures = n, !.after = t + Delay[n]]
           later == [tr EXCEPT ![Search] = [at |-> t, n |-> @.n + 1]]
<1>1. f \in File /\ Searching(f, tr) /\ Rows(f.queue, tr, pub) BY DEF Sound
<1>2. tr[Search].n \in Nat BY DEF TriedType
<1>3. n = Lesser(MaxFailures, tr[Search].n + 1) /\ n \in 1..MaxFailures
  BY <1>1, <1>2, Delays DEF Searching
<1>4. Delay[n] \in Nat BY <1>3, Delays
<1>5. /\ later[Search].at = t /\ later[Search].n = tr[Search].n + 1
      /\ \A p \in Pages : later[p] = tr[p]
  BY NoneAssumption DEF TriedType
<1>6. g \in File /\ g.failures = n /\ g.after = t + Delay[n] /\ g.queue = f.queue
  <2>1. f \in [after : Nat, failures : 0..MaxFailures, queue : Seq(Entry)] BY <1>1 DEF File
  <2>2. n \in 0..MaxFailures /\ t + Delay[n] \in Nat BY <1>3, <1>4, Delays
  <2>3. QED BY <2>1, <2>2 DEF File
<1>7. Searching(g, later) BY <1>3, <1>5, <1>6 DEF Searching
<1>8. Rows(g.queue, later, pub)
  <2>1. \A i \in DOMAIN f.queue : f.queue[i].page \in Pages BY <1>1, Members DEF Rows
  <2>2. QED BY <2>1, <1>1, <1>5, <1>6 DEF Rows, Recounts
<1>9. QED BY <1>6, <1>7, <1>8 DEF Sound

LEMMA SearchSucceeded ==
    ASSUME NEW f, NEW tr \in TriedType, NEW pub, NEW t \in Nat, Sound(f, tr, pub)
    PROVE  Sound([f EXCEPT !.after = t, !.failures = 0], [tr EXCEPT ![Search] = Untold], pub)
<1> DEFINE g == [f EXCEPT !.after = t, !.failures = 0]
           later == [tr EXCEPT ![Search] = Untold]
<1>1. f \in File /\ Rows(f.queue, tr, pub) BY DEF Sound
<1>2. later[Search].n = 0 /\ \A p \in Pages : later[p] = tr[p]
  BY NoneAssumption DEF TriedType, Untold
<1>3. g \in File /\ g.failures = 0 /\ g.queue = f.queue
  <2>1. f \in [after : Nat, failures : 0..MaxFailures, queue : Seq(Entry)] BY <1>1 DEF File
  <2>2. 0 \in 0..MaxFailures BY Delays
  <2>3. QED BY <2>1, <2>2 DEF File
<1>4. Searching(g, later) BY <1>2, <1>3, Delays DEF Searching
<1>5. Rows(g.queue, later, pub)
  <2>1. \A i \in DOMAIN f.queue : f.queue[i].page \in Pages BY <1>1, Members DEF Rows
  <2>2. QED BY <2>1, <1>1, <1>2, <1>3 DEF Rows, Recounts
<1>6. QED BY <1>3, <1>4, <1>5 DEF Sound

(* A page that is not in the frontier has no failed try, so that it starts *)
(* with none.                                                              *)
LEMMA RowAdded ==
    ASSUME NEW q, NEW tr \in TriedType, NEW pub, NEW p \in Pages, NEW t \in Nat,
           Rows(q, tr, pub), Len(q) < MaxQueue, \A i \in DOMAIN q : q[i].page # p
    PROVE  Rows(Append(q, NewRow(p, t)), tr, pub)
<1> DEFINE r == NewRow(p, t)
           s == Append(q, r)
<1>1. q \in Seq(Entry) /\ Len(q) \in Nat /\ DOMAIN q = 1..Len(q) BY DEF Rows
<1>2. r \in Entry /\ r.page = p /\ r.failures = 0 /\ r.decision = None BY FreshRow
<1>3. /\ s \in Seq(Entry) /\ Len(s) = Len(q) + 1 /\ DOMAIN s = 1..(Len(q) + 1)
      /\ \A i \in DOMAIN q : s[i] = q[i]
      /\ s[Len(q) + 1] = r
  BY <1>1, <1>2, AppendProperties
<1> HIDE DEF r, s
<1>4. tr[p].n = 0
  <2>1. tr[p].n \in Nat BY DEF TriedType
  <2>2. ~(tr[p].n > 0) BY DEF Rows
  <2>3. QED BY <2>1, <2>2
<1>5. Recounts(r, tr) /\ Backed(r, pub)
  BY <1>2, <1>4, Delays, UndecidedAssumption DEF Recounts, Backed, Decisions
<1>6. \A i \in DOMAIN s : i \in DOMAIN q \/ i = Len(q) + 1 BY <1>1, <1>3
<1>7. \A i, j \in DOMAIN s : s[i].page = s[j].page => i = j
  BY <1>1, <1>2, <1>3, <1>6 DEF Rows
<1>8. \A i \in DOMAIN s : Recounts(s[i], tr) /\ Backed(s[i], pub)
  BY <1>3, <1>5, <1>6 DEF Rows
<1>9. \A x \in Pages : tr[x].n > 0 => \E i \in DOMAIN s : s[i].page = x
  <2>1. DOMAIN q \subseteq DOMAIN s BY <1>1, <1>3
  <2>2. QED BY <2>1, <1>3 DEF Rows
<1>10. Len(s) <= MaxQueue BY <1>1, <1>3, ResearchAssumption
<1>11. QED BY <1>3, <1>7, <1>8, <1>9, <1>10 DEF Rows, r, s

LEMMA Removal ==
    ASSUME NEW q \in Seq(Entry), NEW k \in DOMAIN q
    PROVE  LET s == RemoveAt(q, k) IN
           /\ s \in Seq(Entry) /\ Len(s) = Len(q) - 1
           /\ \A i \in DOMAIN s : i \in 1..(Len(q) - 1) /\ s[i] = IF i < k THEN q[i] ELSE q[i + 1]
<1>1. k \in 1..Len(q) /\ Len(q) \in Nat OBVIOUS
<1> DEFINE a == SubSeq(q, 1, k - 1)
           b == SubSeq(q, k + 1, Len(q))
<1>2. a \in Seq(Entry) /\ Len(a) = k - 1 /\ \A i \in 1..(k - 1) : a[i] = q[i]
  <2>1. \A i \in 1..(k - 1) : q[i] \in Entry BY <1>1
  <2>2. QED BY <1>1, <2>1, SubSeqProperties
<1>3. b \in Seq(Entry) /\ Len(b) = Len(q) - k /\ \A i \in 1..(Len(q) - k) : b[i] = q[k + i]
  <2>1. \A i \in (k + 1)..Len(q) : q[i] \in Entry BY <1>1
  <2>2. QED BY <1>1, <2>1, SubSeqProperties
<1> HIDE DEF a, b
<1>4. /\ a \o b \in Seq(Entry) /\ Len(a \o b) = Len(q) - 1
      /\ \A i \in 1..(Len(q) - 1) : (a \o b)[i] = IF i < k THEN q[i] ELSE q[i + 1]
  <2>1. /\ a \o b \in Seq(Entry) /\ Len(a \o b) = Len(a) + Len(b)
        /\ \A i \in 1..(Len(a) + Len(b)) :
               (a \o b)[i] = IF i <= Len(a) THEN a[i] ELSE b[i - Len(a)]
    BY <1>2, <1>3, ConcatProperties
  <2>2. Len(a) + Len(b) = Len(q) - 1 BY <1>1, <1>2, <1>3
  <2>3. ASSUME NEW i \in 1..(Len(q) - 1), i < k PROVE (a \o b)[i] = q[i]
    <3>1. i \in 1..(k - 1) /\ i <= Len(a) BY <1>1, <1>2, <2>3
    <3>2. QED BY <3>1, <1>2, <2>1, <2>2
  <2>4. ASSUME NEW i \in 1..(Len(q) - 1), ~(i < k) PROVE (a \o b)[i] = q[i + 1]
    <3>1. i - Len(a) \in 1..(Len(q) - k) /\ ~(i <= Len(a)) /\ k + (i - Len(a)) = i + 1
      BY <1>1, <1>2, <2>4
    <3>2. (a \o b)[i] = b[i - Len(a)] BY <3>1, <2>1, <2>2
    <3>3. QED BY <3>1, <3>2, <1>3
  <2>5. QED BY <2>1, <2>2, <2>3, <2>4
<1>5. RemoveAt(q, k) = a \o b BY DEF RemoveAt, a, b
<1>6. DOMAIN (a \o b) = 1..(Len(q) - 1) BY <1>1, <1>4
<1>7. QED BY <1>4, <1>5, <1>6

(* The row that makes room has no failed try to remember. *)
LEMMA RowEvicted ==
    ASSUME NEW q, NEW tr \in TriedType, NEW pub, Rows(q, tr, pub), NEW k \in Evictable(q)
    PROVE  Rows(RemoveAt(q, k), tr, pub) /\ Len(RemoveAt(q, k)) = Len(q) - 1
<1> DEFINE s == RemoveAt(q, k)
<1>1. q \in Seq(Entry) /\ Len(q) \in Nat /\ DOMAIN q = 1..Len(q) /\ k \in DOMAIN q
      /\ q[k].failures = 0 /\ q[k].page \in Pages
  <2>1. q \in Seq(Entry) BY DEF Rows
  <2>2. k \in DOMAIN q /\ q[k].failures = 0 BY DEF Evictable
  <2>3. QED BY <2>1, <2>2, Members
<1>2. /\ s \in Seq(Entry) /\ Len(s) = Len(q) - 1 /\ DOMAIN s = 1..(Len(q) - 1)
      /\ \A i \in DOMAIN s : s[i] = IF i < k THEN q[i] ELSE q[i + 1]
  <2>1. /\ s \in Seq(Entry) /\ Len(s) = Len(q) - 1
        /\ \A i \in DOMAIN s : i \in 1..(Len(q) - 1) /\ s[i] = IF i < k THEN q[i] ELSE q[i + 1]
    BY <1>1, Removal
  <2> HIDE DEF s
  <2>2. DOMAIN s = 1..(Len(q) - 1) BY <2>1
  <2>3. QED BY <2>1, <2>2
<1> HIDE DEF s
<1>3. ~(tr[q[k].page].n > 0)
  <2>1. Recounts(q[k], tr) BY <1>1 DEF Rows
  <2>2. tr[q[k].page].n \in Nat BY <1>1 DEF TriedType
  <2>3. Lesser(MaxFailures, tr[q[k].page].n) = 0 BY <1>1, <2>1 DEF Recounts
  <2>4. QED BY <2>2, <2>3, Delays
<1>4. \A i \in DOMAIN s : i \in DOMAIN q /\ i + 1 \in DOMAIN q BY <1>1, <1>2
<1>5. \A i, j \in DOMAIN s : s[i].page = s[j].page => i = j
  <2> SUFFICES ASSUME NEW i \in DOMAIN s, NEW j \in DOMAIN s, s[i].page = s[j].page
               PROVE  i = j
    OBVIOUS
  <2> DEFINE x == IF i < k THEN i ELSE i + 1
             y == IF j < k THEN j ELSE j + 1
  <2>1. x \in DOMAIN q /\ y \in DOMAIN q /\ s[i] = q[x] /\ s[j] = q[y] BY <1>2, <1>4
  <2>2. x = y BY <2>1 DEF Rows
  <2>3. QED BY <2>2, <1>1, <1>2
<1>6. \A i \in DOMAIN s : Recounts(s[i], tr) /\ Backed(s[i], pub)
  BY <1>2, <1>4 DEF Rows
<1>7. \A x \in Pages : tr[x].n > 0 => \E i \in DOMAIN s : s[i].page = x
  <2> SUFFICES ASSUME NEW x \in Pages, tr[x].n > 0 PROVE \E i \in DOMAIN s : s[i].page = x
    OBVIOUS
  <2>1. PICK j \in DOMAIN q : q[j].page = x BY DEF Rows
  <2>2. j # k BY <2>1, <1>3
  <2>3. CASE j < k
    <3>1. j \in DOMAIN s /\ s[j] = q[j] BY <1>1, <1>2, <2>1, <2>3
    <3>2. QED BY <3>1, <2>1
  <2>4. CASE j > k
    <3>1. j - 1 \in DOMAIN s /\ s[j - 1] = q[j] BY <1>1, <1>2, <2>1, <2>4
    <3>2. QED BY <3>1, <2>1
  <2>5. QED BY <2>2, <2>3, <2>4, <1>1
<1>8. Len(s) <= MaxQueue BY <1>1, <1>2, ResearchAssumption DEF Rows
<1>9. QED BY <1>2, <1>5, <1>6, <1>7, <1>8 DEF Rows, s

(* A row is replaced by one of the same page that remembers its last try.  *)
LEMMA RowReplaced ==
    ASSUME NEW q, NEW tr \in TriedType, NEW pub, NEW k \in DOMAIN q, NEW r \in Entry,
           NEW try \in [at : Nat, n : Nat], Rows(q, tr, pub), r.page = q[k].page,
           Recounts(r, [tr EXCEPT ![q[k].page] = try]), Backed(r, pub)
    PROVE  Rows([q EXCEPT ![k] = r], [tr EXCEPT ![q[k].page] = try], pub)
<1> DEFINE s == [q EXCEPT ![k] = r]
           later == [tr EXCEPT ![q[k].page] = try]
<1>1. q \in Seq(Entry) /\ DOMAIN q = 1..Len(q) /\ q[k].page \in Pages BY Members DEF Rows
<1>2. /\ s \in Seq(Entry) /\ Len(s) = Len(q) /\ DOMAIN s = DOMAIN q
      /\ s[k] = r /\ \A i \in DOMAIN q : i # k => s[i] = q[i]
  BY <1>1, ExceptSeq
<1>3. \A p \in Pages : p # q[k].page => later[p] = tr[p] BY DEF TriedType
<1>4. Recounts(r, later) OBVIOUS
<1> HIDE DEF s, later
<1>5. \A i \in DOMAIN s : s[i].page = q[i].page BY <1>2
<1>6. \A i, j \in DOMAIN s : s[i].page = s[j].page => i = j BY <1>2, <1>5 DEF Rows
<1>7. ASSUME NEW i \in DOMAIN s PROVE Recounts(s[i], later) /\ Backed(s[i], pub)
  <2>1. CASE i = k BY <2>1, <1>2, <1>4
  <2>2. CASE i # k
    <3>1. s[i] = q[i] /\ i \in DOMAIN q BY <1>2, <2>2
    <3>2. q[i].page # q[k].page /\ q[i].page \in Pages BY <3>1, <2>2, <1>1, Members DEF Rows
    <3>3. Recounts(q[i], tr) /\ Backed(q[i], pub) BY <3>1 DEF Rows
    <3>4. QED BY <3>1, <3>2, <3>3, <1>3 DEF Recounts
  <2>3. QED BY <2>1, <2>2
<1>8. ASSUME NEW x \in Pages, later[x].n > 0 PROVE \E i \in DOMAIN s : s[i].page = x
  <2>1. CASE x = q[k].page BY <2>1, <1>2, <1>5
  <2>2. CASE x # q[k].page
    <3>1. tr[x].n > 0 BY <2>2, <1>3, <1>8
    <3>2. PICK i \in DOMAIN q : q[i].page = x BY <3>1 DEF Rows
    <3>3. QED BY <3>2, <1>2, <1>5
  <2>3. QED BY <2>1, <2>2
<1>9. QED BY <1>2, <1>6, <1>7, <1>8 DEF Rows, s, later

-----------------------------------------------------------------------------
(* The invariant holds at first. *)
LEMMA InitInv == Init => IInv
<1> SUFFICES ASSUME Init PROVE IInv
  OBVIOUS
<1>1. Typed
  <2>1. /\ pc = "idle" /\ mem = None /\ now = 0 /\ infer = FALSE /\ hits = <<>> /\ published = {}
        /\ text = [p \in Pages |-> FirstText] /\ clock = 1 /\ faults = 0 /\ changes = 0
    BY DEF Init
  <2>2. MaxFaults \in Nat /\ MaxChanges \in Nat /\ FirstText \in Texts BY ResearchAssumption
  <2>3. infer \in BOOLEAN /\ published \subseteq Document BY <2>1
  <2>4. hits \in Seq(Pages) BY <2>1, EmptySeq
  <2>5. text \in [Pages -> Texts] BY <2>1, <2>2
  <2>6. QED BY <2>1, <2>2, <2>3, <2>4, <2>5 DEF Typed, Pcs
<1>2. tried \in TriedType /\ \A p \in Pages \cup {Search} : tried[p].n = 0
  BY DEF Init, TriedType, Untold
<1>3. Sound(disk, tried, published)
  <2>1. disk.after = 0 /\ disk.failures = 0 /\ disk.queue = <<>> /\ disk \in File
    BY Delays DEF Init, File
  <2>2. Searching(disk, tried)
    <3>1. tried[Search].n = 0 BY <1>2
    <3>2. QED BY <2>1, <3>1, Delays DEF Searching
  <2>3. Rows(<<>>, tried, published) BY <1>2, ResearchAssumption DEF Rows
  <2>4. QED BY <2>1, <2>2, <2>3 DEF Sound
<1>4. Located /\ ConflictNotHidden BY DEF Init, Located, Checking, ConflictNotHidden
<1>5. QED BY <1>1, <1>2, <1>3, <1>4 DEF IInv, Init

(* A step that writes nothing new to a frontier keeps what holds of them.  *)
LEMMA Copies ==
    ASSUME IInv, tried' = tried, published \subseteq published',
           disk' = disk \/ (pc # "idle" /\ disk' = mem),
           pc' = "idle" \/ (pc # "idle" /\ mem' = mem) \/ mem' = disk
    PROVE  /\ tried' \in TriedType
           /\ Sound(disk', tried', published')
           /\ pc' # "idle" => Sound(mem', tried', published')
<1>1. Sound(disk, tried, published') BY MorePublished DEF IInv
<1>2. pc # "idle" => Sound(mem, tried, published') BY MorePublished DEF IInv
<1>3. QED BY <1>1, <1>2 DEF IInv

(* Conflicts stay on file when only other documents are published. *)
LEMMA HiddenKept ==
    ASSUME IInv, published \subseteq published',
           \A i \in published' \ published : i.kind # "verified open"
    PROVE  ConflictNotHidden'
BY DEF IInv, ConflictNotHidden, Stored

(* A tick that ends leaves nothing behind in memory. *)
LEMMA Ended ==
    ASSUME IInv, NEW f, End(f), published' \subseteq Document, UNCHANGED <<text, clock, changes>>,
           faults' \in 0..MaxFaults
    PROVE  Typed' /\ Located'
<1>1. pc' = "idle" /\ mem' = None /\ now' = 0 /\ infer' = FALSE /\ hits' = <<>> BY DEF End
<1>2. infer' \in BOOLEAN BY <1>1
<1>3. hits' \in Seq(Pages) BY <1>1, EmptySeq
<1>4. Typed' BY <1>1, <1>2, <1>3 DEF IInv, Typed, Pcs
<1>5. Located' BY <1>1 DEF Located, Checking
<1>6. QED BY <1>4, <1>5

(* Steps of a tick before it checks a page that leave the frontier alone.  *)
LEMMA BeginSteps ==
    ASSUME IInv,
           \/ \E granted \in BOOLEAN : Tick(granted)
           \/ NotYet \/ (\E answer \in Answers : Listed(answer)) \/ Skip \/ SearchFails \/ Nothing
    PROVE  IInv'
<1>1. /\ tried' = tried /\ published' = published
      /\ disk' = disk \/ (pc # "idle" /\ disk' = mem)
      /\ pc' = "idle" \/ (pc # "idle" /\ mem' = mem) \/ mem' = disk
  BY DEF Tick, NotYet, Listed, Skip, SearchFails, Nothing, End, Persist
<1>2. pc' \in Pcs \ Checking
  BY DEF Tick, NotYet, Listed, Skip, SearchFails, Nothing, End, Persist, Pcs, Checking, IInv, Typed
<1>3. Typed'
  <2>1. CASE \E granted \in BOOLEAN : Tick(granted)
    BY <2>1, <1>2 DEF Tick, IInv, Typed, world
  <2>2. CASE NotYet
    BY <2>2, <1>2 DEF NotYet, IInv, Typed, world
  <2>3. CASE \E answer \in Answers : Listed(answer)
    BY <2>3, <1>2, ResearchAssumption DEF Listed, IInv, Typed, world
  <2>4. CASE Skip
    <3>1. Tail(hits) \in Seq(Pages) BY <2>4, HeadTailProperties DEF Skip, IInv, Typed
    <3>2. QED BY <2>4, <3>1, <1>2 DEF Skip, IInv, Typed, world
  <2>5. CASE SearchFails
    BY <2>5, <1>2 DEF SearchFails, Persist, IInv, Typed, world
  <2>6. CASE Nothing
    BY <2>6, Ended DEF Nothing, world, IInv, Typed
  <2>7. QED BY <2>1, <2>2, <2>3, <2>4, <2>5, <2>6
<1>4. Located' BY <1>2 DEF Located, Checking
<1>5. ConflictNotHidden' BY <1>1, HiddenKept
<1>6. QED BY <1>1, <1>3, <1>4, <1>5, Copies DEF IInv

(* The tries of a search. *)
LEMMA SearchSteps ==
    ASSUME IInv, BeginSearch \/ EndSearch
    PROVE  IInv'
<1>1. Sound(mem, tried, published) /\ tried \in TriedType /\ now \in Nat /\ published' = published
      /\ pc' \in {"answer", "select"}
  BY DEF IInv, Typed, BeginSearch, EndSearch, Reserve, Persist
<1>2. disk' = mem' /\ Sound(mem', tried', published') /\ tried' \in TriedType
  <2>1. CASE BeginSearch
    <3>1. Sound([mem EXCEPT !.failures = Lesser(MaxFailures, mem.failures + 1),
                            !.after = now + Delay[Lesser(MaxFailures, mem.failures + 1)]],
                [tried EXCEPT ![Search] = [at |-> now, n |-> @.n + 1]], published)
      BY <1>1, SearchTried
    <3>2. [tried EXCEPT ![Search] = [at |-> now, n |-> @.n + 1]] \in TriedType
      BY <1>1 DEF TriedType
    <3>3. QED BY <2>1, <3>1, <3>2, <1>1 DEF BeginSearch, Reserve, Persist, Trying
  <2>2. CASE EndSearch
    <3>1. now + Hour \in Nat BY <1>1, ResearchAssumption
    <3>2. Sound([mem EXCEPT !.after = now + Hour, !.failures = 0],
                [tried EXCEPT ![Search] = Untold], published)
      BY <1>1, <3>1, SearchSucceeded
    <3>3. [tried EXCEPT ![Search] = Untold] \in TriedType BY <1>1 DEF TriedType, Untold
    <3>4. QED BY <2>2, <3>2, <3>3, <1>1 DEF EndSearch, Persist, Succeeded
  <2>3. QED BY <2>1, <2>2
<1>3. Typed'
  BY <1>1 DEF BeginSearch, EndSearch, Reserve, Persist, IInv, Typed, world, Pcs
<1>4. Located' BY <1>1 DEF Located, Checking
<1>5. ConflictNotHidden' BY <1>1, HiddenKept
<1>6. QED BY <1>2, <1>3, <1>4, <1>5 DEF IInv

(* A page of the answer enters the copy of the frontier. *)
LEMMA AdmitStep ==
    ASSUME IInv, Admit
    PROVE  IInv'
<1> DEFINE q == mem.queue
<1>1. /\ Sound(mem, tried, published) /\ tried \in TriedType /\ now \in Nat /\ pc = "admit"
      /\ hits \in Seq(Pages) /\ hits # <<>>
      /\ UNCHANGED <<disk, pc, now, infer, doc, published, text, clock, changes, faults, tried>>
  BY DEF IInv, Typed, Admit, world
<1>2. Head(hits) \in Pages /\ Tail(hits) \in Seq(Pages) BY <1>1, HeadTailProperties
<1>3. Rows(q, tried, published) /\ mem \in File /\ q \in Seq(Entry) BY <1>1 DEF Sound, Rows
<1>4. \A i \in DOMAIN q : q[i].page # Head(hits) BY DEF Admit, Known
<1>5. \E s : /\ Rows(Append(s, NewRow(Head(hits), now)), tried, published)
             /\ mem' = [mem EXCEPT !.queue = Append(s, NewRow(Head(hits), now))]
             /\ hits' = Tail(hits)
  <2>1. CASE Len(q) < MaxQueue /\ Enqueue(q)
    <3>1. Rows(Append(q, NewRow(Head(hits), now)), tried, published)
      BY <1>1, <1>2, <1>3, <1>4, <2>1, RowAdded
    <3>2. QED BY <2>1, <3>1 DEF Enqueue
  <2>2. ASSUME NEW k \in Evictable(q), Len(q) = MaxQueue, Enqueue(RemoveAt(q, k))
        PROVE  \E s : /\ Rows(Append(s, NewRow(Head(hits), now)), tried, published)
                      /\ mem' = [mem EXCEPT !.queue = Append(s, NewRow(Head(hits), now))]
                      /\ hits' = Tail(hits)
    <3> DEFINE s == RemoveAt(q, k)
    <3>1. Rows(s, tried, published) /\ Len(s) = Len(q) - 1 BY <1>1, <1>3, RowEvicted
    <3>2. Len(s) < MaxQueue BY <3>1, <2>2, ResearchAssumption
    <3>3. \A i \in DOMAIN s : s[i].page # Head(hits)
      <4>1. k \in DOMAIN q BY DEF Evictable
      <4>2. \A i \in DOMAIN s : i \in 1..(Len(q) - 1) /\ s[i] = IF i < k THEN q[i] ELSE q[i + 1]
        BY <4>1, <1>3, Removal
      <4>3. \A i \in 1..(Len(q) - 1) : i \in DOMAIN q /\ i + 1 \in DOMAIN q BY <1>3, Members
      <4>4. QED BY <4>2, <4>3, <1>4
    <3>4. Rows(Append(s, NewRow(Head(hits), now)), tried, published)
      BY <1>1, <1>2, <3>1, <3>2, <3>3, RowAdded
    <3>5. QED BY <2>2, <3>4 DEF Enqueue
  <2>3. QED BY <2>1, <2>2 DEF Admit
<1>6. PICK s : /\ Rows(Append(s, NewRow(Head(hits), now)), tried, published)
               /\ mem' = [mem EXCEPT !.queue = Append(s, NewRow(Head(hits), now))]
               /\ hits' = Tail(hits)
  BY <1>5
<1>7. Sound(mem', tried, published)
  <2> DEFINE t == Append(s, NewRow(Head(hits), now))
  <2>1. t \in Seq(Entry) /\ Rows(t, tried, published) BY <1>6 DEF Rows
  <2>2. mem' = [mem EXCEPT !.queue = t] BY <1>6
  <2> HIDE DEF t
  <2>3. mem' \in File /\ mem'.queue = t /\ mem'.failures = mem.failures /\ mem'.after = mem.after
    BY <1>3, <2>1, <2>2 DEF File
  <2>4. Searching(mem', tried) BY <2>3, <1>1 DEF Sound, Searching
  <2>5. QED BY <2>1, <2>3, <2>4 DEF Sound
<1>8. Typed' BY <1>1, <1>2, <1>6 DEF IInv, Typed
<1>9. Located' BY <1>1 DEF Located, Checking
<1>10. ConflictNotHidden' BY <1>1, HiddenKept
<1>11. QED BY <1>1, <1>7, <1>8, <1>9, <1>10 DEF IInv

(* A row is taken: its failure is on file before its page is fetched.      *)
LEMMA SelectStep ==
    ASSUME IInv, Select
    PROVE  IInv'
<1> DEFINE q == mem.queue
<1>1. /\ Sound(mem, tried, published) /\ tried \in TriedType /\ now \in Nat /\ pc = "select"
      /\ UNCHANGED <<now, infer, hits, published, text, clock, changes, faults>>
  BY DEF IInv, Typed, Select, world
<1>2. Rows(q, tried, published) /\ mem \in File /\ q \in Seq(Entry) BY <1>1 DEF Sound, Rows
<1>3. PICK i \in Due(q) :
        LET n == Lesser(MaxFailures, q[i].failures + 1) IN
        /\ Reserve([mem EXCEPT !.queue[i].failures = n, !.queue[i].due = now + Delay[n]], "fetch")
        /\ Trying(q[i].page)
        /\ doc' = [row |-> i, page |-> q[i].page]
  BY DEF Select
<1> DEFINE n == Lesser(MaxFailures, q[i].failures + 1)
           p == q[i].page
           try == [at |-> now, n |-> tried[p].n + 1]
           r == [q[i] EXCEPT !.failures = n, !.due = now + Delay[n]]
           s == [q EXCEPT ![i] = r]
<1>4. i \in DOMAIN q /\ q[i] \in Entry /\ p \in Pages BY <1>2, Members DEF Due
<1>5. tried[p].n \in Nat BY <1>1, <1>4 DEF TriedType
<1>6. n = Lesser(MaxFailures, tried[p].n + 1) /\ n \in 1..MaxFailures /\ Delay[n] \in Nat
  <2>1. q[i].failures = Lesser(MaxFailures, tried[p].n) BY <1>2, <1>4 DEF Rows, Recounts
  <2>2. QED BY <2>1, <1>5, Delays
<1>7. /\ r \in Entry /\ r.page = p /\ r.failures = n /\ r.due = now + Delay[n]
      /\ r.decision = q[i].decision /\ r.last = q[i].last
  <2>1. now + Delay[n] \in Nat /\ n \in 0..MaxFailures BY <1>1, <1>6, Delays
  <2>2. QED BY <2>1, <1>4 DEF Entry
<1>8. try \in [at : Nat, n : Nat] /\ try.n = tried[p].n + 1 /\ try.at = now BY <1>1, <1>5
<1>9. tried' = [tried EXCEPT ![p] = try] BY <1>3 DEF Trying
<1>10. tried' \in TriedType /\ tried'[p] = try BY <1>1, <1>4, <1>8, <1>9 DEF TriedType
<1>11. mem' = [mem EXCEPT !.queue = s] /\ disk' = mem' /\ pc' = "fetch"
  BY <1>2, <1>3 DEF Reserve, Persist, File
<1> HIDE DEF r, try, n
<1>12. Rows(s, tried', published)
  <2>1. Recounts(r, [tried EXCEPT ![q[i].page] = try])
    BY <1>6, <1>7, <1>8, <1>9, <1>10 DEF Recounts
  <2>2. Backed(r, published)
    <3>1. Backed(q[i], published) BY <1>2, <1>4 DEF Rows
    <3>2. QED BY <3>1, <1>7 DEF Backed
  <2>3. QED BY <2>1, <2>2, <1>1, <1>2, <1>4, <1>7, <1>8, <1>9, RowReplaced
<1>13. s \in Seq(Entry) /\ DOMAIN s = DOMAIN q /\ s[i] = r BY <1>2, <1>4, <1>7, ExceptSeq
<1> HIDE DEF s
<1>14. mem' \in File /\ mem'.queue = s /\ mem'.failures = mem.failures /\ mem'.after = mem.after
  BY <1>2, <1>11, <1>13 DEF File
<1>15. Sound(mem', tried', published)
  <2>1. tried'[Search] = tried[Search]
    BY <1>1, <1>4, <1>9, NoneAssumption DEF TriedType
  <2>2. Searching(mem', tried') BY <2>1, <1>14, <1>1 DEF Sound, Searching
  <2>3. QED BY <2>2, <1>12, <1>14 DEF Sound
<1>16. Located'
  <2>1. doc'.row = i /\ doc'.page = p BY <1>3
  <2>2. QED BY <2>1, <1>4, <1>7, <1>11, <1>13, <1>14 DEF Located, Checking
<1>17. Typed' BY <1>1, <1>11 DEF IInv, Typed, Pcs
<1>18. ConflictNotHidden' BY <1>1, HiddenKept
<1>19. QED BY <1>1, <1>10, <1>11, <1>15, <1>16, <1>17, <1>18 DEF IInv

(* A check that succeeds clears the failures of its row. *)
LEMMA DoneStep ==
    ASSUME IInv, pc \in Checking, NEW r \in Entry, Done(r), r.page = doc.page,
           published \subseteq published', published' \subseteq Document, Backed(r, published'),
           ConflictNotHidden'
    PROVE  IInv'
<1> DEFINE q == mem.queue
           i == doc.row
           p == doc.page
           c == Checked(r)
           s == [q EXCEPT ![i] = c]
<1>1. /\ Sound(mem, tried, published') /\ tried \in TriedType /\ now \in Nat
      /\ i \in DOMAIN q /\ p = q[i].page
      /\ UNCHANGED <<text, clock, changes, faults>>
  <2>1. pc # "idle" BY DEF Checking
  <2>2. Sound(mem, tried, published) BY <2>1 DEF IInv
  <2>3. QED BY <2>2, MorePublished DEF IInv, Typed, Located, Done, world
<1>2. Rows(q, tried, published') /\ mem \in File /\ q \in Seq(Entry) /\ p \in Pages
  BY <1>1, Members DEF Sound, Rows
<1>3. /\ c \in Entry /\ c.page = p /\ c.failures = 0 /\ c.decision = r.decision /\ c.last = r.last
  <2>1. now + Day \in Nat /\ 0 \in 0..MaxFailures BY <1>1, Delays
  <2>2. QED BY <2>1, <1>1 DEF Checked, Entry
<1>4. tried' = [tried EXCEPT ![p] = Untold] BY DEF Done, Succeeded
<1>5. Untold \in [at : Nat, n : Nat] /\ Untold.n = 0 BY DEF Untold
<1>6. tried' \in TriedType /\ tried'[p] = Untold BY <1>1, <1>2, <1>4, <1>5 DEF TriedType
<1>7. disk' = [mem EXCEPT !.queue = s] /\ pc' = "idle"
  BY <1>2 DEF Done, End, File
<1> HIDE DEF c
<1>8. Rows(s, tried', published')
  <2>1. Recounts(c, [tried EXCEPT ![q[i].page] = Untold])
    BY <1>1, <1>3, <1>4, <1>5, <1>6, Delays DEF Recounts
  <2>2. Backed(c, published') BY <1>1, <1>3 DEF Backed
  <2>3. [tried EXCEPT ![q[i].page] = Untold] = tried' BY <1>1, <1>4
  <2>4. Rows([q EXCEPT ![i] = c], [tried EXCEPT ![q[i].page] = Untold], published')
    BY <2>1, <2>2, <1>1, <1>2, <1>3, <1>5, RowReplaced
  <2>5. QED BY <2>3, <2>4
<1>9. s \in Seq(Entry) BY <1>1, <1>2, <1>3, ExceptSeq
<1> HIDE DEF s
<1>10. disk' \in File /\ disk'.queue = s /\ disk'.failures = mem.failures /\ disk'.after = mem.after
  BY <1>2, <1>7, <1>9 DEF File
<1>11. Sound(disk', tried', published')
  <2>1. tried'[Search] = tried[Search]
    BY <1>1, <1>2, <1>4, NoneAssumption DEF TriedType
  <2>2. Searching(disk', tried') BY <2>1, <1>10, <1>1 DEF Sound, Searching
  <2>3. QED BY <2>2, <1>8, <1>10 DEF Sound
<1>12. Typed' /\ Located'
  <2>1. End([mem EXCEPT !.queue[doc.row] = c]) BY DEF Done, c
  <2>2. QED BY <2>1, <1>1, Ended DEF IInv, Typed
<1>13. QED BY <1>6, <1>7, <1>11, <1>12 DEF IInv

(* The row that is checked. *)
LEMMA RowAtHand ==
    ASSUME IInv, pc \in Checking
    PROVE  Row \in Entry /\ Row.page = doc.page /\ doc.page \in Pages /\ Backed(Row, published)
<1>1. doc.row \in DOMAIN mem.queue /\ doc.page = mem.queue[doc.row].page /\ Sound(mem, tried, published)
  BY DEF IInv, Located, Checking
<1>2. QED BY <1>1, Members DEF Sound, Rows, Row

(* The last kind of document of something open is published only where its *)
(* relation is.                                                            *)
LEMMA JudgmentPublished ==
    ASSUME IInv, pc = "judge",
           published' = published \cup {Item("verified")}
                        \cup (IF doc.decision = "open" THEN {Item("verified open")} ELSE {})
    PROVE  ConflictNotHidden' /\ published' \subseteq Document
<1>1. doc.page \in Pages BY RowAtHand DEF Checking
<1>2. doc.text \in Texts /\ (doc.decision = "open" => Item("relation") \in published)
  BY DEF IInv, Located, Checking
<1>3. published' \subseteq Document
  <2>1. Item("verified") \in Document /\ Item("verified open") \in Document
    BY <1>1, <1>2 DEF Item, Document
  <2>2. QED BY <2>1 DEF IInv, Typed
<1>4. ASSUME NEW i \in published', i.kind = "verified open"
      PROVE  [page |-> i.page, text |-> i.text, kind |-> "relation"] \in published'
  <2>1. CASE i \in published BY <2>1, <1>4 DEF IInv, ConflictNotHidden, Stored
  <2>2. CASE i = Item("verified")
    <3>1. i.kind = "verified" BY <2>2 DEF Item
    <3>2. QED BY <3>1, <1>4
  <2>3. CASE i = Item("verified open") /\ doc.decision = "open"
    <3>1. i.page = doc.page /\ i.text = doc.text BY <2>3 DEF Item
    <3>2. [page |-> i.page, text |-> i.text, kind |-> "relation"] = Item("relation") BY <3>1 DEF Item
    <3>3. QED BY <3>2, <2>3, <1>2
  <2>4. QED BY <2>1, <2>2, <2>3
<1>5. QED BY <1>3, <1>4 DEF ConflictNotHidden, Stored

(* Steps that end the check of a page, each with its row. *)
LEMMA DoneSteps ==
    ASSUME IInv,
           \/ \E refs \in Refs : Unchanged(refs)
           \/ \E refs \in Refs : /\ pc = "fetch" /\ Done(Decided(text[doc.page], refs, Quiet))
                                 /\ UNCHANGED published
           \/ JudgeVerified
    PROVE  IInv'
<1>1. /\ pc \in Checking BY DEF Unchanged, JudgeVerified, Checking
<1>2. Row \in Entry /\ Row.page = doc.page /\ doc.page \in Pages /\ Backed(Row, published)
  BY <1>1, RowAtHand
<1>3. CASE \E refs \in Refs : Unchanged(refs)
  <2>1. Done(Row) /\ published' = published BY <1>3 DEF Unchanged
  <2>2. ConflictNotHidden' BY <2>1, HiddenKept
  <2>3. published' \subseteq Document BY <2>1 DEF IInv, Typed
  <2>4. Backed(Row, published') BY <2>1, <1>2
  <2>5. QED BY <1>1, <1>2, <2>1, <2>2, <2>3, <2>4, DoneStep
<1>4. ASSUME NEW refs \in Refs, pc = "fetch", Done(Decided(text[doc.page], refs, Quiet)), UNCHANGED published
      PROVE  IInv'
  <2> DEFINE r == Decided(text[doc.page], refs, Quiet)
  <2>1. text[doc.page] \in Texts BY <1>2 DEF IInv, Typed
  <2>2. r \in Entry /\ r.page = doc.page /\ r.decision = Quiet
    BY <1>2, <2>1 DEF Decided, Entry, Decisions
  <2>3. Backed(r, published') BY <2>2 DEF Backed, Quiet
  <2>4. ConflictNotHidden' BY <1>4, HiddenKept
  <2>5. published' \subseteq Document BY <1>4 DEF IInv, Typed
  <2> HIDE DEF r
  <2>6. Done(r) BY <1>4 DEF r
  <2>7. QED BY <1>1, <1>4, <2>2, <2>3, <2>4, <2>5, <2>6, DoneStep
<1>5. CASE JudgeVerified
  <2> DEFINE r == Decided(doc.text, doc.refs, doc.decision)
  <2>1. /\ pc = "judge" /\ Done(r)
        /\ published' = published \cup {Item("verified")}
                        \cup (IF doc.decision = "open" THEN {Item("verified open")} ELSE {})
    BY <1>5 DEF JudgeVerified
  <2>2. doc.text \in Texts /\ doc.refs \in Refs /\ doc.decision \in {"new", "open"}
    BY <2>1 DEF IInv, Located, Checking
  <2>3. r \in Entry /\ r.page = doc.page /\ r.decision = doc.decision /\ r.last = doc.text
    BY <1>2, <2>2 DEF Decided, Entry, Decisions
  <2>4. Backed(r, published')
    <3>1. doc.decision = "open" => Item("relation") \in published
      BY <2>1 DEF IInv, Located
    <3>2. QED BY <3>1, <2>1, <2>3 DEF Backed, Item
  <2>5. ConflictNotHidden' /\ published' \subseteq Document BY <2>1, JudgmentPublished
  <2>6. published \subseteq published' BY <2>1
  <2> HIDE DEF r
  <2>7. QED BY <1>1, <2>1, <2>3, <2>4, <2>5, <2>6, DoneStep
<1>6. QED BY <1>3, <1>4, <1>5

(* Publishing, document by document. *)
LEMMA PublishSteps ==
    ASSUME IInv,
           \/ \E refs \in Refs, d \in Decisions \ {Quiet} : Decide(refs, d)
           \/ IngestRelation \/ IngestObservation
    PROVE  IInv'
<1>1. pc \in {"fetch", "relation", "observation"} /\ pc' \in Checking \ {"fetch"}
      /\ UNCHANGED <<disk, mem, now, infer, hits, text, clock, changes, faults, tried>>
  BY DEF Decide, Undecided, FirstDocument, IngestRelation, IngestObservation, Checking, world
<1>2. doc.row \in DOMAIN mem.queue /\ doc.page = mem.queue[doc.row].page /\ doc.page \in Pages
  <2>1. doc.row \in DOMAIN mem.queue /\ doc.page = mem.queue[doc.row].page
    BY <1>1 DEF IInv, Located, Checking
  <2>2. doc.page \in Pages BY <1>1, RowAtHand DEF Checking
  <2>3. QED BY <2>1, <2>2
<1>3. CASE \E refs \in Refs, d \in Decisions \ {Quiet} : Decide(refs, d)
  <2>1. PICK refs \in Refs, d \in Decisions \ {Quiet} : Decide(refs, d) BY <1>3
  <2>2. /\ doc' = [row |-> doc.row, page |-> doc.page, text |-> text[doc.page],
                   refs |-> refs, decision |-> d]
        /\ pc' = FirstDocument(d) /\ published' = published
    BY <2>1 DEF Decide
  <2>3. /\ doc'.row = doc.row /\ doc'.page = doc.page /\ doc'.text = text[doc.page]
        /\ doc'.refs = refs /\ doc'.decision = d
    BY <2>2
  <2>4. text[doc.page] \in Texts BY <1>2 DEF IInv, Typed
  <2>5. Located'
    BY <1>1, <1>2, <2>2, <2>3, <2>4 DEF Located, Checking, Decisions, FirstDocument
  <2>6. ConflictNotHidden' BY <2>2, HiddenKept
  <2>7. Typed' BY <1>1, <2>2 DEF IInv, Typed, Pcs, Checking
  <2>8. QED BY <1>1, <2>2, <2>5, <2>6, <2>7, Copies DEF IInv, Checking
<1>4. ASSUME NEW kind \in {"relation", "candidate"}, Publish(kind), doc' = doc,
             pc \in {"relation", "observation"},
             pc' \in {"observation", "judge"},
             pc = "relation" <=> kind = "relation"
      PROVE  IInv'
  <2>1. doc.text \in Texts /\ doc.refs \in Refs /\ doc.decision \in {"new", "open"}
    BY <1>4 DEF IInv, Located, Checking
  <2>2. published' = published \cup {Item(kind)} /\ Item(kind) \in Document /\ Item(kind).kind = kind
    BY <1>2, <1>4, <2>1 DEF Publish, Item, Document
  <2>3. ConflictNotHidden' BY <1>4, <2>2, HiddenKept
  <2>4. Located'
    <3>1. doc.decision = "open" => Item("relation") \in published'
      BY <1>4, <2>2 DEF IInv, Located
    <3>2. Item("relation")' = Item("relation") BY <1>4 DEF Item
    <3>3. QED BY <3>1, <3>2, <1>1, <1>2, <1>4, <2>1 DEF Located, Checking
  <2>5. published' \subseteq Document BY <2>2 DEF IInv, Typed
  <2>6. Typed' BY <1>1, <2>5 DEF IInv, Typed, Pcs, Checking
  <2>7. QED BY <1>1, <1>4, <2>2, <2>3, <2>4, <2>6, Copies DEF IInv, Checking
<1>5. CASE IngestRelation BY <1>4, <1>5 DEF IngestRelation
<1>6. CASE IngestObservation BY <1>4, <1>6 DEF IngestObservation
<1>7. QED BY <1>3, <1>5, <1>6

(* A failure may leave a document that was published. *)
LEMMA FailStep ==
    ASSUME IInv, Fail
    PROVE  IInv'
<1>1. pc \in Checking /\ End(mem) /\ UNCHANGED <<text, clock, changes, faults, tried>>
  BY DEF Fail, Checking, world
<1>2. doc.page \in Pages BY <1>1, RowAtHand
<1>3. published \subseteq published' /\ published' \subseteq Document /\ ConflictNotHidden'
  <2>1. CASE published' = published
    BY <2>1, HiddenKept DEF IInv, Typed
  <2>2. CASE pc \in {"relation", "observation"} /\ published' # published
    <3>1. PICK kind \in {"relation", "candidate"} : published' = published \cup {Item(kind)}
      BY <2>2 DEF Fail
    <3>2. doc.text \in Texts BY <2>2 DEF IInv, Located, Checking
    <3>3. Item(kind) \in Document /\ Item(kind).kind = kind BY <1>2, <3>2 DEF Item, Document
    <3>4. QED BY <3>1, <3>3, HiddenKept DEF IInv, Typed
  <2>3. CASE pc = "judge" /\ published' # published
    <3>1. published' = published \cup {Item("verified")}
                        \cup (IF doc.decision = "open" THEN {Item("verified open")} ELSE {})
      BY <2>3 DEF Fail
    <3>2. QED BY <2>3, <3>1, JudgmentPublished
  <2>4. pc = "fetch" => published' = published BY DEF Fail
  <2>5. QED BY <1>1, <2>1, <2>2, <2>3, <2>4 DEF Checking
<1>4. Typed' /\ Located'
  <2>1. faults' \in 0..MaxFaults BY <1>1 DEF IInv, Typed
  <2>2. QED BY <1>1, <1>3, <2>1, Ended
<1>5. QED
  <2>1. disk' = mem /\ pc' = "idle" /\ pc # "idle" BY <1>1 DEF End, Checking
  <2>2. QED BY <1>1, <1>3, <1>4, <2>1, Copies DEF IInv

(* The world changes, or a tick stops. *)
LEMMA OtherSteps ==
    ASSUME IInv,
           \/ Abandon \/ Time \/ (\E p \in Pages, t \in Texts : Edit(p, t))
           \/ UNCHANGED vars
    PROVE  IInv'
<1>1. CASE Abandon
  <2>1. /\ End(disk) /\ published' = published /\ tried' = tried /\ faults' = faults + 1
        /\ faults < MaxFaults /\ UNCHANGED <<text, clock, changes>>
    BY <1>1 DEF Abandon, world
  <2>2. faults' \in 0..MaxFaults BY <2>1, ResearchAssumption DEF IInv, Typed
  <2>3. Typed' /\ Located' BY <2>1, <2>2, Ended DEF IInv, Typed
  <2>4. disk' = disk /\ pc' = "idle" BY <2>1 DEF End
  <2>5. ConflictNotHidden' BY <2>1, HiddenKept
  <2>6. QED BY <2>1, <2>3, <2>4, <2>5, Copies DEF IInv
<1>2. ASSUME UNCHANGED <<disk, mem, pc, now, infer, hits, doc, published, tried>>, Typed'
      PROVE  IInv'
  <2>1. Located' BY <1>2 DEF IInv, Located, Item
  <2>2. ConflictNotHidden' BY <1>2, HiddenKept
  <2>3. QED BY <1>2, <2>1, <2>2 DEF IInv
<1>3. CASE Time
  <2>1. Typed' BY <1>3 DEF Time, IInv, Typed
  <2>2. QED BY <1>2, <1>3, <2>1 DEF Time
<1>4. CASE \E p \in Pages, t \in Texts : Edit(p, t)
  <2>1. PICK p \in Pages, t \in Texts : Edit(p, t) BY <1>4
  <2>2. changes' \in 0..MaxChanges /\ text' \in [Pages -> Texts]
    BY <2>1, ResearchAssumption DEF Edit, IInv, Typed
  <2>3. Typed' BY <2>1, <2>2 DEF Edit, IInv, Typed
  <2>4. QED BY <1>2, <2>1, <2>3 DEF Edit
<1>5. CASE UNCHANGED vars
  <2>1. Typed' BY <1>5 DEF vars, world, IInv, Typed
  <2>2. QED BY <1>2, <1>5, <2>1 DEF vars
<1>6. QED BY <1>1, <1>3, <1>4, <1>5

LEMMA InvStep == IInv /\ [Next]_vars => IInv'
<1> SUFFICES ASSUME IInv, [Next]_vars PROVE IInv'
  OBVIOUS
<1>1. CASE \E granted \in BOOLEAN : Tick(granted) BY <1>1, BeginSteps
<1>2. CASE NotYet \/ (\E answer \in Answers : Listed(answer)) \/ Skip \/ SearchFails \/ Nothing
  BY <1>2, BeginSteps
<1>3. CASE BeginSearch \/ EndSearch BY <1>3, SearchSteps
<1>4. CASE Admit BY <1>4, AdmitStep
<1>5. CASE Select BY <1>5, SelectStep
<1>6. CASE (\E refs \in Refs : Unchanged(refs)) \/ JudgeVerified BY <1>6, DoneSteps
<1>7. CASE \E refs \in Refs, d \in Decisions : Decide(refs, d)
  <2>1. PICK refs \in Refs, d \in Decisions : Decide(refs, d) BY <1>7
  <2>2. CASE d = Quiet
    <3>1. pc = "fetch" /\ Done(Decided(text[doc.page], refs, Quiet)) /\ UNCHANGED published
      BY <2>1, <2>2 DEF Decide
    <3>2. QED BY <3>1, DoneSteps
  <2>3. CASE d # Quiet BY <2>1, <2>3, PublishSteps
  <2>4. QED BY <2>2, <2>3
<1>8. CASE IngestRelation \/ IngestObservation BY <1>8, PublishSteps
<1>9. CASE Fail BY <1>9, FailStep
<1>10. CASE Abandon \/ Time \/ (\E p \in Pages, t \in Texts : Edit(p, t)) \/ UNCHANGED vars
  BY <1>10, OtherSteps
<1>11. QED BY <1>1, <1>2, <1>3, <1>4, <1>5, <1>6, <1>7, <1>8, <1>9, <1>10 DEF Next, Step

LEMMA Inductive == Spec => []IInv
<1>1. Init => IInv BY InitInv
<1>2. IInv /\ [Next]_vars => IInv' BY InvStep
<1>3. QED BY <1>1, <1>2, PTL DEF Spec

-----------------------------------------------------------------------------
(* Every tick leaves a frontier that the next one accepts, validate_state: *)
(* at most kMaxQueue rows and no page twice.                               *)
THEOREM TypeCorrect == Spec => []TypeOK
<1>1. IInv => TypeOK
  <2> SUFFICES ASSUME IInv PROVE TypeOK
    OBVIOUS
  <2>1. ASSUME NEW f, Sound(f, tried, published) PROVE Valid(f)
    BY <2>1 DEF Sound, Rows, Valid
  <2>2. Valid(disk) /\ (pc # "idle" => Valid(mem)) BY <2>1 DEF IInv
  <2>3. QED BY <2>2 DEF IInv, Typed, TypeOK, TriedType
<1>2. QED BY <1>1, Inductive, PTL

(* tick, publish_assertion: what a row of the file says was decided is in  *)
(* the store, and what is open has its relation there.                     *)
THEOREM DecisionsPublished == Spec => []CheckedIsPublished
<1>1. IInv => CheckedIsPublished
  <2> SUFFICES ASSUME IInv PROVE CheckedIsPublished
    OBVIOUS
  <2>1. Rows(disk.queue, tried, published) BY DEF IInv, Sound
  <2>2. ASSUME NEW r \in ToSet(disk.queue) PROVE Backed(r, published)
    <3>1. PICK i \in DOMAIN disk.queue : r = disk.queue[i] BY <2>2 DEF ToSet
    <3>2. QED BY <3>1, <2>1 DEF Rows
  <2>3. QED BY <2>2 DEF CheckedIsPublished, Stored, Backed
<1>2. QED BY <1>1, Inductive, PTL

(* publish_assertion: a text that is verified as open has its relation on  *)
(* file.                                                                   *)
THEOREM ConflictsShown == Spec => []ConflictNotHidden
<1>1. IInv => ConflictNotHidden BY DEF IInv
<1>2. QED BY <1>1, Inductive, PTL

(* retry_delay: whatever ends a try, the next one waits.                   *)
THEOREM TriesWait == Spec => AttemptsSpaced
<1> DEFINE A == \A p \in Pages \cup {Search} :
                   tried'[p].n > tried[p].n /\ tried[p].n > 0 =>
                       now >= tried[p].at + Delay[Lesser(MaxFailures, tried[p].n)]
<1>1. IInv /\ [Next]_vars => [A]_vars
  <2> SUFFICES ASSUME IInv, [Next]_vars, NEW p \in Pages \cup {Search},
                      tried'[p].n > tried[p].n, tried[p].n > 0
               PROVE  now >= tried[p].at + Delay[Lesser(MaxFailures, tried[p].n)]
    OBVIOUS
  <2>1. tried \in TriedType /\ tried[p].n \in Nat BY DEF IInv, TriedType
  <2>2. tried' # tried BY <2>1
  <2>3. ~(\E x \in Pages \cup {Search} : Succeeded(x))
    <3> SUFFICES ASSUME NEW x \in Pages \cup {Search}, Succeeded(x) PROVE FALSE
      OBVIOUS
    <3>1. tried'[p].n = 0 \/ tried'[p] = tried[p] BY <2>1 DEF Succeeded, Untold, TriedType
    <3>2. QED BY <3>1, <2>1
  <2>4. BeginSearch \/ Select \/ EndSearch \/ \E r : pc \in Checking /\ Done(r)
    <3>1. CASE \/ \E refs \in Refs : Unchanged(refs) \/ \E d \in Decisions : Decide(refs, d)
               \/ JudgeVerified
      <4>1. CASE \E refs \in Refs : Unchanged(refs)
        <5>1. PICK refs \in Refs : Unchanged(refs) BY <4>1
        <5>2. pc = "fetch" /\ Done(Row) BY <5>1 DEF Unchanged
        <5>3. QED BY <5>2 DEF Checking
      <4>2. CASE JudgeVerified
        <5>1. pc = "judge" /\ Done(Decided(doc.text, doc.refs, doc.decision)) BY <4>2 DEF JudgeVerified
        <5>2. QED BY <5>1 DEF Checking
      <4>3. CASE \E refs \in Refs, d \in Decisions : Decide(refs, d)
        <5>1. PICK refs \in Refs, d \in Decisions : Decide(refs, d) BY <4>3
        <5>2. pc = "fetch" /\ Done(Decided(text[doc.page], refs, d)) BY <2>2, <5>1 DEF Decide
        <5>3. QED BY <5>2 DEF Checking
      <4>4. QED BY <3>1, <4>1, <4>2, <4>3
    <3>2. CASE \/ (\E granted \in BOOLEAN : Tick(granted)) \/ NotYet \/ Admit \/ Skip
               \/ (\E answer \in Answers : Listed(answer)) \/ SearchFails \/ Nothing
      BY <2>2, <3>2 DEF Tick, NotYet, Listed, Admit, Skip, SearchFails, Nothing
    <3>3. CASE \/ IngestRelation \/ IngestObservation \/ Fail \/ Abandon \/ Time
               \/ \E x \in Pages, t \in Texts : Edit(x, t)
      BY <2>2, <3>3 DEF IngestRelation, IngestObservation, Fail, Abandon, Edit, Time
    <3>4. ~UNCHANGED vars BY <2>2 DEF vars
    <3>5. QED BY <3>1, <3>2, <3>3, <3>4 DEF Next, Step
  <2>5. CASE BeginSearch
    <3>1. p = Search
      BY <2>1, <2>5, NoneAssumption DEF BeginSearch, Trying, TriedType
    <3>2. Searching(mem, tried) /\ mem.after <= now
      BY <2>5 DEF BeginSearch, SearchDue, IInv, Sound
    <3>3. QED BY <3>1, <3>2 DEF Searching
  <2>6. CASE Select
    <3>1. PICK i \in Due(mem.queue) : Trying(mem.queue[i].page) BY <2>6 DEF Select
    <3>2. i \in DOMAIN mem.queue /\ mem.queue[i].due <= now BY <3>1 DEF Due
    <3>3. Rows(mem.queue, tried, published) BY <2>6 DEF Select, IInv, Sound
    <3>4. p = mem.queue[i].page
      BY <2>1, <3>1 DEF Trying, TriedType
    <3>5. Recounts(mem.queue[i], tried) BY <3>2, <3>3 DEF Rows
    <3>6. QED BY <3>2, <3>4, <3>5 DEF Recounts
  <2>7. CASE EndSearch BY <2>3, <2>7 DEF EndSearch
  <2>8. CASE \E r : pc \in Checking /\ Done(r) BY <2>3, <2>8, RowAtHand DEF Done
  <2>9. QED BY <2>4, <2>5, <2>6, <2>7, <2>8
<1>2. QED BY <1>1, Inductive, PTL DEF Spec, AttemptsSpaced
=============================================================================
