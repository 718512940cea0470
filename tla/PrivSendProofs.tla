--------------------------- MODULE PrivSendProofs ---------------------------
(***************************************************************************)
(* Proofs about PrivSend, for every number of clients, places,             *)
(* denominations and attempts: what is committed was signed as it is by    *)
(* everyone in it, and coins are locked while needed.                      *)
(*                                                                         *)
(* Nothing in a message names the session of an entry or of a signature.   *)
(* What keeps sessions apart is that a client's attempts are numbered in   *)
(* the order in which it mixes, that the connection keeps the order of its *)
(* messages, and that a client that has not sent the entry of its attempt  *)
(* yet is still in the queue (Pending).                                    *)
(***************************************************************************)
EXTENDS PrivSend, FiniteSetTheorems, TLAPS

(***************************************************************************)
(* The inductive invariant.                                                *)
(***************************************************************************)
\* what waits in a connection
Elems(q) == {q[i] : i \in DOMAIN q}

EntryIds == [who : Clients, attempt : 1..MaxAttempts]
PoolEntries == [who : Clients, attempt : 1..MaxAttempts, denom : Denoms,
                signed : SUBSET EntryIds]
PoolMessages ==
    [type : {"accept"}, denom : Denoms]
        \cup [type : {"entry"}, attempt : 1..MaxAttempts, denom : Denoms]
        \cup [type : {"signature"}, mix : SUBSET EntryIds]
ClientMessages ==
    [type : {"status"}, id : Nat, state : {"idle", "queue", "accepting", "signing"},
     count : 0..MaxPool, ok : BOOLEAN]
        \cup [type : {"ready"}]
        \cup [type : {"final"}, id : Nat, mix : SUBSET EntryIds]
        \cup [type : {"complete"}, id : Nat]

\* One denomination, and every client once.
Uniform(es) == \A e, f \in es : e.denom = f.denom /\ (e.who = f.who => e = f)
IsIn(c, es) == \E e \in es : e.who = c

\* The masternode's pool p after ss sessions.  A signature is there only while
\* the mix is signed, and for that mix; a mix is signed only when it is full.
PoolOK(p, ss) ==
    /\ p \in [state : {"idle", "queue", "accepting", "signing"}, id : 0..ss,
              denom : Denoms \cup {None}, users : 0..MaxPool, entries : SUBSET PoolEntries]
    /\ (p.state = "idle") = (p.id = 0) /\ (p.id = 0) = (p.users = 0)
    /\ p.id = 0 => p.entries = {}
    /\ IsFiniteSet(p.entries) /\ Cardinality(p.entries) <= MaxPool
    /\ Uniform(p.entries)
    /\ p.state = "signing" => Cardinality(p.entries) = MaxPool
    /\ \A e \in p.entries :
          e.signed # Unsigned => e.signed = Mix(p.entries) /\ p.state = "signing"

\* A committed mix.
MixOK(m) ==
    /\ IsFiniteSet(m) /\ Cardinality(m) = MaxPool /\ Uniform(m)
    /\ \A e \in m : e.signed = Mix(m)

ClientRecords ==
    [state : {"idle", "queue", "accepting", "signing", "error"}, id : Nat,
     denom : Denoms \cup {None}, submitted : BOOLEAN, count : 0..MaxPool,
     entry : Nat, tracked : BOOLEAN]
Steps == {"none", "prepared", "sending"}

\* Client c in state cl and step st, in its n-th attempt of total, when cs have
\* their coin locked, lk for good, and there were ss sessions.
ClientOK(c, cl, st, cs, lk, n, total, ss) ==
    /\ n <= total /\ cl.id <= ss
    /\ cl.entry \in {0, n}
    /\ cl.submitted => n # 0 /\ cl.denom \in Denoms
    /\ st # "none" => n # 0
    /\ ~cl.submitted => cl.id = 0 /\ ~cl.tracked /\ cl.state \in {"idle", "error", "accepting"}
    /\ cl.submitted /\ (st # "none" \/ cl.entry # 0) => c \in cs
    /\ st = "sending" /\ c \in cs => cl.submitted /\ cl.tracked
    /\ cl.state = "signing" => c \in cs /\ cl.entry # 0
    /\ c \in cs /\ st = "none" =>
          c \in lk \/ (cl.tracked /\ cl.state \in {"accepting", "signing"})

\* A client that may still send the entry of the attempt it is in.
Pending(cl, st) == (cl.submitted /\ cl.state = "queue") \/ st # "none"

\* Attempt a of a client that is in its n-th: the entry was sent.
Sent(a, n, cl, st) == a <= n /\ (Pending(cl, st) => a < n)

\* The messages q to the masternode: an entry is never followed by a signature,
\* nor by the entry of an older attempt.
InOrder(q) ==
    \A i \in 1..Len(q) : q[i].type = "entry" =>
        \A j \in (i + 1)..Len(q) :
            /\ q[j].type # "signature"
            /\ q[j].type = "entry" => q[i].attempt < q[j].attempt

\* A signature of a client that is in the pool is for the mix of the pool.
SignsPool(c, m, p) ==
    m.type = "signature" /\ IsIn(c, p.entries) =>
        p.state = "signing" /\ m.mix = Mix(p.entries)

\* A message to a client, when the masternode's pool is p after ss sessions.  The
\* mix of an earlier session has earlier attempts.
Announces(m, p, ss) ==
    /\ m.type = "status" => m.id <= ss
    /\ m.type = "final" =>
        /\ m.id \in 1..ss
        /\ m.id = p.id => p.state = "signing" /\ m.mix = Mix(p.entries)
        /\ m.id # p.id => \A x \in m.mix : \A e \in p.entries :
                             e.who = x.who => x.attempt < e.attempt

\* The entries of client c after attempt a are all still to come.
Before(a, q) == \A m \in Elems(q) : m.type = "entry" => a < m.attempt
Seen(x) == Sent(x.attempt, attempts[x.who], client[x.who], step[x.who])
              /\ Before(x.attempt, toPool[x.who])

PoolInv == sessions \in Nat /\ PoolOK(pool, sessions) /\ \A m \in mixes : MixOK(m)
ClientInv ==
    /\ started \in 0..MaxAttempts
    /\ coins \subseteq Clients /\ leaked \subseteq Clients
    /\ client \in [Clients -> ClientRecords] /\ step \in [Clients -> Steps]
    /\ attempts \in [Clients -> Nat]
    /\ \A c \in Clients :
          ClientOK(c, client[c], step[c], coins, leaked, attempts[c], started, sessions)
AnswerInv == answer = None \/ answer \in [to : Clients, ok : BOOLEAN]
QueueInv ==
    /\ toPool \in [Clients -> Seq(PoolMessages)]
    /\ toClient \in [Clients -> Seq(ClientMessages)]
    /\ \A c \in Clients : InOrder(toPool[c])
    /\ \A c \in Clients : \A m \in Elems(toPool[c]) :
          /\ m.type = "entry" => Sent(m.attempt, attempts[c], client[c], step[c])
          /\ SignsPool(c, m, pool)
    /\ \A c \in Clients : \A m \in Elems(toClient[c]) : Announces(m, pool, sessions)
SeenInv ==
    /\ \A e \in pool.entries : Seen(e)
    /\ \A c \in Clients : \A m \in Elems(toClient[c]) :
          m.type = "final" => \A x \in m.mix : Seen(x)

IInv == PoolInv /\ ClientInv /\ AnswerInv /\ QueueInv /\ SeenInv
(***************************************************************************)
(* Messages and queues.                                                    *)
(***************************************************************************)
\* What the masternode is sent has the fields of its kind.
LEMMA PoolMessageFields ==
    ASSUME NEW m \in PoolMessages
    PROVE  /\ m.type = "accept" => m.denom \in Denoms
           /\ m.type = "entry" => m.attempt \in 1..MaxAttempts /\ m.denom \in Denoms
           /\ m.type = "signature" => m.mix \subseteq EntryIds
BY DEF PoolMessages

\* What a client is sent has the fields of its kind.
LEMMA ClientMessageFields ==
    ASSUME NEW m \in ClientMessages
    PROVE  /\ m.type = "status" => m.id \in Nat /\ m.count \in 0..MaxPool
           /\ m.type = "final" => m.id \in Nat /\ m.mix \subseteq EntryIds
           /\ m.type = "complete" => m.id \in Nat
BY DEF ClientMessages

\* A queue after Append, Tail and \o.
LEMMA AppendElems ==
    ASSUME NEW S, NEW q \in Seq(S), NEW m \in S
    PROVE  Append(q, m) \in Seq(S) /\ Elems(Append(q, m)) = Elems(q) \cup {m}
<1>1. Len(Append(q, m)) = Len(q) + 1 /\ Append(q, m)[Len(q) + 1] = m
  OBVIOUS
<1>2. \A i \in 1..Len(q) : Append(q, m)[i] = q[i]
  OBVIOUS
<1>3. DOMAIN q = 1..Len(q) /\ DOMAIN Append(q, m) = 1..(Len(q) + 1) /\ Len(q) \in Nat
  OBVIOUS
<1>. DEFINE n == Len(q)
<1>. DEFINE r == Append(q, m)
<1>4. n \in Nat /\ DOMAIN q = 1..n /\ DOMAIN r = 1..(n + 1) /\ r[n + 1] = m
         /\ \A i \in 1..n : r[i] = q[i]
  BY <1>1, <1>2, <1>3
<1>5. r \in Seq(S)
  OBVIOUS
<1>. HIDE DEF n, r
<1>6. Elems(r) = Elems(q) \cup {m}
  <2>1. Elems(r) \subseteq Elems(q) \cup {m}
    BY <1>4 DEF Elems
  <2>2. Elems(q) \subseteq Elems(r)
    BY <1>4 DEF Elems
  <2>3. n + 1 \in DOMAIN r
    BY <1>4
  <2>4. m \in Elems(r)
    BY <1>4, <2>3 DEF Elems
  <2>. QED BY <2>1, <2>2, <2>4
<1>. QED BY <1>5, <1>6 DEF r

LEMMA TailElems ==
    ASSUME NEW S, NEW q \in Seq(S), q # <<>>
    PROVE  /\ Tail(q) \in Seq(S) /\ Head(q) \in S /\ Head(q) \in Elems(q)
           /\ Elems(Tail(q)) \subseteq Elems(q)
<1>1. Tail(q) \in Seq(S) /\ Len(q) \in Nat /\ Len(q) # 0 /\ Head(q) = q[1]
  OBVIOUS
<1>2. DOMAIN q = 1..Len(q) /\ DOMAIN Tail(q) = 1..(Len(q) - 1)
  OBVIOUS
<1>3. \A i \in 1..(Len(q) - 1) : Tail(q)[i] = q[i + 1]
  OBVIOUS
<1>4. 1 \in DOMAIN q /\ \A i \in 1..(Len(q) - 1) : i + 1 \in DOMAIN q
  BY <1>1, <1>2
<1>5. Head(q) \in S
  OBVIOUS
<1>. QED BY <1>1, <1>2, <1>3, <1>4, <1>5 DEF Elems

LEMMA ConcatElems ==
    ASSUME NEW S, NEW q \in Seq(S), NEW r \in Seq(S)
    PROVE  q \o r \in Seq(S) /\ Elems(q \o r) \subseteq Elems(q) \cup Elems(r)
<1>1. q \o r \in Seq(S) /\ Len(q \o r) = Len(q) + Len(r)
  OBVIOUS
<1>2. \A i \in 1..(Len(q) + Len(r)) : (q \o r)[i] = IF i <= Len(q) THEN q[i] ELSE r[i - Len(q)]
  OBVIOUS
<1>3. DOMAIN (q \o r) = 1..(Len(q) + Len(r)) /\ DOMAIN q = 1..Len(q) /\ DOMAIN r = 1..Len(r)
        /\ Len(q) \in Nat /\ Len(r) \in Nat
  BY <1>1
<1>4. ASSUME NEW i \in DOMAIN (q \o r) PROVE (q \o r)[i] \in Elems(q) \cup Elems(r)
  <2>1. CASE i <= Len(q)
    BY <1>2, <1>3, <1>4, <2>1 DEF Elems
  <2>2. CASE ~(i <= Len(q))
    <3>1. i - Len(q) \in DOMAIN r
      BY <1>3, <1>4, <2>2
    <3>. QED BY <1>2, <1>3, <1>4, <2>2, <3>1 DEF Elems
  <2>. QED BY <2>1, <2>2
<1>. QED BY <1>1, <1>4 DEF Elems

LEMMA OneElem ==
    ASSUME NEW S, NEW m \in S
    PROVE  <<m>> \in Seq(S) /\ Elems(<<m>>) = {m}
BY DEF Elems

\* The order of a queue when its first message is taken.
LEMMA InOrderTail ==
    ASSUME NEW S, NEW q \in Seq(S), q # <<>>, InOrder(q)
    PROVE  /\ InOrder(Tail(q))
           /\ Head(q).type = "entry" => \A m \in Elems(Tail(q)) :
                 m.type # "signature" /\ (m.type = "entry" => Head(q).attempt < m.attempt)
<1>1. Len(q) \in Nat /\ Len(q) # 0 /\ Head(q) = q[1] /\ Len(Tail(q)) = Len(q) - 1
        /\ DOMAIN Tail(q) = 1..(Len(q) - 1)
  OBVIOUS
<1>2. \A i \in 1..(Len(q) - 1) : Tail(q)[i] = q[i + 1]
  OBVIOUS
<1>. DEFINE n == Len(q)
<1>. DEFINE r == Tail(q)
<1>3. n \in Nat /\ n # 0 /\ Head(q) = q[1] /\ Len(r) = n - 1 /\ DOMAIN r = 1..(n - 1)
        /\ \A i \in 1..(n - 1) : r[i] = q[i + 1]
  BY <1>1, <1>2
<1>4. \A i \in 1..n : q[i].type = "entry" =>
        \A j \in (i + 1)..n :
            q[j].type # "signature" /\ (q[j].type = "entry" => q[i].attempt < q[j].attempt)
  BY DEF InOrder
<1>. HIDE DEF n, r
<1>5. InOrder(r)
  <2>. SUFFICES ASSUME NEW i \in 1..(n - 1), r[i].type = "entry", NEW j \in (i + 1)..(n - 1)
                PROVE  r[j].type # "signature"
                         /\ (r[j].type = "entry" => r[i].attempt < r[j].attempt)
    BY <1>3 DEF InOrder
  <2>1. i + 1 \in 1..n /\ j + 1 \in ((i + 1) + 1)..n /\ j \in 1..(n - 1)
    BY <1>3
  <2>2. r[i] = q[i + 1] /\ r[j] = q[j + 1]
    BY <1>3, <2>1
  <2>. QED BY <1>4, <2>1, <2>2
<1>6. ASSUME Head(q).type = "entry", NEW m \in Elems(r)
      PROVE  m.type # "signature" /\ (m.type = "entry" => Head(q).attempt < m.attempt)
  <2>1. PICK i \in 1..(n - 1) : m = q[i + 1]
    BY <1>3, <1>6 DEF Elems
  <2>2. i + 1 \in (1 + 1)..n /\ 1 \in 1..n
    BY <1>3, <2>1
  <2>. QED BY <1>3, <1>4, <1>6, <2>1, <2>2
<1>. QED BY <1>5, <1>6 DEF r

\* The order of a queue when a message is sent.
LEMMA InOrderAppend ==
    ASSUME NEW S, NEW q \in Seq(S), NEW m \in S, InOrder(q),
           m.type = "signature" => \A l \in Elems(q) : l.type # "entry",
           m.type = "entry" => \A l \in Elems(q) : l.type = "entry" => l.attempt < m.attempt
    PROVE  InOrder(Append(q, m))
<1>1. Len(Append(q, m)) = Len(q) + 1 /\ Append(q, m)[Len(q) + 1] = m /\ Len(q) \in Nat
        /\ DOMAIN q = 1..Len(q)
  OBVIOUS
<1>2. \A i \in 1..Len(q) : Append(q, m)[i] = q[i]
  OBVIOUS
<1>. DEFINE n == Len(q)
<1>. DEFINE r == Append(q, m)
<1>3. n \in Nat /\ Len(r) = n + 1 /\ r[n + 1] = m /\ \A i \in 1..n : r[i] = q[i] /\ q[i] \in Elems(q)
  BY <1>1, <1>2 DEF Elems
<1>4. \A i \in 1..n : q[i].type = "entry" =>
        \A j \in (i + 1)..n :
            q[j].type # "signature" /\ (q[j].type = "entry" => q[i].attempt < q[j].attempt)
  BY DEF InOrder
<1>. HIDE DEF n, r
<1>5. InOrder(r)
  <2>. SUFFICES ASSUME NEW i \in 1..(n + 1), r[i].type = "entry", NEW j \in (i + 1)..(n + 1)
                PROVE  r[j].type # "signature"
                         /\ (r[j].type = "entry" => r[i].attempt < r[j].attempt)
    BY <1>3 DEF InOrder
  <2>1. i \in 1..n /\ (j = n + 1 \/ (j \in (i + 1)..n /\ j \in 1..n))
    BY <1>3
  <2>2. r[i] = q[i] /\ q[i] \in Elems(q)
    BY <1>3, <2>1
  <2>3. CASE j = n + 1
    BY <1>3, <2>2, <2>3
  <2>4. CASE j \in (i + 1)..n /\ j \in 1..n
    <3>1. r[j] = q[j]
      BY <1>3, <2>4
    <3>. QED BY <1>4, <2>1, <2>2, <2>4, <3>1
  <2>. QED BY <2>1, <2>3, <2>4
<1>. QED BY <1>5 DEF r

\* One client is sent a message, or all are sent some.
LEMMA ToOneElems ==
    ASSUME NEW S, NEW qs \in [Clients -> Seq(S)], NEW c \in Clients, NEW m \in S
    PROVE  /\ ToOne(qs, c, m) \in [Clients -> Seq(S)]
           /\ \A d \in Clients : Elems(ToOne(qs, c, m)[d]) \subseteq Elems(qs[d]) \cup {m}
<1>1. Append(qs[c], m) \in Seq(S) /\ Elems(Append(qs[c], m)) = Elems(qs[c]) \cup {m}
  BY AppendElems
<1>2. \A d \in Clients : ToOne(qs, c, m)[d] = IF d = c THEN Append(qs[c], m) ELSE qs[d]
  BY DEF ToOne
<1>3. ToOne(qs, c, m) \in [Clients -> Seq(S)]
  BY <1>1 DEF ToOne
<1>. QED BY <1>1, <1>2, <1>3

LEMMA ToAllElems ==
    ASSUME NEW S, NEW qs \in [Clients -> Seq(S)], NEW ms \in Seq(S)
    PROVE  /\ ToAll(qs, ms) \in [Clients -> Seq(S)]
           /\ \A d \in Clients : Elems(ToAll(qs, ms)[d]) \subseteq Elems(qs[d]) \cup Elems(ms)
<1>1. \A d \in Clients : qs[d] \o ms \in Seq(S) /\ Elems(qs[d] \o ms) \subseteq Elems(qs[d]) \cup Elems(ms)
  BY ConcatElems
<1>. QED BY <1>1 DEF ToAll

(***************************************************************************)
(* What a change of the masternode's pool does to what is under way.       *)
(***************************************************************************)
\* The mix says who is in the pool, with which attempt.
LEMMA MixHasEntries ==
    ASSUME NEW es, NEW fs, Mix(es) = Mix(fs), NEW e \in es
    PROVE  \E f \in fs : f.who = e.who /\ f.attempt = e.attempt
<1>1. Entry(e.who, e.attempt) \in Mix(fs)
  BY DEF Mix
<1>2. PICK f \in fs : Entry(e.who, e.attempt) = Entry(f.who, f.attempt)
  BY <1>1 DEF Mix
<1>3. f.who = e.who /\ f.attempt = e.attempt
  BY <1>2 DEF Entry
<1>. QED BY <1>3

\* The same entries, signed or not, in the same session.
LEMMA SameMix ==
    ASSUME NEW p, NEW r, NEW ss, NEW c, NEW m,
           r.id = p.id, Mix(r.entries) = Mix(p.entries), p.state = "signing" => r.state = "signing"
    PROVE  /\ Announces(m, p, ss) => Announces(m, r, ss)
           /\ SignsPool(c, m, p) => SignsPool(c, m, r)
<1>1. \A e \in r.entries : \E f \in p.entries : f.who = e.who /\ f.attempt = e.attempt
  BY MixHasEntries
<1>2. Announces(m, p, ss) => Announces(m, r, ss)
  BY <1>1 DEF Announces
<1>3. SignsPool(c, m, p) => SignsPool(c, m, r)
  BY <1>1 DEF SignsPool, IsIn
<1>. QED BY <1>2, <1>3

\* No session, or a new one.
LEMMA NoEntries ==
    ASSUME NEW p, NEW r, NEW ss \in Nat, NEW tt \in Nat, NEW c, NEW m \in ClientMessages, NEW l,
           ss <= tt, r.entries = {}, r.id \notin 1..ss
    PROVE  /\ Announces(m, p, ss) => Announces(m, r, tt)
           /\ SignsPool(c, l, r)
<1>1. m.type \in {"status", "final"} => m.id \in Nat
  BY ClientMessageFields
<1>2. Announces(m, p, ss) => Announces(m, r, tt)
  BY <1>1 DEF Announces
<1>3. SignsPool(c, l, r)
  BY DEF SignsPool, IsIn
<1>. QED BY <1>2, <1>3

\* An entry is added to a pool that is not full: it is a later attempt than any
\* of its sender's that was announced, and its sender has no signature under way.
LEMMA OneMoreEntry ==
    ASSUME NEW p, NEW r, NEW ss, NEW c, NEW m, NEW e,
           r.id = p.id, r.entries = p.entries \cup {e}, p.state # "signing",
           m.type = "final" => \A x \in m.mix : x.who = e.who => x.attempt < e.attempt,
           m.type = "signature" => c # e.who
    PROVE  /\ Announces(m, p, ss) => Announces(m, r, ss)
           /\ SignsPool(c, m, p) => SignsPool(c, m, r)
<1>1. Announces(m, p, ss) => Announces(m, r, ss)
  BY DEF Announces
<1>2. SignsPool(c, m, p) => SignsPool(c, m, r)
  BY DEF SignsPool, IsIn
<1>. QED BY <1>1, <1>2

\* What the masternode says of its own pool is so.
LEMMA OwnNews ==
    ASSUME NEW ss \in Nat, NEW p, PoolOK(p, ss), NEW ok \in BOOLEAN
    PROVE  /\ Status(p, ok) \in ClientMessages /\ Announces(Status(p, ok), p, ss)
           /\ Status(p, ok).type = "status"
           /\ p.state = "signing" =>
                 /\ Final(p) \in ClientMessages /\ Announces(Final(p), p, ss)
                 /\ Final(p).type = "final" /\ Final(p).mix = Mix(p.entries)
<1>1. Cardinality(p.entries) \in Nat
  BY FS_CardinalityType DEF PoolOK
<1>2. p.id \in 0..ss /\ p.state \in {"idle", "queue", "accepting", "signing"}
        /\ Cardinality(p.entries) <= MaxPool
  BY DEF PoolOK
<1>3. Cardinality(p.entries) \in 0..MaxPool
  BY <1>1, <1>2, PrivSendAssumption
<1>4. Status(p, ok) \in ClientMessages
  BY <1>2, <1>3 DEF Status, ClientMessages
<1>5. Announces(Status(p, ok), p, ss)
  BY <1>2 DEF Status, Announces
<1>6. ASSUME p.state = "signing"
      PROVE  Final(p) \in ClientMessages /\ Announces(Final(p), p, ss)
  <2>1. p.id \in 1..ss
    BY <1>2, <1>6 DEF PoolOK
  <2>2. p.entries \subseteq PoolEntries
    BY DEF PoolOK
  <2>3. Mix(p.entries) \subseteq EntryIds
    BY <2>2 DEF Mix, Entry, EntryIds, PoolEntries
  <2>4. Final(p) \in ClientMessages
    BY <2>1, <2>3 DEF Final, ClientMessages
  <2>5. Announces(Final(p), p, ss)
    BY <1>6, <2>1 DEF Final, Announces
  <2>. QED BY <2>4, <2>5
<1>7. Status(p, ok).type = "status" /\ Final(p).type = "final" /\ Final(p).mix = Mix(p.entries)
  BY DEF Status, Final
<1>. QED BY <1>4, <1>5, <1>6, <1>7

\* The masternode takes the first message of a client, or none.
Takes ==
    toPool' = toPool
        \/ \E c \in Clients : toPool[c] # <<>> /\ toPool' = [toPool EXCEPT ![c] = Tail(@)]

LEMMA Remains ==
    ASSUME QueueInv, Takes
    PROVE  /\ toPool' \in [Clients -> Seq(PoolMessages)]
           /\ \A d \in Clients : Elems(toPool'[d]) \subseteq Elems(toPool[d]) /\ InOrder(toPool'[d])
<1>1. CASE toPool' = toPool
  BY <1>1 DEF QueueInv
<1>2. ASSUME NEW c \in Clients, toPool[c] # <<>>, toPool' = [toPool EXCEPT ![c] = Tail(@)]
      PROVE  /\ toPool' \in [Clients -> Seq(PoolMessages)]
             /\ \A d \in Clients : Elems(toPool'[d]) \subseteq Elems(toPool[d]) /\ InOrder(toPool'[d])
  <2>1. toPool \in [Clients -> Seq(PoolMessages)] /\ \A d \in Clients : InOrder(toPool[d])
    BY DEF QueueInv
  <2>2. Tail(toPool[c]) \in Seq(PoolMessages) /\ Elems(Tail(toPool[c])) \subseteq Elems(toPool[c])
          /\ InOrder(Tail(toPool[c]))
    BY <1>2, <2>1, TailElems, InOrderTail
  <2>. QED BY <1>2, <2>1, <2>2
<1>. QED BY <1>1, <1>2 DEF Takes

\* The masternode's step: clients are as they were, at most the first message
\* of one is taken, and what all are sent is in ms and about the new pool.
LEMMA PoolNet ==
    ASSUME IInv, UNCHANGED clientVars, sessions' \in Nat, NEW ms, Takes,
           toClient' \in [Clients -> Seq(ClientMessages)],
           \A d \in Clients : Elems(toClient'[d]) \subseteq Elems(toClient[d]) \cup ms,
           \A m \in ms : /\ Announces(m, pool', sessions')
                         /\ m.type = "final" => m.mix = Mix(pool'.entries),
           \A d \in Clients : \A m \in Elems(toClient[d]) : Announces(m, pool', sessions'),
           \A d \in Clients : \A m \in Elems(toPool'[d]) : SignsPool(d, m, pool'),
           pool'.entries \subseteq PoolEntries,
           \A e \in pool'.entries :
               /\ Sent(e.attempt, attempts[e.who], client[e.who], step[e.who])
               /\ Before(e.attempt, toPool'[e.who])
    PROVE  QueueInv' /\ SeenInv'
<1>. USE DEF clientVars
<1>1. toPool' \in [Clients -> Seq(PoolMessages)]
  BY Remains DEF IInv
<1>2. \A d \in Clients : Elems(toPool'[d]) \subseteq Elems(toPool[d]) /\ InOrder(toPool'[d])
  BY Remains DEF IInv
<1>3. QueueInv'
  <2>1. \A d \in Clients : \A m \in Elems(toClient'[d]) : Announces(m, pool', sessions')
    OBVIOUS
  <2>2. \A d \in Clients : \A m \in Elems(toPool'[d]) :
          m.type = "entry" => Sent(m.attempt, attempts'[d], client'[d], step'[d])
    BY <1>2 DEF IInv, QueueInv
  <2>. QED BY <1>1, <1>2, <2>1, <2>2 DEF QueueInv
<1>4. \A e \in pool'.entries : Seen(e)'
  BY DEF Seen
<1>5. ASSUME NEW x \in EntryIds, Seen(x) PROVE Seen(x)'
  BY <1>2, <1>5 DEF Seen, Before, EntryIds
<1>6. ASSUME NEW d \in Clients, NEW m \in Elems(toClient'[d]), m.type = "final",
             NEW x \in m.mix
      PROVE  Seen(x)'
  <2>1. CASE m \in Elems(toClient[d])
    <3>1. m \in ClientMessages
      BY <2>1 DEF Elems, IInv, QueueInv
    <3>2. x \in EntryIds
      BY <1>6, <3>1, ClientMessageFields
    <3>3. Seen(x)
      BY <1>6, <2>1 DEF IInv, SeenInv
    <3>. QED BY <1>5, <3>2, <3>3
  <2>2. CASE m \in ms
    <3>1. PICK e \in pool'.entries : x = Entry(e.who, e.attempt)
      BY <1>6, <2>2 DEF Mix
    <3>2. x.who = e.who /\ x.attempt = e.attempt
      BY <3>1 DEF Entry
    <3>. QED BY <1>4, <3>2 DEF Seen
  <2>. QED BY <1>6, <2>1, <2>2
<1>. QED BY <1>3, <1>4, <1>6 DEF SeenInv

(***************************************************************************)
(* Steps of the clients.                                                   *)
(***************************************************************************)
\* The masternode's step leaves the clients as they were.
LEMMA ClientsStay ==
    ASSUME ClientInv, UNCHANGED clientVars, sessions \in Nat, sessions' \in Nat,
           sessions <= sessions'
    PROVE  ClientInv'
<1>. USE DEF clientVars
<1>1. ASSUME NEW c \in Clients
      PROVE  ClientOK(c, client[c], step[c], coins, leaked, attempts[c], started, sessions')
  <2>1. client[c].id \in Nat
    BY DEF ClientInv, ClientRecords
  <2>2. ClientOK(c, client[c], step[c], coins, leaked, attempts[c], started, sessions)
    BY DEF ClientInv
  <2>. QED BY <2>1, <2>2 DEF ClientOK
<1>. QED BY <1>1 DEF ClientInv

\* The step of a client leaves the others as they were.
LEMMA ClientMoves ==
    ASSUME ClientInv, NEW c \in Clients, NEW cl \in ClientRecords, NEW st \in Steps, NEW n \in Nat,
           client' = [client EXCEPT ![c] = cl], step' = [step EXCEPT ![c] = st],
           attempts' = [attempts EXCEPT ![c] = n],
           coins' \subseteq Clients, \A d \in Clients \ {c} : d \in coins' <=> d \in coins,
           leaked' \subseteq Clients, \A d \in Clients \ {c} : d \in leaked' <=> d \in leaked,
           started' \in 0..MaxAttempts, started <= started', sessions' = sessions,
           ClientOK(c, cl, st, coins', leaked', n, started', sessions)
    PROVE  ClientInv'
<1>1. client' \in [Clients -> ClientRecords] /\ step' \in [Clients -> Steps]
        /\ attempts' \in [Clients -> Nat]
  BY DEF ClientInv
<1>2. client'[c] = cl /\ step'[c] = st /\ attempts'[c] = n
  BY DEF ClientInv
<1>3. ASSUME NEW d \in Clients \ {c}
      PROVE  ClientOK(d, client'[d], step'[d], coins', leaked', attempts'[d], started', sessions')
  <2>1. client'[d] = client[d] /\ step'[d] = step[d] /\ attempts'[d] = attempts[d]
    BY DEF ClientInv
  <2>2. ClientOK(d, client[d], step[d], coins, leaked, attempts[d], started, sessions)
    BY DEF ClientInv
  <2>3. attempts[d] \in Nat /\ started \in Nat /\ started' \in Nat
    BY PrivSendAssumption DEF ClientInv
  <2>4. ClientOK(d, client[d], step[d], coins', leaked', attempts[d], started', sessions)
    BY <2>2, <2>3 DEF ClientOK
  <2>. QED BY <2>1, <2>4
<1>. QED BY <1>1, <1>2, <1>3 DEF ClientInv

\* The entries a client sent stay sent when it starts no attempt anew or goes on
\* to the next one.
LEMMA SentStays ==
    ASSUME ClientInv, NEW c \in Clients, NEW cl, NEW st, NEW n \in Nat,
           client' = [client EXCEPT ![c] = cl], step' = [step EXCEPT ![c] = st],
           attempts' = [attempts EXCEPT ![c] = n],
           \/ n = attempts[c] /\ (Pending(cl, st) => Pending(client[c], step[c]))
           \/ n = attempts[c] + 1,
           NEW d \in Clients, NEW a \in Nat, Sent(a, attempts[d], client[d], step[d])
    PROVE  Sent(a, attempts'[d], client'[d], step'[d])
<1>1. CASE d = c
  <2>1. client'[c] = cl /\ step'[c] = st /\ attempts'[c] = n /\ attempts[c] \in Nat
    BY DEF ClientInv
  <2>2. Sent(a, n, cl, st)
    BY <1>1, <2>1 DEF Sent
  <2>. QED BY <1>1, <2>1, <2>2
<1>2. CASE d # c
  BY <1>2 DEF ClientInv
<1>. QED BY <1>1, <1>2

\* A client's step that sends nothing.
LEMMA ClientQuiet ==
    ASSUME IInv, UNCHANGED poolVars, NEW c \in Clients, toPool' = toPool,
           toClient' = toClient
               \/ (toClient[c] # <<>> /\ toClient' = [toClient EXCEPT ![c] = Tail(@)]),
           \A d \in Clients : \A a \in Nat :
               Sent(a, attempts[d], client[d], step[d]) => Sent(a, attempts'[d], client'[d], step'[d])
    PROVE  QueueInv' /\ SeenInv'
<1>. USE DEF poolVars
<1>1. toClient' \in [Clients -> Seq(ClientMessages)]
  <2>1. toClient[c] # <<>> => Tail(toClient[c]) \in Seq(ClientMessages)
    BY TailElems DEF IInv, QueueInv
  <2>. QED BY <2>1 DEF IInv, QueueInv
<1>2. \A d \in Clients : Elems(toClient'[d]) \subseteq Elems(toClient[d])
  <2>1. toClient[c] # <<>> => Elems(Tail(toClient[c])) \subseteq Elems(toClient[c])
    BY TailElems DEF IInv, QueueInv
  <2>. QED BY <2>1 DEF IInv, QueueInv
<1>3. QueueInv'
  <2>1. ASSUME NEW d \in Clients, NEW m \in Elems(toPool[d]), m.type = "entry"
        PROVE  Sent(m.attempt, attempts'[d], client'[d], step'[d])
    <3>1. m \in PoolMessages
      BY <2>1 DEF Elems, IInv, QueueInv
    <3>2. m.attempt \in Nat
      BY <2>1, <3>1, PoolMessageFields
    <3>3. Sent(m.attempt, attempts[d], client[d], step[d])
      BY <2>1 DEF IInv, QueueInv
    <3>. QED BY <3>2, <3>3
  <2>. QED BY <1>1, <1>2, <2>1 DEF IInv, QueueInv
<1>4. ASSUME NEW x, x.who \in Clients, x.attempt \in 1..MaxAttempts, Seen(x) PROVE Seen(x)'
  BY <1>4 DEF Seen
<1>5. \A e \in pool.entries : Seen(e)'
  BY <1>4 DEF IInv, SeenInv, PoolInv, PoolOK, PoolEntries
<1>6. ASSUME NEW d \in Clients, NEW m \in Elems(toClient[d]), m.type = "final",
             NEW x \in m.mix
      PROVE  Seen(x)'
  <2>1. m \in ClientMessages
    BY <1>6 DEF Elems, IInv, QueueInv
  <2>2. x \in EntryIds
    BY <1>6, <2>1, ClientMessageFields
  <2>3. Seen(x)
    BY <1>6 DEF IInv, SeenInv
  <2>. QED BY <1>4, <2>2, <2>3 DEF EntryIds
<1>. QED BY <1>2, <1>3, <1>5, <1>6 DEF SeenInv

\* A client's step that sends m to the masternode: the entry of its attempt, or
\* a signature once all its entries were taken.
LEMMA ClientSends ==
    ASSUME IInv, UNCHANGED poolVars, NEW c \in Clients, NEW m \in PoolMessages,
           toPool' = ToOne(toPool, c, m),
           toClient' = toClient
               \/ (toClient[c] # <<>> /\ toClient' = [toClient EXCEPT ![c] = Tail(@)]),
           \A d \in Clients : \A a \in Nat :
               Sent(a, attempts[d], client[d], step[d]) => Sent(a, attempts'[d], client'[d], step'[d]),
           m.type = "entry" =>
               /\ Pending(client[c], step[c]) /\ m.attempt = attempts[c]
               /\ Sent(m.attempt, attempts'[c], client'[c], step'[c]),
           m.type = "signature" => \A l \in Elems(toPool[c]) : l.type # "entry",
           SignsPool(c, m, pool)
    PROVE  QueueInv' /\ SeenInv'
<1>. USE DEF poolVars
<1>1. toClient' \in [Clients -> Seq(ClientMessages)]
  <2>1. toClient[c] # <<>> => Tail(toClient[c]) \in Seq(ClientMessages)
    BY TailElems DEF IInv, QueueInv
  <2>. QED BY <2>1 DEF IInv, QueueInv
<1>2. \A d \in Clients : Elems(toClient'[d]) \subseteq Elems(toClient[d])
  <2>1. toClient[c] # <<>> => Elems(Tail(toClient[c])) \subseteq Elems(toClient[c])
    BY TailElems DEF IInv, QueueInv
  <2>. QED BY <2>1 DEF IInv, QueueInv
<1>3. toPool \in [Clients -> Seq(PoolMessages)]
  BY DEF IInv, QueueInv
<1>4. toPool' \in [Clients -> Seq(PoolMessages)]
        /\ \A d \in Clients : Elems(toPool'[d]) \subseteq Elems(toPool[d]) \cup {m}
  BY <1>3, ToOneElems
<1>5. toPool'[c] = Append(toPool[c], m) /\ \A d \in Clients \ {c} : toPool'[d] = toPool[d]
  BY <1>3 DEF ToOne
<1>6. ASSUME NEW d \in Clients, NEW l \in Elems(toPool[d]), l.type = "entry"
      PROVE  /\ l.attempt \in Nat
             /\ Sent(l.attempt, attempts[d], client[d], step[d])
             /\ Sent(l.attempt, attempts'[d], client'[d], step'[d])
  <2>1. l \in PoolMessages
    BY <1>6 DEF Elems, IInv, QueueInv
  <2>2. l.attempt \in Nat
    BY <1>6, <2>1, PoolMessageFields
  <2>3. Sent(l.attempt, attempts[d], client[d], step[d])
    BY <1>6 DEF IInv, QueueInv
  <2>. QED BY <2>2, <2>3
<1>7. \A d \in Clients : InOrder(toPool'[d])
  <2>1. m.type = "entry" => \A l \in Elems(toPool[c]) : l.type = "entry" => l.attempt < m.attempt
    BY <1>6 DEF Sent
  <2>2. InOrder(toPool[c]) /\ toPool[c] \in Seq(PoolMessages)
    BY DEF IInv, QueueInv
  <2>3. InOrder(Append(toPool[c], m))
    BY <2>1, <2>2, InOrderAppend
  <2>. QED BY <1>5, <2>3 DEF IInv, QueueInv
<1>8. QueueInv'
  <2>1. ASSUME NEW d \in Clients, NEW l \in Elems(toPool'[d])
        PROVE  /\ l.type = "entry" => Sent(l.attempt, attempts'[d], client'[d], step'[d])
               /\ SignsPool(d, l, pool)
    <3>1. CASE l \in Elems(toPool[d])
      BY <1>6, <3>1 DEF IInv, QueueInv
    <3>2. CASE l \notin Elems(toPool[d])
      <4>1. l = m /\ d = c
        BY <1>4, <1>5, <2>1, <3>2
      <4>. QED BY <4>1
    <3>. QED BY <3>1, <3>2
  <2>. QED BY <1>1, <1>2, <1>4, <1>7, <2>1 DEF IInv, QueueInv
<1>9. ASSUME NEW x, x.who \in Clients, x.attempt \in 1..MaxAttempts, Seen(x) PROVE Seen(x)'
  <2>1. Sent(x.attempt, attempts[x.who], client[x.who], step[x.who])
          /\ Before(x.attempt, toPool[x.who])
    BY <1>9 DEF Seen
  <2>2. Sent(x.attempt, attempts'[x.who], client'[x.who], step'[x.who])
    BY <1>9, <2>1
  <2>3. Before(x.attempt, toPool'[x.who])
    <3>1. CASE x.who = c /\ m.type = "entry"
      <4>1. x.attempt < m.attempt
        BY <2>1, <3>1 DEF Sent
      <4>. QED BY <1>4, <2>1, <3>1, <4>1 DEF Before
    <3>2. CASE x.who # c
      BY <1>5, <1>9, <2>1, <3>2
    <3>3. CASE m.type # "entry"
      BY <1>4, <1>9, <2>1, <3>3 DEF Before
    <3>. QED BY <3>1, <3>2, <3>3
  <2>. QED BY <2>2, <2>3 DEF Seen
<1>10. \A e \in pool.entries : Seen(e)'
  BY <1>9 DEF IInv, SeenInv, PoolInv, PoolOK, PoolEntries
<1>11. ASSUME NEW d \in Clients, NEW l \in Elems(toClient[d]), l.type = "final",
              NEW x \in l.mix
       PROVE  Seen(x)'
  <2>1. l \in ClientMessages
    BY <1>11 DEF Elems, IInv, QueueInv
  <2>2. x \in EntryIds
    BY <1>11, <2>1, ClientMessageFields
  <2>3. Seen(x)
    BY <1>11 DEF IInv, SeenInv
  <2>. QED BY <1>9, <2>2, <2>3 DEF EntryIds
<1>. QED BY <1>2, <1>8, <1>10, <1>11 DEF SeenInv

(***************************************************************************)
(* Steps of the masternode.                                                *)
(***************************************************************************)
\* Every client is sent some of ms, which is so of the new pool.
Tells(ms) ==
    /\ toClient' \in [Clients -> Seq(ClientMessages)]
    /\ \A d \in Clients : Elems(toClient'[d]) \subseteq Elems(toClient[d]) \cup ms
    /\ \A m \in ms : /\ Announces(m, pool', sessions')
                     /\ m.type = "final" => m.mix = Mix(pool'.entries)

\* The message in hand.
LEMMA Received ==
    ASSUME IInv, NEW c \in Clients, NEW type, Receives(c, type)
    PROVE  /\ Takes /\ toPool[c] # <<>> /\ toPool'[c] = Tail(toPool[c])
           /\ Head(toPool[c]) \in PoolMessages /\ Head(toPool[c]) \in Elems(toPool[c])
           /\ Head(toPool[c]).type = type
           /\ UNCHANGED clientVars
<1>1. Head(toPool[c]) \in PoolMessages /\ Head(toPool[c]) \in Elems(toPool[c])
  BY TailElems DEF IInv, QueueInv, Receives
<1>. QED BY <1>1 DEF IInv, QueueInv, Receives, Takes

\* Steps that keep the session and its entries, signed or not.
LEMMA SameMixNet ==
    ASSUME IInv, UNCHANGED clientVars, sessions' = sessions, NEW ms,
           Takes, Tells(ms), PoolOK(pool', sessions),
           pool'.id = pool.id, Mix(pool'.entries) = Mix(pool.entries),
           pool.state = "signing" => pool'.state = "signing"
    PROVE  QueueInv' /\ SeenInv'
<1>1. \A d \in Clients : \A m \in Elems(toClient[d]) : Announces(m, pool', sessions')
  BY SameMix DEF IInv, QueueInv
<1>2. \A d \in Clients : \A m \in Elems(toPool'[d]) : SignsPool(d, m, pool')
  BY SameMix, Remains DEF IInv, QueueInv
<1>3. ASSUME NEW e \in pool'.entries
      PROVE  /\ Sent(e.attempt, attempts[e.who], client[e.who], step[e.who])
             /\ Before(e.attempt, toPool'[e.who])
  <2>1. PICK f \in pool.entries : f.who = e.who /\ f.attempt = e.attempt
    BY MixHasEntries
  <2>2. Seen(f)
    BY DEF IInv, SeenInv
  <2>3. e.who \in Clients
    BY DEF PoolOK, PoolEntries
  <2>. QED BY <2>1, <2>2, <2>3, Remains DEF IInv, Seen, Before
<1>4. pool'.entries \subseteq PoolEntries /\ sessions' \in Nat
  BY DEF PoolOK, IInv, PoolInv
<1>. QED BY <1>1, <1>2, <1>3, <1>4, PoolNet DEF Tells

\* Steps after which the masternode has no entries: it has no session, or a new one.
LEMMA NoEntriesNet ==
    ASSUME IInv, UNCHANGED clientVars, NEW ms,
           sessions' \in Nat, sessions <= sessions', Takes, Tells(ms),
           pool'.entries = {}, pool'.id \notin 1..sessions
    PROVE  QueueInv' /\ SeenInv'
<1>1. ASSUME NEW d \in Clients, NEW m \in Elems(toClient[d])
      PROVE  Announces(m, pool', sessions')
  <2>1. m \in ClientMessages
    BY DEF Elems, IInv, QueueInv
  <2>2. Announces(m, pool, sessions) /\ sessions \in Nat
    BY DEF IInv, QueueInv, PoolInv
  <2>. QED BY <2>1, <2>2, NoEntries
<1>2. \A d \in Clients : \A m \in Elems(toPool'[d]) : SignsPool(d, m, pool')
  BY DEF SignsPool, IsIn
<1>. QED BY <1>1, <1>2, PoolNet DEF Tells

\* One client is told how the pool is now.
LEMMA TellOne ==
    ASSUME IInv, sessions' \in Nat, PoolOK(pool', sessions'), NEW c \in Clients, NEW ok \in BOOLEAN,
           toClient' = ToOne(toClient, c, Status(pool', ok))
    PROVE  Tells({Status(pool', ok)})
<1>1. Status(pool', ok) \in ClientMessages /\ Announces(Status(pool', ok), pool', sessions')
        /\ Status(pool', ok).type = "status"
  BY OwnNews
<1>2. toClient \in [Clients -> Seq(ClientMessages)]
  BY DEF IInv, QueueInv
<1>. QED BY <1>1, <1>2, ToOneElems DEF Tells

\* Nobody is told anything.
LEMMA TellNone ==
    ASSUME IInv, toClient' = toClient
    PROVE  Tells({})
BY DEF Tells, IInv, QueueInv

\* Everyone is told something that is no status and no mix.
LEMMA TellAll ==
    ASSUME IInv, NEW m \in ClientMessages, m.type \notin {"status", "final"},
           toClient' = ToAll(toClient, <<m>>)
    PROVE  Tells({m})
<1>1. <<m>> \in Seq(ClientMessages) /\ Elems(<<m>>) = {m}
  BY DEF Elems
<1>2. toClient \in [Clients -> Seq(ClientMessages)]
  BY DEF IInv, QueueInv
<1>3. Announces(m, pool', sessions')
  BY DEF Announces
<1>. QED BY <1>1, <1>2, <1>3, ToAllElems DEF Tells

\* Everyone is told how the pool is now.
LEMMA TellStatus ==
    ASSUME IInv, sessions' \in Nat, PoolOK(pool', sessions'), NEW ok \in BOOLEAN,
           toClient' = ToAll(toClient, <<Status(pool', ok)>>)
    PROVE  Tells({Status(pool', ok)})
<1>. DEFINE m == Status(pool', ok)
<1>1. m \in ClientMessages /\ Announces(m, pool', sessions') /\ m.type = "status"
  BY OwnNews
<1>. HIDE DEF m
<1>2. <<m>> \in Seq(ClientMessages) /\ Elems(<<m>>) = {m}
  BY <1>1 DEF Elems
<1>3. toClient \in [Clients -> Seq(ClientMessages)]
  BY DEF IInv, QueueInv
<1>4. Tells({m})
  BY <1>1, <1>2, <1>3, ToAllElems DEF Tells, m
<1>. QED BY <1>4 DEF m

\* No session.
LEMMA NullOK == ASSUME NEW ss \in Nat PROVE PoolOK(PoolNull, ss)
<1>1. IsFiniteSet({}) /\ Cardinality({}) = 0
  BY FS_EmptySet
<1>2. PoolNull.entries = {} /\ PoolNull.id = 0 /\ PoolNull.users = 0 /\ PoolNull.state = "idle"
        /\ PoolNull.denom = None
  BY DEF PoolNull
<1>3. PoolNull \in [state : {"idle", "queue", "accepting", "signing"}, id : 0..ss,
                    denom : Denoms \cup {None}, users : 0..MaxPool, entries : SUBSET PoolEntries]
  BY PrivSendAssumption DEF PoolNull
<1>. QED BY <1>1, <1>2, <1>3, PrivSendAssumption DEF PoolOK, Uniform

\* The session is given up, or over.
LEMMA PoolReset ==
    ASSUME IInv, UNCHANGED <<clientVars, answer, sessions>>, pool' = PoolNull,
           NEW ms, Takes, Tells(ms),
           \A m \in mixes' : m \in mixes \/ MixOK(m)
    PROVE  IInv'
<1>1. sessions \in Nat
  BY DEF IInv, PoolInv
<1>2. PoolInv'
  BY <1>1, NullOK DEF IInv, PoolInv
<1>3. ClientInv' /\ AnswerInv'
  BY <1>1, ClientsStay DEF IInv, AnswerInv
<1>4. pool'.entries = {} /\ pool'.id \notin 1..sessions
  BY <1>1 DEF PoolNull
<1>5. QueueInv' /\ SeenInv'
  BY <1>1, <1>4, NoEntriesNet
<1>. QED BY <1>2, <1>3, <1>5 DEF IInv

\* A masternode's step that keeps the pool, the answer and the sessions.
LEMMA PoolSame ==
    ASSUME IInv, UNCHANGED <<clientVars, pool, sessions, mixes>>, AnswerInv',
           NEW ms, Takes, Tells(ms)
    PROVE  IInv'
<1>1. PoolOK(pool', sessions) /\ sessions \in Nat
  BY DEF IInv, PoolInv
<1>2. QueueInv' /\ SeenInv'
  BY <1>1, SameMixNet
<1>3. PoolInv' /\ ClientInv'
  BY <1>1, ClientsStay DEF IInv, PoolInv
<1>. QED BY <1>2, <1>3 DEF IInv

LEMMA AcceptWhenFullKeeps ==
    ASSUME IInv, NEW c \in Clients, AcceptWhenFull(c) PROVE IInv'
<1>1. Takes /\ UNCHANGED clientVars /\ UNCHANGED poolVars
  BY Received DEF AcceptWhenFull
<1>2. sessions \in Nat /\ PoolOK(pool, sessions) /\ AnswerInv'
  BY <1>1 DEF IInv, PoolInv, AnswerInv, poolVars
<1>3. Tells({Status(pool', TRUE)})
  BY <1>1, <1>2, TellOne DEF AcceptWhenFull, poolVars
<1>. QED BY <1>1, <1>2, <1>3, PoolSame DEF poolVars

LEMMA RefuseEntryKeeps ==
    ASSUME IInv, NEW c \in Clients, RefuseEntry(c) PROVE IInv'
<1>1. Takes /\ UNCHANGED clientVars /\ UNCHANGED poolVars
  BY Received DEF RefuseEntry
<1>2. sessions \in Nat /\ PoolOK(pool, sessions) /\ AnswerInv'
  BY <1>1 DEF IInv, PoolInv, AnswerInv, poolVars
<1>3. Tells({Status(pool', FALSE)})
  BY <1>1, <1>2, TellOne DEF RefuseEntry, poolVars
<1>. QED BY <1>1, <1>2, <1>3, PoolSame DEF poolVars

LEMMA RejectSignatureKeeps ==
    ASSUME IInv, NEW c \in Clients, RejectSignature(c) PROVE IInv'
<1>1. Takes /\ UNCHANGED clientVars /\ UNCHANGED poolVars
  BY Received DEF RejectSignature
<1>2. sessions \in Nat /\ PoolOK(pool, sessions) /\ AnswerInv'
  BY <1>1 DEF IInv, PoolInv, AnswerInv, poolVars
<1>3. Tells({Status(pool', FALSE)})
  BY <1>1, <1>2, TellStatus DEF RejectSignature, poolVars
<1>. QED BY <1>1, <1>2, <1>3, PoolSame DEF poolVars

LEMMA AnswerKeeps ==
    ASSUME IInv, Answer PROVE IInv'
<1>1. Takes /\ UNCHANGED <<clientVars, pool, sessions, mixes>> /\ AnswerInv'
  BY DEF Answer, Takes, AnswerInv
<1>2. sessions' \in Nat /\ PoolOK(pool', sessions')
  BY <1>1 DEF IInv, PoolInv
<1>3. answer.to \in Clients /\ answer.ok \in BOOLEAN
  BY DEF IInv, AnswerInv, Answer
<1>4. toClient' = ToOne(toClient, answer.to, Status(pool', answer.ok))
  BY <1>1 DEF Answer
<1>5. Tells({Status(pool', answer.ok)})
  BY <1>2, <1>3, <1>4, TellOne
<1>. QED BY <1>1, <1>5, PoolSame

\* A user joins: a new session, or one more in the queue.
LEMMA AcceptKeeps ==
    ASSUME IInv, NEW c \in Clients, Accept(c) PROVE IInv'
<1>1. Takes /\ UNCHANGED clientVars /\ Head(toPool[c]).denom \in Denoms
  BY Received, PoolMessageFields DEF Accept
<1>2. Tells({}) /\ mixes' = mixes
  BY TellNone DEF Accept
<1>3. sessions \in Nat /\ PoolOK(pool, sessions) /\ \A m \in mixes : MixOK(m)
  BY DEF IInv, PoolInv
<1>4. CASE pool.id = 0 /\ sessions' = sessions + 1
              /\ pool' = [pool EXCEPT !.state = "queue", !.id = sessions + 1,
                                      !.denom = Head(toPool[c]).denom, !.users = 1]
              /\ answer' = [to |-> c, ok |-> TRUE]
  <2>1. pool'.entries = {} /\ pool'.id = sessions + 1 /\ pool'.users = 1 /\ pool'.state = "queue"
          /\ pool'.denom = Head(toPool[c]).denom
    BY <1>3, <1>4 DEF PoolOK
  <2>2. pool' \in [state : {"idle", "queue", "accepting", "signing"}, id : 0..(sessions + 1),
                   denom : Denoms \cup {None}, users : 0..MaxPool, entries : SUBSET PoolEntries]
    <3>1. 0..sessions \subseteq 0..(sessions + 1) /\ sessions + 1 \in 0..(sessions + 1)
            /\ 1 \in 0..MaxPool
      BY <1>3, PrivSendAssumption
    <3>2. pool \in [state : {"idle", "queue", "accepting", "signing"}, id : 0..(sessions + 1),
                    denom : Denoms \cup {None}, users : 0..MaxPool, entries : SUBSET PoolEntries]
      BY <1>3, <3>1 DEF PoolOK
    <3>. QED BY <1>1, <1>4, <3>1, <3>2
  <2>3. IsFiniteSet({}) /\ Cardinality({}) = 0
    BY FS_EmptySet
  <2>4. PoolOK(pool', sessions')
    BY <1>3, <1>4, <2>1, <2>2, <2>3, PrivSendAssumption DEF PoolOK, Uniform
  <2>5. sessions' \in Nat /\ sessions <= sessions' /\ pool'.id \notin 1..sessions
    BY <1>3, <1>4, <2>1
  <2>6. QueueInv' /\ SeenInv'
    BY <1>1, <1>2, <2>1, <2>5, NoEntriesNet
  <2>7. ClientInv' /\ AnswerInv'
    BY <1>1, <1>3, <1>4, <2>5, ClientsStay DEF IInv, AnswerInv
  <2>8. PoolInv'
    BY <1>2, <1>3, <2>4, <2>5 DEF PoolInv
  <2>. QED BY <2>6, <2>7, <2>8 DEF IInv
<1>5. ASSUME NEW in \in BOOLEAN, pool.id # 0, sessions' = sessions, ~IsSessionReady,
             in => pool.state = "queue",
             pool' = IF in THEN [pool EXCEPT !.users = @ + 1] ELSE pool,
             answer' = [to |-> c, ok |-> in]
      PROVE  IInv'
  <2>1. pool'.state = pool.state /\ pool'.id = pool.id /\ pool'.entries = pool.entries
          /\ pool'.users \in 1..MaxPool
    BY <1>3, <1>5, PrivSendAssumption DEF PoolOK, IsSessionReady
  <2>2. pool' \in [state : {"idle", "queue", "accepting", "signing"}, id : 0..sessions,
                   denom : Denoms \cup {None}, users : 0..MaxPool, entries : SUBSET PoolEntries]
    BY <1>3, <1>5, <2>1 DEF PoolOK
  <2>3. PoolOK(pool', sessions)
    BY <1>3, <1>5, <2>1, <2>2 DEF PoolOK
  <2>4. QueueInv' /\ SeenInv'
    BY <1>1, <1>2, <1>5, <2>1, <2>3, SameMixNet
  <2>5. ClientInv' /\ AnswerInv'
    BY <1>1, <1>3, <1>5, ClientsStay DEF IInv, AnswerInv
  <2>6. PoolInv'
    BY <1>2, <1>3, <1>5, <2>3 DEF PoolInv
  <2>. QED BY <2>4, <2>5, <2>6 DEF IInv
<1>6. CASE pool.id # 0 /\ sessions' = sessions /\ ~IsSessionReady
  BY <1>4, <1>5, <1>6 DEF Accept
<1>. QED BY <1>4, <1>6 DEF Accept

LEMMA CheckForCompleteQueueKeeps ==
    ASSUME IInv, CheckForCompleteQueue PROVE IInv'
<1>1. Takes /\ UNCHANGED clientVars /\ sessions' = sessions /\ mixes' = mixes
        /\ answer' = answer
  BY DEF CheckForCompleteQueue, Takes
<1>2. sessions \in Nat /\ PoolOK(pool, sessions) /\ \A m \in mixes : MixOK(m)
  BY DEF IInv, PoolInv
<1>3. Ready \in ClientMessages /\ Ready.type = "ready"
  BY DEF Ready, ClientMessages
<1>4. Tells({Ready})
  BY <1>3, TellAll DEF CheckForCompleteQueue
<1>5. pool.state = "queue" /\ pool' = [pool EXCEPT !.state = "accepting"]
  BY DEF CheckForCompleteQueue
<1>6. pool'.state = "accepting" /\ pool'.id = pool.id /\ pool'.entries = pool.entries
        /\ pool'.users = pool.users /\ pool'.denom = pool.denom
  BY <1>2, <1>5 DEF PoolOK
<1>7. pool' \in [state : {"idle", "queue", "accepting", "signing"}, id : 0..sessions,
                 denom : Denoms \cup {None}, users : 0..MaxPool, entries : SUBSET PoolEntries]
  BY <1>2, <1>5 DEF PoolOK
<1>8. PoolOK(pool', sessions)
  BY <1>2, <1>5, <1>6, <1>7 DEF PoolOK
<1>9. QueueInv' /\ SeenInv'
  BY <1>1, <1>4, <1>5, <1>6, <1>8, SameMixNet
<1>10. ClientInv' /\ AnswerInv'
  BY <1>1, <1>2, ClientsStay DEF IInv, AnswerInv
<1>11. PoolInv'
  BY <1>1, <1>2, <1>8 DEF PoolInv
<1>. QED BY <1>9, <1>10, <1>11 DEF IInv

LEMMA PoolTimeoutKeeps ==
    ASSUME IInv, PoolTimeout PROVE IInv'
<1>1. Takes /\ Tells({})
  BY TellNone DEF PoolTimeout, Takes
<1>. QED BY <1>1, PoolReset DEF PoolTimeout

\* An entry that AddEntry turns down ends the session.
LEMMA RejectEntryKeeps ==
    ASSUME IInv, NEW c \in Clients, RejectEntry(c) PROVE IInv'
<1>1. Takes /\ UNCHANGED <<clientVars, answer, sessions, mixes>> /\ pool' = PoolNull
  BY Received DEF RejectEntry
<1>2. sessions \in Nat /\ PoolOK(pool, sessions)
  BY DEF IInv, PoolInv
<1>3. Tells({Status(pool, FALSE)})
  <2>1. Status(pool, FALSE) \in ClientMessages /\ Announces(Status(pool, FALSE), pool, sessions)
          /\ Status(pool, FALSE).type = "status"
    BY <1>2, OwnNews
  <2>2. Announces(Status(pool, FALSE), pool', sessions')
    BY <1>1, <2>1 DEF Announces
  <2>3. toClient \in [Clients -> Seq(ClientMessages)]
    BY DEF IInv, QueueInv
  <2>. QED BY <2>1, <2>2, <2>3, ToOneElems DEF Tells, RejectEntry
<1>. QED BY <1>1, <1>3, PoolReset

\* A pool with one more entry.
LEMMA AddedOK ==
    ASSUME NEW ss \in Nat, NEW p, PoolOK(p, ss), p.id # 0, Cardinality(p.entries) < MaxPool,
           NEW e \in PoolEntries, e.signed = Unsigned,
           \A f \in p.entries : f.denom = e.denom /\ f.who # e.who,
           NEW r, r = [p EXCEPT !.entries = @ \cup {e}]
    PROVE  /\ PoolOK(r, ss) /\ r.id = p.id /\ r.state = p.state /\ r.entries = p.entries \cup {e}
           /\ r.state # "signing" /\ Cardinality(r.entries) = Cardinality(p.entries) + 1
<1>1. r.id = p.id /\ r.users = p.users /\ r.state = p.state /\ r.entries = p.entries \cup {e}
        /\ r \in [state : {"idle", "queue", "accepting", "signing"}, id : 0..ss,
                  denom : Denoms \cup {None}, users : 0..MaxPool, entries : SUBSET PoolEntries]
  BY DEF PoolOK
<1>2. e \notin p.entries
  OBVIOUS
<1>3. IsFiniteSet(p.entries) /\ Cardinality(p.entries) \in Nat
  BY FS_CardinalityType DEF PoolOK
<1>4. IsFiniteSet(r.entries) /\ Cardinality(r.entries) = Cardinality(p.entries) + 1
  BY <1>1, <1>2, <1>3, FS_AddElement
<1>5. Cardinality(r.entries) <= MaxPool /\ p.state # "signing"
  BY <1>3, <1>4, PrivSendAssumption DEF PoolOK
<1>6. Uniform(r.entries)
  BY <1>1 DEF PoolOK, Uniform
<1>7. \A f \in r.entries : f.signed = Unsigned
  BY <1>1, <1>5 DEF PoolOK
<1>8. PoolOK(r, ss)
  BY <1>1, <1>4, <1>5, <1>6, <1>7 DEF PoolOK
<1>. QED BY <1>1, <1>4, <1>5, <1>8

\* CheckPool keeps the session and its entries, and starts the signing when
\* the pool is full.
LEMMA CheckedOK ==
    ASSUME NEW ss \in Nat, NEW p, PoolOK(p, ss), p.id # 0, p.state # "signing"
    PROVE  LET r == CheckPoolAfterEntry(p).pool
               s == CheckPoolAfterEntry(p).sent
           IN  /\ PoolOK(r, ss) /\ r.id = p.id /\ r.entries = p.entries
               /\ s = <<>> \/ (r.state = "signing" /\ s = <<Final(r)>>)
<1>1. CASE p.state = "accepting" /\ Cardinality(p.entries) >= MaxPool
  <2>. DEFINE r == [p EXCEPT !.state = "signing"]
  <2>1. r.id = p.id /\ r.users = p.users /\ r.state = "signing" /\ r.entries = p.entries
          /\ r \in [state : {"idle", "queue", "accepting", "signing"}, id : 0..ss,
                    denom : Denoms \cup {None}, users : 0..MaxPool, entries : SUBSET PoolEntries]
    BY DEF PoolOK
  <2>2. CheckPoolAfterEntry(p).pool = r /\ CheckPoolAfterEntry(p).sent = <<Final(p)>>
    BY <1>1 DEF CheckPoolAfterEntry
  <2>3. Final(p) = Final(r)
    BY <2>1 DEF Final
  <2>. HIDE DEF r
  <2>4. Cardinality(p.entries) \in Nat
    BY FS_CardinalityType DEF PoolOK
  <2>5. Cardinality(r.entries) = MaxPool
    BY <1>1, <2>1, <2>4, PrivSendAssumption DEF PoolOK
  <2>6. PoolOK(r, ss)
    BY <1>1, <2>1, <2>5 DEF PoolOK
  <2>. QED BY <2>1, <2>2, <2>3, <2>6
<1>2. CASE ~(p.state = "accepting" /\ Cardinality(p.entries) >= MaxPool)
  BY <1>2 DEF CheckPoolAfterEntry
<1>. QED BY <1>1, <1>2

\* An entry is added: whatever its sender was told of is older, and it has no
\* signature under way.
LEMMA AddEntryKeeps ==
    ASSUME IInv, NEW c \in Clients, AddEntry(c) PROVE IInv'
<1>. DEFINE h == Head(toPool[c])
<1>. DEFINE e == [who |-> c, attempt |-> h.attempt, denom |-> h.denom, signed |-> Unsigned]
<1>. DEFINE added == [pool EXCEPT !.entries = @ \cup {e}]
<1>. DEFINE r == CheckPoolAfterEntry(added).pool
<1>. DEFINE s == CheckPoolAfterEntry(added).sent
<1>1. Takes /\ UNCHANGED clientVars /\ toPool[c] # <<>> /\ toPool'[c] = Tail(toPool[c])
        /\ h \in PoolMessages /\ h \in Elems(toPool[c]) /\ h.type = "entry"
  BY Received DEF AddEntry
<1>2. pool' = r /\ UNCHANGED <<answer, sessions, mixes>>
        /\ toClient' = ToAll(ToOne(toClient, c, Status(added, TRUE)), s \o <<Status(r, TRUE)>>)
  BY DEF AddEntry
<1>3. sessions \in Nat /\ PoolOK(pool, sessions) /\ \A m \in mixes : MixOK(m)
  BY DEF IInv, PoolInv
<1>4. pool.id # 0 /\ Cardinality(pool.entries) < MaxPool
  BY <1>3, PrivSendAssumption DEF AddEntry, IsSessionReady, AddEntryAllows, PoolOK
<1>5. h.attempt \in 1..MaxAttempts /\ h.denom \in Denoms
  BY <1>1, PoolMessageFields
<1>6. e \in PoolEntries /\ e.signed = Unsigned /\ e.who = c /\ e.attempt = h.attempt
        /\ e.denom = h.denom
  BY <1>5 DEF PoolEntries, Unsigned
<1>7. \A f \in pool.entries : f.denom = e.denom /\ f.who # e.who
  BY DEF AddEntry, IsOutputsCompatibleWithSessionDenom, AddEntryAllows
<1>. HIDE DEF e
<1>8. /\ PoolOK(added, sessions) /\ added.id = pool.id /\ added.state = pool.state
      /\ added.entries = pool.entries \cup {e} /\ added.state # "signing"
  BY <1>3, <1>4, <1>6, <1>7, AddedOK
<1>. HIDE DEF added
<1>9. /\ PoolOK(r, sessions) /\ r.id = pool.id /\ r.entries = pool.entries \cup {e}
      /\ s = <<>> \/ (r.state = "signing" /\ s = <<Final(r)>>)
  BY <1>3, <1>4, <1>8, CheckedOK
<1>. HIDE DEF r, s
<1>. DEFINE ms == {Status(added, TRUE), Status(r, TRUE)} \cup Elems(s)
<1>10. Tells(ms)
  <2>1. Status(added, TRUE) \in ClientMessages /\ Announces(Status(added, TRUE), added, sessions)
          /\ Status(added, TRUE).type = "status"
    BY <1>3, <1>8, OwnNews
  <2>2. Status(r, TRUE) \in ClientMessages /\ Announces(Status(r, TRUE), r, sessions)
          /\ Status(r, TRUE).type = "status"
    BY <1>3, <1>9, OwnNews
  <2>3. s \in Seq(ClientMessages) /\ \A m \in Elems(s) :
          Announces(m, r, sessions) /\ m.mix = Mix(r.entries)
    <3>1. CASE s = <<>>
      BY <3>1 DEF Elems
    <3>2. CASE r.state = "signing" /\ s = <<Final(r)>>
      <4>1. Final(r) \in ClientMessages /\ Announces(Final(r), r, sessions)
              /\ Final(r).mix = Mix(r.entries)
        BY <1>3, <1>9, <3>2, OwnNews
      <4>2. s \in Seq(ClientMessages) /\ Elems(s) = {Final(r)}
        BY <3>2, <4>1 DEF Elems
      <4>. QED BY <4>1, <4>2
    <3>. QED BY <1>9, <3>1, <3>2
  <2>4. <<Status(r, TRUE)>> \in Seq(ClientMessages) /\ Elems(<<Status(r, TRUE)>>) = {Status(r, TRUE)}
    BY <2>2, OneElem
  <2>5. s \o <<Status(r, TRUE)>> \in Seq(ClientMessages)
          /\ Elems(s \o <<Status(r, TRUE)>>) \subseteq Elems(s) \cup {Status(r, TRUE)}
    BY <2>3, <2>4, ConcatElems
  <2>6. toClient \in [Clients -> Seq(ClientMessages)]
    BY DEF IInv, QueueInv
  <2>. DEFINE one == ToOne(toClient, c, Status(added, TRUE))
  <2>7. one \in [Clients -> Seq(ClientMessages)]
          /\ \A d \in Clients : Elems(one[d]) \subseteq Elems(toClient[d]) \cup {Status(added, TRUE)}
    BY <2>1, <2>6, ToOneElems
  <2>. DEFINE last == s \o <<Status(r, TRUE)>>
  <2>8. toClient' = ToAll(one, last)
    BY <1>2
  <2>9. last \in Seq(ClientMessages) /\ Elems(last) \subseteq Elems(s) \cup {Status(r, TRUE)}
    BY <2>5
  <2>. HIDE DEF one, last
  <2>10. toClient' \in [Clients -> Seq(ClientMessages)]
           /\ \A d \in Clients : Elems(toClient'[d]) \subseteq Elems(one[d]) \cup Elems(last)
    BY <2>7, <2>8, <2>9, ToAllElems
  <2>11. \A d \in Clients : Elems(toClient'[d]) \subseteq Elems(toClient[d]) \cup ms
    BY <2>7, <2>9, <2>10
  <2>12. Announces(Status(added, TRUE), r, sessions)
    BY <2>1 DEF Announces
  <2>13. \A m \in ms : Announces(m, r, sessions) /\ (m.type = "final" => m.mix = Mix(r.entries))
    BY <2>1, <2>2, <2>3, <2>12
  <2>. QED BY <1>2, <2>10, <2>11, <2>13 DEF Tells
<1>11. ASSUME NEW d \in Clients, NEW m \in Elems(toClient[d]) PROVE Announces(m, r, sessions)
  <2>1. Announces(m, pool, sessions)
    BY DEF IInv, QueueInv
  <2>2. m.type = "final" => \A x \in m.mix : x.who = e.who => x.attempt < e.attempt
    BY <1>1, <1>6 DEF IInv, SeenInv, Seen, Before
  <2>. QED BY <1>8, <1>9, <2>1, <2>2, OneMoreEntry
<1>12. \A m \in Elems(toPool'[c]) :
         m.type # "signature" /\ (m.type = "entry" => h.attempt < m.attempt)
  <2>1. toPool[c] \in Seq(PoolMessages) /\ InOrder(toPool[c])
    BY DEF IInv, QueueInv
  <2>. QED BY <1>1, <2>1, InOrderTail
<1>13. ASSUME NEW d \in Clients, NEW m \in Elems(toPool'[d]) PROVE SignsPool(d, m, r)
  <2>1. SignsPool(d, m, pool)
    BY <1>1, <1>13, Remains DEF IInv, QueueInv
  <2>2. m.type = "signature" => d # e.who
    BY <1>6, <1>12, <1>13
  <2>3. m.type = "signature" => SignsPool(d, m, r)
    BY <1>9, <2>1, <2>2, <1>8 DEF SignsPool, IsIn
  <2>. QED BY <2>3 DEF SignsPool
<1>14. ASSUME NEW f \in r.entries
       PROVE  /\ Sent(f.attempt, attempts[f.who], client[f.who], step[f.who])
              /\ Before(f.attempt, toPool'[f.who])
  <2>1. CASE f \in pool.entries
    <3>1. Seen(f)
      BY <2>1 DEF IInv, SeenInv
    <3>2. f.who \in Clients
      BY <1>9 DEF PoolOK, PoolEntries
    <3>. QED BY <1>1, <3>1, <3>2, Remains DEF IInv, Seen, Before
  <2>2. CASE f = e
    <3>1. Sent(h.attempt, attempts[c], client[c], step[c])
      BY <1>1 DEF IInv, QueueInv
    <3>. QED BY <1>6, <1>12, <2>2, <3>1 DEF Before
  <2>. QED BY <1>9, <2>1, <2>2
<1>15. r.entries \subseteq PoolEntries
  BY <1>9 DEF PoolOK
<1>16. QueueInv' /\ SeenInv'
  BY <1>1, <1>2, <1>3, <1>10, <1>11, <1>13, <1>14, <1>15, PoolNet DEF Tells
<1>17. ClientInv' /\ AnswerInv'
  BY <1>1, <1>2, <1>3, ClientsStay DEF IInv, AnswerInv
<1>18. PoolInv'
  BY <1>2, <1>3, <1>9 DEF PoolInv
<1>. QED BY <1>16, <1>17, <1>18 DEF IInv

\* The entries of c with the signature in hand: the mix is the same, and what
\* is signed is signed for it.
LEMMA SignedOK ==
    ASSUME IInv, NEW c \in Clients, Receives(c, "signature"), AddScriptSigAllows(c)
    PROVE  LET es == AddScriptSig(c)
           IN  /\ es \subseteq PoolEntries /\ Mix(es) = Mix(pool.entries) /\ Uniform(es)
               /\ IsFiniteSet(es) /\ Cardinality(es) = Cardinality(pool.entries)
               /\ \A e \in es : e.signed # Unsigned => e.signed = Mix(es)
               /\ pool.state = "signing"
<1>. DEFINE h == Head(toPool[c])
<1>. DEFINE sign(e) == [e EXCEPT !.signed = IF e.who = c THEN h.mix ELSE @]
<1>1. h \in PoolMessages /\ h \in Elems(toPool[c]) /\ h.type = "signature"
  BY Received
<1>2. IsIn(c, pool.entries)
  BY DEF AddScriptSigAllows, IsIn
<1>3. pool.state = "signing" /\ h.mix = Mix(pool.entries)
  BY <1>1, <1>2 DEF IInv, QueueInv, SignsPool
<1>4. h.mix \subseteq EntryIds
  BY <1>1, PoolMessageFields
<1>5. sessions \in Nat /\ PoolOK(pool, sessions)
  BY DEF IInv, PoolInv
<1>6. pool.entries \subseteq PoolEntries /\ Uniform(pool.entries) /\ IsFiniteSet(pool.entries)
  BY <1>5 DEF PoolOK
<1>7. AddScriptSig(c) = {sign(e) : e \in pool.entries}
  BY DEF AddScriptSig
<1>8. ASSUME NEW e \in pool.entries
      PROVE  /\ sign(e) \in PoolEntries
             /\ sign(e).who = e.who /\ sign(e).attempt = e.attempt /\ sign(e).denom = e.denom
             /\ sign(e).signed = IF e.who = c THEN h.mix ELSE e.signed
  BY <1>4, <1>6 DEF PoolEntries
<1>9. \A e \in pool.entries : sign(e).signed # Unsigned => sign(e).signed = Mix(pool.entries)
  BY <1>3, <1>5, <1>8 DEF PoolOK
<1>. HIDE DEF sign
<1>10. ASSUME NEW e \in pool.entries, NEW f \in pool.entries, sign(e) = sign(f) PROVE e = f
  <2>1. sign(e).who = e.who /\ sign(f).who = f.who
    BY <1>8
  <2>2. e.who = f.who
    BY <1>10, <2>1
  <2>. QED BY <1>6, <2>2 DEF Uniform
<1>. DEFINE es == AddScriptSig(c)
<1>11. es = {sign(e) : e \in pool.entries}
  BY <1>7
<1>. HIDE DEF es
<1>12. es \subseteq PoolEntries
  BY <1>8, <1>11
<1>13. Mix(es) = Mix(pool.entries)
  <2>1. Mix(es) = {Entry(sign(e).who, sign(e).attempt) : e \in pool.entries}
    BY <1>11 DEF Mix
  <2>2. {Entry(sign(e).who, sign(e).attempt) : e \in pool.entries} = Mix(pool.entries)
    BY <1>8 DEF Mix
  <2>. QED BY <2>1, <2>2
<1>14. Uniform(es)
  BY <1>6, <1>8, <1>11 DEF Uniform
<1>15. \A e \in es : e.signed # Unsigned => e.signed = Mix(es)
  BY <1>9, <1>11, <1>13
<1>16. IsFiniteSet(es) /\ Cardinality(es) = Cardinality(pool.entries)
  <2>. DEFINE f == [e \in pool.entries |-> sign(e)]
  <2>1. f \in Bijection(pool.entries, es)
    <3>1. f \in [pool.entries -> es]
      BY <1>11
    <3>2. \A e, g \in pool.entries : f[e] = f[g] => e = g
      BY <1>10
    <3>3. \A t \in es : \E e \in pool.entries : f[e] = t
      BY <1>11
    <3>. QED BY <3>1, <3>2, <3>3 DEF Bijection, Injection, IsInjective, Surjection
  <2>. QED BY <1>6, <2>1, FS_Bijection DEF ExistsBijection
<1>. QED BY <1>3, <1>12, <1>13, <1>14, <1>15, <1>16 DEF es

LEMMA AddSignatureKeeps ==
    ASSUME IInv, NEW c \in Clients, AddSignature(c) PROVE IInv'
<1>. DEFINE es == AddScriptSig(c)
<1>1. Receives(c, "signature") /\ AddScriptSigAllows(c)
        /\ pool' = [pool EXCEPT !.entries = es]
        /\ UNCHANGED <<answer, sessions, mixes, toClient>>
  BY DEF AddSignature
<1>2. Takes /\ UNCHANGED clientVars /\ Tells({})
  BY <1>1, Received, TellNone
<1>3. sessions \in Nat /\ PoolOK(pool, sessions) /\ \A m \in mixes : MixOK(m)
  BY DEF IInv, PoolInv
<1>4. /\ es \subseteq PoolEntries /\ Mix(es) = Mix(pool.entries) /\ Uniform(es)
      /\ IsFiniteSet(es) /\ Cardinality(es) = Cardinality(pool.entries)
      /\ \A e \in es : e.signed # Unsigned => e.signed = Mix(es)
      /\ pool.state = "signing"
  BY <1>1, SignedOK
<1>. HIDE DEF es
<1>5. pool'.state = pool.state /\ pool'.id = pool.id /\ pool'.users = pool.users
        /\ pool'.entries = es
        /\ pool' \in [state : {"idle", "queue", "accepting", "signing"}, id : 0..sessions,
                      denom : Denoms \cup {None}, users : 0..MaxPool, entries : SUBSET PoolEntries]
  BY <1>1, <1>3, <1>4 DEF PoolOK
<1>6. pool.id # 0
  BY <1>3, <1>4 DEF PoolOK
<1>7. PoolOK(pool', sessions)
  BY <1>3, <1>4, <1>5, <1>6 DEF PoolOK
<1>8. QueueInv' /\ SeenInv'
  BY <1>1, <1>2, <1>4, <1>5, <1>7, SameMixNet
<1>9. ClientInv' /\ AnswerInv'
  BY <1>1, <1>2, <1>3, ClientsStay DEF IInv, AnswerInv
<1>10. PoolInv'
  BY <1>1, <1>3, <1>7 DEF PoolInv
<1>. QED BY <1>8, <1>9, <1>10 DEF IInv

LEMMA CommitFinalTransactionKeeps ==
    ASSUME IInv, NEW c \in Clients, NEW ok \in BOOLEAN, CommitFinalTransaction(c, ok) PROVE IInv'
<1>. DEFINE es == AddScriptSig(c)
<1>1. Receives(c, "signature") /\ AddScriptSigAllows(c) /\ IsSignaturesComplete(es)
        /\ mixes' = (IF ok THEN mixes \cup {es} ELSE mixes) /\ pool' = PoolNull
        /\ toClient' = ToAll(toClient, <<Complete(IF ok THEN pool.id ELSE 0)>>)
        /\ UNCHANGED <<answer, sessions>>
  BY DEF CommitFinalTransaction
<1>2. Takes /\ UNCHANGED clientVars
  BY <1>1, Received
<1>3. sessions \in Nat /\ PoolOK(pool, sessions)
  BY DEF IInv, PoolInv
<1>4. MixOK(es)
  <2>1. /\ Mix(es) = Mix(pool.entries) /\ Uniform(es)
        /\ IsFiniteSet(es) /\ Cardinality(es) = Cardinality(pool.entries)
        /\ \A e \in es : e.signed # Unsigned => e.signed = Mix(es)
        /\ pool.state = "signing"
    BY <1>1, SignedOK
  <2>. HIDE DEF es
  <2>. QED BY <1>1, <1>3, <2>1 DEF MixOK, PoolOK, IsSignaturesComplete
<1>. DEFINE id == IF ok THEN pool.id ELSE 0
<1>5. Complete(id) \in ClientMessages /\ Complete(id).type = "complete"
  BY <1>3 DEF Complete, ClientMessages, PoolOK
<1>6. Tells({Complete(id)})
  BY <1>1, <1>5, TellAll
<1>. HIDE DEF es, id
<1>. QED BY <1>1, <1>2, <1>4, <1>6, PoolReset

(***************************************************************************)
(* Each step of a client.                                                  *)
(***************************************************************************)
\* What is known of client c.
LEMMA Own ==
    ASSUME IInv, NEW c \in Clients
    PROVE  /\ client[c] \in ClientRecords /\ step[c] \in Steps /\ attempts[c] \in Nat
           /\ started \in 0..MaxAttempts /\ sessions \in Nat /\ attempts[c] \in 0..MaxAttempts
           /\ ClientOK(c, client[c], step[c], coins, leaked, attempts[c], started, sessions)
<1>1. ClientOK(c, client[c], step[c], coins, leaked, attempts[c], started, sessions)
        /\ attempts[c] \in Nat /\ started \in 0..MaxAttempts
  BY DEF IInv, ClientInv
<1>2. attempts[c] \in 0..MaxAttempts
  BY <1>1, PrivSendAssumption DEF ClientOK
<1>. QED BY <1>1, <1>2 DEF IInv, ClientInv, PoolInv

\* A step of a client in its attempt: what it was told, its coin and its own
\* state.
LEMMA OwnStep ==
    ASSUME IInv, UNCHANGED <<poolVars, attempts, started>>, NEW c \in Clients,
           NEW cl \in ClientRecords, NEW st \in Steps,
           client' = [client EXCEPT ![c] = cl], step' = [step EXCEPT ![c] = st],
           coins' \in {coins, coins \cup {c}, coins \ {c}}, leaked' \in {leaked, leaked \cup {c}},
           Pending(cl, st) => Pending(client[c], step[c]),
           ClientOK(c, cl, st, coins', leaked', attempts[c], started, sessions)
    PROVE  /\ PoolInv' /\ ClientInv' /\ AnswerInv'
           /\ \A d \in Clients : \A a \in Nat :
                 Sent(a, attempts[d], client[d], step[d]) => Sent(a, attempts'[d], client'[d], step'[d])
<1>1. attempts' = [attempts EXCEPT ![c] = attempts[c]] /\ attempts[c] \in Nat
        /\ started' = started /\ started \in 0..MaxAttempts /\ sessions' = sessions
  BY DEF IInv, ClientInv, poolVars
<1>2. coins' \subseteq Clients /\ \A d \in Clients \ {c} : d \in coins' <=> d \in coins
  BY DEF IInv, ClientInv
<1>3. leaked' \subseteq Clients /\ \A d \in Clients \ {c} : d \in leaked' <=> d \in leaked
  BY DEF IInv, ClientInv
<1>4. started' \in 0..MaxAttempts /\ started <= started' /\ ClientInv
        /\ ClientOK(c, cl, st, coins', leaked', attempts[c], started', sessions)
  BY <1>1, PrivSendAssumption DEF IInv
<1>5. ClientInv'
  BY <1>1, <1>2, <1>3, <1>4, ClientMoves
<1>6. PoolInv' /\ AnswerInv'
  BY DEF IInv, PoolInv, AnswerInv, poolVars
<1>7. \A d \in Clients : \A a \in Nat :
        Sent(a, attempts[d], client[d], step[d]) => Sent(a, attempts'[d], client'[d], step'[d])
  BY <1>1, <1>4, SentStays
<1>. QED BY <1>5, <1>6, <1>7

\* The client takes its first message, or none.
Hears(c) ==
    toClient' = toClient \/ (toClient[c] # <<>> /\ toClient' = [toClient EXCEPT ![c] = Tail(@)])

LEMMA QuietStep ==
    ASSUME IInv, UNCHANGED <<poolVars, attempts, started>>, NEW c \in Clients,
           NEW cl \in ClientRecords, NEW st \in Steps,
           client' = [client EXCEPT ![c] = cl], step' = [step EXCEPT ![c] = st],
           coins' \in {coins, coins \cup {c}, coins \ {c}}, leaked' \in {leaked, leaked \cup {c}},
           Pending(cl, st) => Pending(client[c], step[c]),
           ClientOK(c, cl, st, coins', leaked', attempts[c], started, sessions),
           toPool' = toPool, Hears(c)
    PROVE  IInv'
<1>1. /\ PoolInv' /\ ClientInv' /\ AnswerInv'
      /\ \A d \in Clients : \A a \in Nat :
            Sent(a, attempts[d], client[d], step[d]) => Sent(a, attempts'[d], client'[d], step'[d])
  BY OwnStep
<1>2. QueueInv' /\ SeenInv'
  BY <1>1, ClientQuiet DEF Hears
<1>. QED BY <1>1, <1>2 DEF IInv

\* The message in hand.
LEMMA Got ==
    ASSUME IInv, NEW c \in Clients, NEW type, Gets(c, type)
    PROVE  /\ Hears(c) /\ toClient[c] # <<>> /\ step[c] = "none"
           /\ Head(toClient[c]) \in ClientMessages /\ Head(toClient[c]).type = type
           /\ Head(toClient[c]) \in Elems(toClient[c])
           /\ Announces(Head(toClient[c]), pool, sessions)
           /\ UNCHANGED <<poolVars, attempts, started, leaked>>
<1>1. Head(toClient[c]) \in ClientMessages /\ Head(toClient[c]) \in Elems(toClient[c])
  BY TailElems DEF IInv, QueueInv, Gets
<1>2. Announces(Head(toClient[c]), pool, sessions)
  BY <1>1 DEF IInv, QueueInv
<1>. QED BY <1>1, <1>2 DEF Gets, Hears

\* A function is what it maps to.
LEMMA Unmoved ==
    ASSUME IInv, NEW c \in Clients
    PROVE  client = [client EXCEPT ![c] = client[c]] /\ step = [step EXCEPT ![c] = step[c]]
BY DEF IInv, ClientInv

\* The coin is unlocked if it is tracked.
LEMMA Unlocked ==
    ASSUME NEW c
    PROVE  /\ UnlockCoins(c) \in {coins, coins \ {c}}
           /\ c \in UnlockCoins(c) => c \in coins /\ ~client[c].tracked
BY DEF UnlockCoins

LEMMA NullRecord ==
    /\ ClientNull \in ClientRecords /\ ClientNull.state = "idle" /\ ClientNull.id = 0
    /\ ~ClientNull.submitted /\ ClientNull.entry = 0 /\ ~ClientNull.tracked
<1>1. 0 \in 0..MaxPool
  BY PrivSendAssumption
<1>. QED BY <1>1 DEF ClientNull, ClientRecords

LEMMA ResetRecord ==
    ASSUME NEW s \in {"idle", "error"}
    PROVE  LET cl == [ClientNull EXCEPT !.state = s]
           IN  /\ cl \in ClientRecords /\ cl.state = s /\ cl.id = 0 /\ ~cl.submitted /\ cl.entry = 0
               /\ ~cl.tracked
BY NullRecord DEF ClientRecords

\* A reset, whatever the other thread of the client is doing.
LEMMA ResetKeeps ==
    ASSUME IInv, UNCHANGED <<poolVars, step, attempts, started, leaked, toPool>>,
           NEW c \in Clients, NEW s \in {"idle", "error"}, Reset(c, s), Hears(c)
    PROVE  IInv'
<1>. DEFINE cl == [ClientNull EXCEPT !.state = s]
<1>1. /\ cl \in ClientRecords /\ cl.state = s /\ cl.id = 0 /\ ~cl.submitted /\ cl.entry = 0
      /\ ~cl.tracked
  BY ResetRecord
<1>2. client' = [client EXCEPT ![c] = cl] /\ coins' = UnlockCoins(c)
  BY DEF Reset
<1>. HIDE DEF cl
<1>3. client[c] \in ClientRecords /\ step[c] \in Steps /\ attempts[c] \in Nat /\ sessions \in Nat
        /\ ClientOK(c, client[c], step[c], coins, leaked, attempts[c], started, sessions)
  BY Own
<1>4. coins' \in {coins, coins \ {c}} /\ (c \in coins' => c \in coins /\ ~client[c].tracked)
  BY <1>2, Unlocked
<1>5. ClientOK(c, cl, step[c], coins', leaked, attempts[c], started, sessions)
  BY <1>1, <1>3, <1>4 DEF ClientOK
<1>6. step' = [step EXCEPT ![c] = step[c]] /\ leaked' = leaked
  BY Unmoved
<1>7. Pending(cl, step[c]) => Pending(client[c], step[c])
  BY <1>1 DEF Pending
<1>. QED BY <1>1, <1>2, <1>3, <1>4, <1>5, <1>6, <1>7, QuietStep

LEMMA IgnoreKeeps == ASSUME IInv, NEW c \in Clients, Ignore(c) PROVE IInv'
<1>1. PICK type \in {"status", "ready", "final", "complete"} : Gets(c, type)
  BY DEF Ignore
<1>2. Hears(c) /\ UNCHANGED <<poolVars, attempts, started, leaked>>
        /\ UNCHANGED <<client, step, coins, toPool>>
  BY <1>1, Got DEF Ignore
<1>3. client' = [client EXCEPT ![c] = client[c]] /\ step' = [step EXCEPT ![c] = step[c]]
  BY <1>2, Unmoved
<1>4. client[c] \in ClientRecords /\ step[c] \in Steps
        /\ ClientOK(c, client[c], step[c], coins', leaked', attempts[c], started, sessions)
  BY <1>2, Own
<1>. QED BY <1>2, <1>3, <1>4, QuietStep

LEMMA RejectedKeeps == ASSUME IInv, NEW c \in Clients, Rejected(c) PROVE IInv'
<1>1. Hears(c) /\ UNCHANGED <<poolVars, attempts, started, leaked>>
  BY Got DEF Rejected
<1>. QED BY <1>1, ResetKeeps DEF Rejected

LEMMA RefuseToSignKeeps == ASSUME IInv, NEW c \in Clients, RefuseToSign(c) PROVE IInv'
<1>1. Hears(c) /\ UNCHANGED <<poolVars, attempts, started, leaked>>
  BY Got DEF RefuseToSign
<1>. QED BY <1>1, ResetKeeps DEF RefuseToSign

LEMMA CompletedTransactionKeeps ==
    ASSUME IInv, NEW c \in Clients, CompletedTransaction(c) PROVE IInv'
<1>1. Hears(c) /\ UNCHANGED <<poolVars, attempts, started, leaked>>
  BY Got DEF CompletedTransaction
<1>. QED BY <1>1, ResetKeeps DEF CompletedTransaction

LEMMA ClientTimeoutKeeps == ASSUME IInv, NEW c \in Clients, ClientTimeout(c) PROVE IInv'
BY ResetKeeps DEF ClientTimeout, Hears

LEMMA ErrorIsOverKeeps == ASSUME IInv, NEW c \in Clients, ErrorIsOver(c) PROVE IInv'
BY ResetKeeps DEF ErrorIsOver, Hears

LEMMA AcceptedKeeps == ASSUME IInv, NEW c \in Clients, Accepted(c) PROVE IInv'
<1>. DEFINE m == Head(toClient[c])
<1>. DEFINE p == client[c]
<1>1. Hears(c) /\ UNCHANGED <<poolVars, attempts, started, leaked>> /\ m \in ClientMessages
        /\ m.type = "status" /\ Announces(m, pool, sessions)
  BY Got DEF Accepted
<1>2. m.id \in Nat /\ m.count \in 0..MaxPool /\ m.id <= sessions
  BY <1>1, ClientMessageFields DEF Announces
<1>3. p \in ClientRecords /\ step[c] \in Steps
        /\ ClientOK(c, p, step[c], coins, leaked, attempts[c], started, sessions)
  BY Own
<1>4. p.submitted /\ UNCHANGED <<step, coins, toPool>>
  BY DEF Accepted
<1>. HIDE DEF m
<1>. DEFINE joined == [p EXCEPT !.id = m.id]
<1>. DEFINE counted == [p EXCEPT !.count = m.count]
<1>5. client' = [client EXCEPT ![c] = joined] \/ client' = [client EXCEPT ![c] = counted]
  BY DEF Accepted, m
<1>6. /\ joined \in ClientRecords /\ joined.id = m.id /\ joined.state = p.state
      /\ joined.submitted = p.submitted /\ joined.entry = p.entry /\ joined.tracked = p.tracked
      /\ joined.denom = p.denom
  BY <1>2, <1>3 DEF ClientRecords
<1>7. /\ counted \in ClientRecords /\ counted.id = p.id /\ counted.state = p.state
      /\ counted.submitted = p.submitted /\ counted.entry = p.entry /\ counted.tracked = p.tracked
      /\ counted.denom = p.denom
  BY <1>2, <1>3 DEF ClientRecords
<1>. HIDE DEF joined, counted
<1>8. ClientOK(c, joined, step[c], coins', leaked', attempts[c], started, sessions)
  BY <1>1, <1>2, <1>3, <1>4, <1>6 DEF ClientOK
<1>9. ClientOK(c, counted, step[c], coins', leaked', attempts[c], started, sessions)
  BY <1>1, <1>3, <1>4, <1>7 DEF ClientOK
<1>10. step' = [step EXCEPT ![c] = step[c]] /\ coins' = coins /\ leaked' = leaked
  BY <1>1, <1>4, Unmoved
<1>11. Pending(joined, step[c]) => Pending(p, step[c])
  BY <1>6 DEF Pending
<1>12. Pending(counted, step[c]) => Pending(p, step[c])
  BY <1>7 DEF Pending
<1>13. CASE client' = [client EXCEPT ![c] = joined]
  BY <1>1, <1>3, <1>4, <1>6, <1>8, <1>10, <1>11, <1>13, QuietStep
<1>14. CASE client' = [client EXCEPT ![c] = counted]
  BY <1>1, <1>3, <1>4, <1>7, <1>9, <1>10, <1>12, <1>14, QuietStep
<1>. QED BY <1>5, <1>13, <1>14

\* The coin is locked: it may stay so, as the thread is busy with it.
LEMMA PrepareDenominateKeeps ==
    ASSUME IInv, NEW c \in Clients, PrepareDenominate(c) PROVE IInv'
<1>1. Hears(c) /\ UNCHANGED <<poolVars, attempts, started, leaked>>
  BY Got DEF PrepareDenominate
<1>2. client[c].submitted /\ client[c].state = "queue" /\ coins' = coins \cup {c}
        /\ step' = [step EXCEPT ![c] = "prepared"] /\ UNCHANGED <<client, toPool>>
  BY DEF PrepareDenominate
<1>3. client[c] \in ClientRecords
        /\ ClientOK(c, client[c], step[c], coins, leaked, attempts[c], started, sessions)
  BY Own
<1>4. ClientOK(c, client[c], "prepared", coins', leaked', attempts[c], started, sessions)
  BY <1>1, <1>2, <1>3 DEF ClientOK
<1>5. client' = [client EXCEPT ![c] = client[c]] /\ "prepared" \in Steps /\ leaked' = leaked
  BY <1>1, <1>2, Unmoved DEF Steps
<1>6. Pending(client[c], "prepared") => Pending(client[c], step[c])
  BY <1>2 DEF Pending
<1>. QED BY <1>1, <1>2, <1>3, <1>4, <1>5, <1>6, QuietStep

\* The session was reset: the coin is unlocked or stays locked for good.
LEMMA PrepareFailsKeeps ==
    ASSUME IInv, NEW c \in Clients, NEW leaks \in BOOLEAN, PrepareFails(c, leaks) PROVE IInv'
<1>1. Hears(c) /\ UNCHANGED <<poolVars, attempts, started>> /\ toPool' = toPool
  BY DEF PrepareFails, Hears
<1>2. step[c] = "prepared" /\ ~client[c].submitted /\ step' = [step EXCEPT ![c] = "none"]
        /\ client' = client
        /\ \/ coins' = coins /\ leaked' = leaked \cup {c}
           \/ coins' = coins \ {c} /\ leaked' = leaked
  BY DEF PrepareFails
<1>3. client[c] \in ClientRecords
        /\ ClientOK(c, client[c], step[c], coins, leaked, attempts[c], started, sessions)
  BY Own
<1>4. ClientOK(c, client[c], "none", coins', leaked', attempts[c], started, sessions)
  BY <1>2, <1>3 DEF ClientOK
<1>5. client' = [client EXCEPT ![c] = client[c]] /\ "none" \in Steps
  BY <1>2, Unmoved DEF Steps
<1>6. Pending(client[c], "none") => Pending(client[c], step[c])
  BY DEF Pending
<1>. QED BY <1>1, <1>2, <1>3, <1>4, <1>5, <1>6, QuietStep

LEMMA SendDenominateKeeps ==
    ASSUME IInv, NEW c \in Clients, SendDenominate(c) PROVE IInv'
<1>. DEFINE p == client[c]
<1>. DEFINE cl == [p EXCEPT !.tracked = TRUE]
<1>1. Hears(c) /\ UNCHANGED <<poolVars, attempts, started, leaked, coins>> /\ toPool' = toPool
  BY DEF SendDenominate, Hears
<1>2. step[c] = "prepared" /\ p.id # 0 /\ step' = [step EXCEPT ![c] = "sending"]
        /\ client' = [client EXCEPT ![c] = cl]
  BY DEF SendDenominate
<1>3. p \in ClientRecords /\ ClientOK(c, p, step[c], coins, leaked, attempts[c], started, sessions)
  BY Own
<1>4. /\ cl \in ClientRecords /\ cl.id = p.id /\ cl.state = p.state
      /\ cl.submitted = p.submitted /\ cl.entry = p.entry /\ cl.tracked /\ cl.denom = p.denom
  BY <1>3 DEF ClientRecords
<1>. HIDE DEF cl
<1>5. p.submitted
  BY <1>2, <1>3 DEF ClientOK
<1>6. ClientOK(c, cl, "sending", coins', leaked', attempts[c], started, sessions)
  BY <1>1, <1>2, <1>3, <1>4, <1>5 DEF ClientOK
<1>7. Pending(cl, "sending") => Pending(p, step[c])
  BY <1>2 DEF Pending
<1>8. "sending" \in Steps /\ coins' = coins /\ leaked' = leaked
  BY <1>1 DEF Steps
<1>. QED BY <1>1, <1>2, <1>4, <1>6, <1>7, <1>8, QuietStep

LEMMA SendFailsKeeps ==
    ASSUME IInv, NEW c \in Clients, SendFails(c) PROVE IInv'
<1>1. Hears(c) /\ UNCHANGED <<poolVars, attempts, started, leaked>> /\ toPool' = toPool
        /\ coins' = coins \ {c} /\ step' = [step EXCEPT ![c] = "none"]
  BY DEF SendFails, Hears
<1>. DEFINE cl == ClientNull
<1>2. /\ cl \in ClientRecords /\ cl.state = "idle" /\ cl.id = 0 /\ ~cl.submitted /\ cl.entry = 0
      /\ ~cl.tracked
  BY NullRecord
<1>3. client' = [client EXCEPT ![c] = cl]
  BY DEF SendFails
<1>. HIDE DEF cl
<1>4. ClientOK(c, client[c], step[c], coins, leaked, attempts[c], started, sessions)
        /\ attempts[c] \in Nat /\ sessions \in Nat
  BY Own
<1>5. ClientOK(c, cl, "none", coins', leaked', attempts[c], started, sessions)
  BY <1>1, <1>2, <1>4 DEF ClientOK
<1>6. ~Pending(cl, "none") /\ "none" \in Steps /\ leaked' = leaked
  BY <1>1, <1>2 DEF Pending, Steps
<1>. QED BY <1>1, <1>2, <1>3, <1>5, <1>6, QuietStep

\* The entry is sent, once for this attempt, or the session was reset.
LEMMA RelayInKeeps == ASSUME IInv, NEW c \in Clients, RelayIn(c) PROVE IInv'
<1>. DEFINE p == client[c]
<1>1. Hears(c) /\ UNCHANGED <<poolVars, attempts, started, leaked, coins>>
        /\ step[c] = "sending" /\ step' = [step EXCEPT ![c] = "none"]
  BY DEF RelayIn, Hears
<1>2. PICK state \in {"accepting"} \cup (IF p.submitted THEN {} ELSE {p.state}) :
        client' = [client EXCEPT ![c].state = state, ![c].entry = attempts[c]]
  BY DEF RelayIn
<1>3. p \in ClientRecords /\ attempts[c] \in 0..MaxAttempts /\ attempts[c] \in Nat
        /\ ClientOK(c, p, step[c], coins, leaked, attempts[c], started, sessions)
  BY Own
<1>4. attempts[c] \in 1..MaxAttempts
  BY <1>1, <1>3 DEF ClientOK
<1>. DEFINE cl == [p EXCEPT !.state = state, !.entry = attempts[c]]
<1>5. client' = [client EXCEPT ![c] = cl]
  BY <1>2
<1>6. /\ cl \in ClientRecords /\ cl.id = p.id /\ cl.state = state
      /\ cl.submitted = p.submitted /\ cl.entry = attempts[c] /\ cl.tracked = p.tracked
      /\ cl.denom = p.denom
  BY <1>2, <1>3, <1>4 DEF ClientRecords
<1>. HIDE DEF cl
<1>7. ClientOK(c, cl, "none", coins', leaked', attempts[c], started, sessions)
  BY <1>1, <1>2, <1>3, <1>4, <1>6 DEF ClientOK
<1>8. ~Pending(cl, "none") /\ Pending(p, step[c])
  BY <1>1, <1>2, <1>6 DEF Pending
<1>9. "none" \in Steps /\ coins' = coins /\ leaked' = leaked
  BY <1>1 DEF Steps
<1>10. CASE ~p.submitted
  <2>1. toPool' = toPool
    BY <1>10 DEF RelayIn
  <2>. QED BY <1>1, <1>5, <1>6, <1>7, <1>8, <1>9, <2>1, QuietStep
<1>11. CASE p.submitted
  <2>. DEFINE m == [type |-> "entry", attempt |-> attempts[c], denom |-> p.denom]
  <2>1. toPool' = ToOne(toPool, c, m)
    BY <1>11 DEF RelayIn
  <2>2. p.denom \in Denoms
    BY <1>3, <1>11 DEF ClientOK
  <2>3. m \in PoolMessages /\ m.type = "entry" /\ m.attempt = attempts[c]
    BY <1>4, <2>2 DEF PoolMessages
  <2>. HIDE DEF m
  <2>4. /\ PoolInv' /\ ClientInv' /\ AnswerInv'
        /\ \A d \in Clients : \A a \in Nat :
              Sent(a, attempts[d], client[d], step[d]) => Sent(a, attempts'[d], client'[d], step'[d])
    BY <1>1, <1>5, <1>6, <1>7, <1>8, <1>9, OwnStep
  <2>5. attempts'[c] = attempts[c] /\ client'[c] = cl /\ step'[c] = "none"
    BY <1>1, <1>5 DEF IInv, ClientInv
  <2>6. Sent(m.attempt, attempts'[c], client'[c], step'[c])
    BY <1>3, <1>8, <2>3, <2>5 DEF Sent
  <2>7. SignsPool(c, m, pool)
    BY <2>3 DEF SignsPool
  <2>8. QueueInv' /\ SeenInv'
    BY <1>1, <1>8, <2>1, <2>3, <2>4, <2>6, <2>7, ClientSends DEF Hears
  <2>. QED BY <2>4, <2>8 DEF IInv
<1>. QED BY <1>10, <1>11

\* A signature is sent after every entry of its sender was taken, and if the
\* sender is in the pool the mix is the pool's: the mix of an earlier session has
\* an attempt that is not its last one.
LEMMA SignFinalTransactionKeeps ==
    ASSUME IInv, NEW c \in Clients, SignFinalTransaction(c) PROVE IInv'
<1>. DEFINE p == client[c]
<1>. DEFINE f == Head(toClient[c])
<1>1. Hears(c) /\ UNCHANGED <<poolVars, attempts, started, leaked>> /\ step[c] = "none"
        /\ f \in ClientMessages /\ f.type = "final" /\ f \in Elems(toClient[c])
        /\ Announces(f, pool, sessions)
  BY Got DEF SignFinalTransaction
<1>2. p.submitted /\ f.id = p.id /\ Entry(c, p.entry) \in f.mix
        /\ client' = [client EXCEPT ![c].state = "signing"] /\ UNCHANGED <<step, coins>>
        /\ toPool' = ToOne(toPool, c, [type |-> "signature", mix |-> f.mix])
  BY DEF SignFinalTransaction, MixIsMine
<1>3. p \in ClientRecords /\ step[c] \in Steps /\ attempts[c] \in Nat /\ sessions \in Nat
        /\ ClientOK(c, p, step[c], coins, leaked, attempts[c], started, sessions)
  BY Own
<1>. DEFINE x == Entry(c, p.entry)
<1>. DEFINE m == [type |-> "signature", mix |-> f.mix]
<1>4. f.mix \subseteq EntryIds
  BY <1>1, ClientMessageFields
<1>5. x.who = c /\ x.attempt = p.entry /\ x \in f.mix
  BY <1>2 DEF Entry
<1>6. p.entry \in 1..MaxAttempts
  BY <1>4, <1>5 DEF EntryIds
<1>7. p.entry = attempts[c] /\ p.entry # 0
  BY <1>3, <1>6 DEF ClientOK
<1>8. m \in PoolMessages /\ m.type = "signature" /\ m.mix = f.mix
  BY <1>4 DEF PoolMessages
<1>9. Seen(x)
  BY <1>1, <1>5 DEF IInv, SeenInv
<1>10. toPool' = ToOne(toPool, c, m)
  BY <1>2
<1>. DEFINE cl == [p EXCEPT !.state = "signing"]
<1>11. client' = [client EXCEPT ![c] = cl]
  BY <1>2
<1>12. /\ cl \in ClientRecords /\ cl.id = p.id /\ cl.state = "signing"
       /\ cl.submitted = p.submitted /\ cl.entry = p.entry /\ cl.tracked = p.tracked
       /\ cl.denom = p.denom
  BY <1>3 DEF ClientRecords
<1>. HIDE DEF cl, m, x, f
<1>13. ASSUME NEW l \in Elems(toPool[c]), l.type = "entry" PROVE FALSE
  <2>1. l \in PoolMessages
    BY DEF Elems, IInv, QueueInv
  <2>2. l.attempt \in Nat
    BY <1>13, <2>1, PoolMessageFields
  <2>3. attempts[c] < l.attempt
    BY <1>5, <1>7, <1>9, <1>13 DEF Seen, Before
  <2>4. l.attempt <= attempts[c]
    BY <1>13 DEF IInv, QueueInv, Sent
  <2>. QED BY <1>3, <2>2, <2>3, <2>4
<1>14. SignsPool(c, m, pool)
  <2>1. ASSUME NEW e \in pool.entries, e.who = c, f.id # pool.id PROVE FALSE
    <3>1. Seen(e)
      BY <2>1 DEF IInv, SeenInv
    <3>2. e.attempt <= attempts[c]
      BY <2>1, <3>1 DEF Seen, Sent
    <3>3. attempts[c] < e.attempt
      BY <1>1, <1>5, <1>7, <2>1 DEF Announces
    <3>4. e.attempt \in Nat
      BY DEF IInv, PoolInv, PoolOK, PoolEntries
    <3>. QED BY <1>3, <3>2, <3>3, <3>4
  <2>2. f.id = pool.id => pool.state = "signing" /\ m.mix = Mix(pool.entries)
    BY <1>1, <1>8 DEF Announces
  <2>. QED BY <2>1, <2>2 DEF SignsPool, IsIn
<1>15. ClientOK(c, cl, step[c], coins', leaked', attempts[c], started, sessions)
  BY <1>1, <1>2, <1>3, <1>7, <1>12 DEF ClientOK
<1>16. Pending(cl, step[c]) => Pending(p, step[c])
  BY <1>12 DEF Pending
<1>17. step' = [step EXCEPT ![c] = step[c]] /\ coins' = coins /\ leaked' = leaked
  BY <1>1, <1>2, Unmoved
<1>18. /\ PoolInv' /\ ClientInv' /\ AnswerInv'
       /\ \A d \in Clients : \A a \in Nat :
             Sent(a, attempts[d], client[d], step[d]) => Sent(a, attempts'[d], client'[d], step'[d])
  BY <1>1, <1>3, <1>11, <1>12, <1>15, <1>16, <1>17, OwnStep
<1>19. QueueInv' /\ SeenInv'
  BY <1>1, <1>8, <1>10, <1>13, <1>14, <1>18, ClientSends DEF Hears
<1>. QED BY <1>18, <1>19 DEF IInv

\* The next attempt: whatever was sent was sent for an earlier one.
LEMMA DoAutomaticDenominatingKeeps ==
    ASSUME IInv, NEW c \in Clients, NEW d \in Denoms, DoAutomaticDenominating(c, d) PROVE IInv'
<1>. DEFINE cl == [ClientNull EXCEPT !.state = "queue", !.denom = d, !.submitted = TRUE]
<1>. DEFINE m == [type |-> "accept", denom |-> d]
<1>1. client[c].state = "idle" /\ step[c] = "none" /\ c \notin leaked
        /\ started < MaxAttempts /\ started' = started + 1
        /\ attempts' = [attempts EXCEPT ![c] = attempts[c] + 1]
        /\ coins' = UnlockCoins(c) /\ client' = [client EXCEPT ![c] = cl]
        /\ toPool' = ToOne(toPool, c, m) /\ UNCHANGED <<step, leaked, toClient>>
        /\ UNCHANGED poolVars
  BY DEF DoAutomaticDenominating
<1>2. client[c] \in ClientRecords /\ step[c] \in Steps /\ attempts[c] \in Nat /\ sessions \in Nat
        /\ started \in 0..MaxAttempts
        /\ ClientOK(c, client[c], step[c], coins, leaked, attempts[c], started, sessions)
  BY Own
<1>3. /\ cl \in ClientRecords /\ cl.state = "queue" /\ cl.id = 0 /\ cl.denom = d /\ cl.submitted
      /\ cl.entry = 0
  BY NullRecord DEF ClientRecords
<1>4. m \in PoolMessages /\ m.type = "accept"
  BY DEF PoolMessages
<1>. HIDE DEF cl, m
<1>8. coins' \in {coins, coins \ {c}} /\ c \notin coins'
  <2>1. c \notin coins
    BY <1>1, <1>2 DEF ClientOK
  <2>. QED BY <1>1, <2>1, Unlocked
<1>9. attempts[c] + 1 \in Nat /\ started + 1 \in 0..MaxAttempts /\ attempts[c] + 1 # 0
        /\ attempts[c] + 1 <= started + 1
  BY <1>1, <1>2, PrivSendAssumption DEF ClientOK
<1>10. ClientOK(c, cl, step[c], coins', leaked', attempts[c] + 1, started', sessions)
  BY <1>1, <1>2, <1>3, <1>8, <1>9 DEF ClientOK
<1>11. step' = [step EXCEPT ![c] = step[c]]
  BY <1>1, Unmoved
<1>12. started' \in 0..MaxAttempts /\ started <= started' /\ sessions' = sessions
  BY <1>1, <1>2, <1>9 DEF poolVars
<1>13. coins' \subseteq Clients /\ (\A b \in Clients \ {c} : b \in coins' <=> b \in coins)
         /\ leaked' = leaked /\ leaked \subseteq Clients
  BY <1>1, <1>8 DEF IInv, ClientInv
<1>14. ClientInv
  BY DEF IInv
<1>15. ClientInv'
  BY <1>1, <1>2, <1>3, <1>9, <1>10, <1>11, <1>12, <1>13, <1>14, ClientMoves
<1>16. \A b \in Clients : \A a \in Nat :
         Sent(a, attempts[b], client[b], step[b]) => Sent(a, attempts'[b], client'[b], step'[b])
  BY <1>1, <1>9, <1>11, <1>14, SentStays
<1>17. SignsPool(c, m, pool)
  BY <1>4 DEF SignsPool
<1>18. QueueInv' /\ SeenInv'
  BY <1>1, <1>4, <1>16, <1>17, ClientSends
<1>19. PoolInv' /\ AnswerInv'
  BY <1>1 DEF IInv, PoolInv, AnswerInv, poolVars
<1>. QED BY <1>15, <1>18, <1>19 DEF IInv

(***************************************************************************)
(* The theorems.                                                           *)
(***************************************************************************)
LEMMA InitInv == ASSUME Init PROVE IInv
<1>. USE DEF Init
<1>1. PoolInv
  BY NullOK DEF PoolInv
<1>2. ClientInv
  <2>1. ClientNull \in ClientRecords /\ ClientNull.state = "idle" /\ ClientNull.id = 0
          /\ ~ClientNull.submitted /\ ClientNull.entry = 0 /\ ~ClientNull.tracked
    BY NullRecord
  <2>2. ASSUME NEW c \in Clients
        PROVE  ClientOK(c, client[c], step[c], coins, leaked, attempts[c], started, sessions)
    <3>1. client[c] = ClientNull /\ step[c] = "none" /\ attempts[c] = 0 /\ c \notin coins
            /\ started = 0 /\ sessions = 0
      OBVIOUS
    <3>. QED BY <2>1, <3>1 DEF ClientOK
  <2>3. client \in [Clients -> ClientRecords] /\ step \in [Clients -> Steps]
          /\ attempts \in [Clients -> Nat]
    BY <2>1 DEF Steps
  <2>. QED BY <2>2, <2>3, PrivSendAssumption DEF ClientInv
<1>3. \A c \in Clients : Elems(toPool[c]) = {} /\ Elems(toClient[c]) = {}
  BY DEF Elems
<1>4. QueueInv
  <2>1. \A c \in Clients : InOrder(toPool[c])
    BY DEF InOrder
  <2>2. toPool \in [Clients -> Seq(PoolMessages)] /\ toClient \in [Clients -> Seq(ClientMessages)]
    OBVIOUS
  <2>. QED BY <1>3, <2>1, <2>2 DEF QueueInv
<1>5. SeenInv
  BY <1>3 DEF SeenInv, PoolNull
<1>. QED BY <1>1, <1>2, <1>4, <1>5 DEF IInv, AnswerInv

LEMMA NextInv == ASSUME IInv, [Next]_vars PROVE IInv'
<1>1. CASE Answer
  BY <1>1, AnswerKeeps
<1>2. CASE CheckForCompleteQueue
  BY <1>2, CheckForCompleteQueueKeeps
<1>3. CASE PoolTimeout
  BY <1>3, PoolTimeoutKeeps
<1>4. ASSUME NEW c \in Clients, PoolHandles(c) PROVE IInv'
  BY <1>4, AcceptWhenFullKeeps, AcceptKeeps, RefuseEntryKeeps, RejectEntryKeeps, AddEntryKeeps,
     RejectSignatureKeeps, AddSignatureKeeps, CommitFinalTransactionKeeps DEF PoolHandles
<1>5. ASSUME NEW c \in Clients, NEW d \in Denoms, DoAutomaticDenominating(c, d) PROVE IInv'
  BY <1>5, DoAutomaticDenominatingKeeps
<1>6. ASSUME NEW c \in Clients, ClientHandles(c) PROVE IInv'
  BY <1>6, IgnoreKeeps, RejectedKeeps, AcceptedKeeps, PrepareDenominateKeeps, PrepareFailsKeeps,
     SendDenominateKeeps, SendFailsKeeps, RelayInKeeps, SignFinalTransactionKeeps,
     RefuseToSignKeeps, CompletedTransactionKeeps DEF ClientHandles
<1>7. ASSUME NEW c \in Clients, ClientTimeout(c) PROVE IInv'
  BY <1>7, ClientTimeoutKeeps
<1>8. ASSUME NEW c \in Clients, ErrorIsOver(c) PROVE IInv'
  BY <1>8, ErrorIsOverKeeps
<1>9. CASE UNCHANGED vars
  BY <1>9 DEF vars, IInv, PoolInv, ClientInv, AnswerInv, QueueInv, SeenInv, Seen
<1>. QED BY <1>1, <1>2, <1>3, <1>4, <1>5, <1>6, <1>7, <1>8, <1>9 DEF Next

\* For any clients, places and denominations, and however many sessions and
\* attempts: the invariant of CPrivSendPool, on the masternode and the clients,
\* and of the messages between them.
THEOREM PoolsInvariance == Spec => []IInv
<1>. QED BY InitInv, NextInv, PTL DEF Spec

\* CommitFinalTransaction: everyone whose coin a committed mix spends signed
\* that very mix, though neither entries nor signatures name their session and no
\* signature is checked when it arrives.
THEOREM CommittedIsSigned == Spec => []MixesAreSigned
<1>1. ASSUME IInv PROVE MixesAreSigned
  <2>1. ASSUME NEW m \in mixes, NEW e \in m
        PROVE  e.signed = Mix(m) /\ Entry(e.who, e.attempt) \in Mix(m)
    BY <1>1 DEF IInv, PoolInv, MixOK, Mix
  <2>. QED BY <2>1 DEF MixesAreSigned
<1>. QED BY <1>1, PoolsInvariance, PTL

\* A committed mix is full, of one denomination, and has every client once.
THEOREM CommittedIsUniform == Spec => []MixesAreUniform
<1>1. ASSUME IInv PROVE MixesAreUniform
  <2>1. ASSUME NEW m \in mixes
        PROVE  /\ Cardinality({e.who : e \in m}) = MaxPool
               /\ Cardinality(m) = MaxPool
               /\ \A e, f \in m : e.denom = f.denom
    <3>1. IsFiniteSet(m) /\ Cardinality(m) = MaxPool /\ Uniform(m)
      BY <1>1 DEF IInv, PoolInv, MixOK
    <3>. DEFINE whos == {e.who : e \in m}
    <3>. DEFINE f == [e \in m |-> e.who]
    <3>2. f \in Bijection(m, whos)
      <4>1. f \in [m -> whos]
        OBVIOUS
      <4>2. \A e, g \in m : f[e] = f[g] => e = g
        BY <3>1 DEF Uniform
      <4>3. \A t \in whos : \E e \in m : f[e] = t
        OBVIOUS
      <4>. QED BY <4>1, <4>2, <4>3 DEF Bijection, Injection, IsInjective, Surjection
    <3>3. Cardinality(whos) = Cardinality(m)
      BY <3>1, <3>2, FS_Bijection DEF ExistsBijection
    <3>. QED BY <3>1, <3>3 DEF Uniform
  <2>. QED BY <2>1 DEF MixesAreUniform
<1>. QED BY <1>1, PoolsInvariance, PTL

\* UnlockCoins, and the locks of PrepareDenominate: a client that signs has its
\* coin locked, and one that is not mixing has none, except for the coin that a
\* reset in the middle of PrepareDenominate left behind.
THEOREM CoinsLocked == Spec => []CoinsAreHeld
<1>1. ASSUME IInv PROVE CoinsAreHeld
  <2>1. \A c \in Clients :
          ClientOK(c, client[c], step[c], coins, leaked, attempts[c], started, sessions)
    BY <1>1 DEF IInv, ClientInv
  <2>2. SignersHoldCoins /\ IdleHoldsNothing
    BY <2>1 DEF SignersHoldCoins, IdleHoldsNothing, ClientOK
  <2>3. TypeOK
    <3>1. /\ pool.state \in {"idle", "queue", "accepting", "signing"} /\ pool.id \in 0..sessions
          /\ pool.users \in 0..MaxPool
          /\ (pool.state = "idle") = (pool.id = 0) /\ (pool.id = 0) = (pool.users = 0)
      BY <1>1 DEF IInv, PoolInv, PoolOK
    <3>2. pool.entries \subseteq [who : Clients, attempt : 1..MaxAttempts, denom : Denoms,
                                  signed : SUBSET [who : Clients, attempt : 1..MaxAttempts]]
      BY <1>1 DEF IInv, PoolInv, PoolOK, PoolEntries, EntryIds
    <3>3. client \in [Clients -> [state : {"idle", "queue", "accepting", "signing", "error"},
                                  id : 0..sessions, denom : Denoms \cup {None},
                                  submitted : BOOLEAN, count : 0..MaxPool,
                                  entry : 0..MaxAttempts, tracked : BOOLEAN]]
      <4>1. ASSUME NEW c \in Clients
            PROVE  client[c] \in [state : {"idle", "queue", "accepting", "signing", "error"},
                                  id : 0..sessions, denom : Denoms \cup {None},
                                  submitted : BOOLEAN, count : 0..MaxPool,
                                  entry : 0..MaxAttempts, tracked : BOOLEAN]
        <5>1. client[c] \in ClientRecords /\ attempts[c] \in 0..MaxAttempts /\ sessions \in Nat
                /\ client[c].id <= sessions /\ client[c].entry \in {0, attempts[c]}
          BY <1>1, Own DEF ClientOK
        <5>2. client[c].id \in 0..sessions /\ client[c].entry \in 0..MaxAttempts
          BY <5>1, PrivSendAssumption DEF ClientRecords
        <5>. QED BY <5>1, <5>2 DEF ClientRecords
      <4>. QED BY <1>1, <4>1 DEF IInv, ClientInv
    <3>4. step \in [Clients -> {"none", "prepared", "sending"}]
            /\ coins \subseteq Clients /\ leaked \subseteq Clients
      BY <1>1 DEF IInv, ClientInv, Steps
    <3>. QED BY <1>1, <3>1, <3>2, <3>3, <3>4 DEF TypeOK, IInv, AnswerInv
  <2>. QED BY <2>2, <2>3 DEF CoinsAreHeld
<1>. QED BY <1>1, PoolsInvariance, PTL

=============================================================================
