------------------------------ MODULE PrivSend ------------------------------
(***************************************************************************)
(* PrivateSend (privsend.cpp): clients send their coins to a masternode,   *)
(* which merges them into one transaction and asks everyone to sign it.    *)
(*                                                                         *)
(* One masternode and its clients.  A client has one coin to mix of each   *)
(* denomination, mixes one at a time, and makes new outputs for each       *)
(* attempt: an entry (CPrivSendEntry) is a client and the number of its    *)
(* attempt, and a mix the set of its entries.                              *)
(* Every connection is a queue of messages in each direction.  Times are   *)
(* left out: whatever waits for a deadline may happen at any moment.       *)
(*                                                                         *)
(* CPrivSendPool has no lock of its own for a session.  Messages are       *)
(* handled by one thread and timeouts by another (ThreadCheckPrivSendPool):*)
(* the handlers are cut into steps where the other thread makes a          *)
(* difference.                                                             *)
(*                                                                         *)
(* Left out: charging fees, which only relays a collateral; how a client   *)
(* picks its masternode, coins and denominations; the signed DSTX relayed  *)
(* to everyone.                                                            *)
(***************************************************************************)
EXTENDS Naturals, FiniteSets, Sequences

CONSTANTS
    Clients,        \* nodes that mix
    Denoms,         \* denominations
    MaxPool,        \* PoolMaxTransactions()
    None,           \* no client, no denomination
    MaxAttempts     \* bound: times a client starts mixing, all together

ASSUME PrivSendAssumption ==
    /\ IsFiniteSet(Clients)
    /\ None \notin Clients \cup Denoms
    /\ MaxPool \in Nat \ {0}
    /\ MaxAttempts \in Nat

VARIABLES
    pool,       \* the masternode's CPrivSendPool
    answer,     \* a DSACCEPT whose sender is not told yet, and whether it is in
    sessions,   \* sessions created so far; the last one's number is its id
    mixes,      \* final transactions committed, as sets of signed entries
    client,     \* the clients' CPrivSendPool
    step,       \* how far a client is in SubmitDenominate
    coins,      \* clients whose wallet has their coin locked (setLockedCoins)
    attempts,   \* attempts of each client
    started,    \* attempts of all clients, for the bound
    leaked,     \* clients whose coin was left locked for good
    toPool,     \* messages to the masternode
    toClient    \* messages to the clients

vars == <<pool, answer, sessions, mixes, client, step, coins, attempts, started,
          leaked, toPool, toClient>>
poolVars == <<pool, answer, sessions, mixes>>
clientVars == <<client, step, coins, attempts, started, leaked>>

(***************************************************************************)
(* Both sides.                                                             *)
(***************************************************************************)
\* CPrivSendPool::SetNull, on the masternode and on a client.  users counts
\* vecSessionCollaterals; an entry has its signature, the mix that was signed.
PoolNull == [state |-> "idle", id |-> 0, denom |-> None, users |-> 0, entries |-> {}]
ClientNull == [state |-> "idle", id |-> 0, denom |-> None, submitted |-> FALSE, count |-> 0,
               entry |-> 0, tracked |-> FALSE]

Unsigned == {}
Entry(c, a) == [who |-> c, attempt |-> a]
Mix(es) == {Entry(e.who, e.attempt) : e \in es}

\* A status update carries what the masternode's pool looks like (PushStatus).
Status(p, ok) == [type |-> "status", id |-> p.id, state |-> p.state,
                  count |-> Cardinality(p.entries), ok |-> ok]
\* The ready DSQUEUE, DSFINALTX and DSCOMPLETE.
Ready == [type |-> "ready"]
Final(p) == [type |-> "final", id |-> p.id, mix |-> Mix(p.entries)]
Complete(id) == [type |-> "complete", id |-> id]

\* What everyone is sent, after what is under way.  RelayStatus,
\* RelayFinalTransaction and RelayCompletedTransaction do not choose.
ToAll(queues, ms) == [c \in Clients |-> queues[c] \o ms]
ToOne(queues, c, m) == [queues EXCEPT ![c] = Append(@, m)]

(***************************************************************************)
(* The masternode.                                                         *)
(***************************************************************************)
IsSessionReady == pool.users >= MaxPool

Receives(c, type) ==
    /\ answer = None
    /\ toPool[c] # <<>>
    /\ Head(toPool[c]).type = type
    /\ toPool' = [toPool EXCEPT ![c] = Tail(@)]
    /\ UNCHANGED clientVars

\* DSACCEPT of a full session: the sender is told that it is accepted, because
\* the queue is full.
AcceptWhenFull(c) ==
    /\ Receives(c, "accept")
    /\ IsSessionReady
    /\ toClient' = ToOne(toClient, c, Status(pool, TRUE))
    /\ UNCHANGED poolVars

\* DSACCEPT up to the answer: CreateNewSession or AddUserToExistingSession,
\* which refuses another denomination.
Accept(c) ==
    /\ Receives(c, "accept")
    /\ ~IsSessionReady
    /\ \/ /\ pool.id = 0
          /\ sessions' = sessions + 1
          /\ pool' = [pool EXCEPT !.state = "queue", !.id = sessions + 1,
                                  !.denom = Head(toPool[c]).denom, !.users = 1]
          /\ answer' = [to |-> c, ok |-> TRUE]
       \/ /\ pool.id # 0
          /\ LET in == pool.state = "queue" /\ Head(toPool[c]).denom = pool.denom
             IN  /\ pool' = IF in THEN [pool EXCEPT !.users = @ + 1] ELSE pool
                 /\ answer' = [to |-> c, ok |-> in]
          /\ UNCHANGED sessions
    /\ UNCHANGED <<mixes, toClient>>

\* The answer to DSACCEPT, with what the pool looks like by now.
Answer ==
    /\ answer # None
    /\ toClient' = ToOne(toClient, answer.to, Status(pool, answer.ok))
    /\ answer' = None
    /\ UNCHANGED <<pool, sessions, mixes, toPool>>
    /\ UNCHANGED clientVars

\* CheckForCompleteQueue, on the thread of the timeouts
CheckForCompleteQueue ==
    /\ pool.state = "queue"
    /\ IsSessionReady
    /\ pool' = [pool EXCEPT !.state = "accepting"]
    /\ toClient' = ToAll(toClient, <<Ready>>)
    /\ UNCHANGED <<answer, sessions, mixes, toPool>>
    /\ UNCHANGED clientVars

\* Mutant: any denomination will do.
IsAnyDenomination(c) == Head(toPool[c]).denom # None

\* IsOutputsCompatibleWithSessionDenom compares with the entries, and with
\* nothing if there are none yet.
IsOutputsCompatibleWithSessionDenom(c) ==
    \A e \in pool.entries : e.denom = Head(toPool[c]).denom

\* AddEntry: there is room and this input is not in.
AddEntryAllows(c) ==
    /\ Cardinality(pool.entries) < MaxPool
    /\ \A e \in pool.entries : ~(e.who = c /\ e.denom = Head(toPool[c]).denom)

\* CheckPool after an entry was added: CreateFinalTransaction if that was the
\* last one.  p is the pool with the entry; what is sent to all, and the pool.
CheckPoolAfterEntry(p) ==
    IF p.state = "accepting" /\ Cardinality(p.entries) >= MaxPool
    THEN [pool |-> [p EXCEPT !.state = "signing"], sent |-> <<Final(p)>>]
    ELSE [pool |-> p, sent |-> <<>>]

\* DSVIN that is turned down without harm.
RefuseEntry(c) ==
    /\ Receives(c, "entry")
    /\ ~IsSessionReady \/ ~IsOutputsCompatibleWithSessionDenom(c)
    /\ toClient' = ToOne(toClient, c, Status(pool, FALSE))
    /\ UNCHANGED poolVars

\* DSVIN that AddEntry does not add: the whole session is given up.
RejectEntry(c) ==
    /\ Receives(c, "entry")
    /\ IsSessionReady
    /\ IsOutputsCompatibleWithSessionDenom(c)
    /\ ~AddEntryAllows(c)
    /\ toClient' = ToOne(toClient, c, Status(pool, FALSE))
    /\ pool' = PoolNull
    /\ UNCHANGED <<answer, sessions, mixes>>

\* DSVIN that is added.  Nothing ties an entry to the session its sender joined.
AddEntry(c) ==
    /\ Receives(c, "entry")
    /\ IsSessionReady
    /\ IsOutputsCompatibleWithSessionDenom(c)
    /\ AddEntryAllows(c)
    /\ LET e == [who |-> c, attempt |-> Head(toPool[c]).attempt,
                denom |-> Head(toPool[c]).denom, signed |-> Unsigned]
           added == [pool EXCEPT !.entries = @ \cup {e}]
           checked == CheckPoolAfterEntry(added)
       IN  /\ pool' = checked.pool
           /\ toClient' = ToAll(ToOne(toClient, c, Status(added, TRUE)),
                                checked.sent \o <<Status(checked.pool, TRUE)>>)
    /\ UNCHANGED <<answer, sessions, mixes>>

\* AddScriptSig: the sender's entry is in and not signed yet.  What was signed
\* is not looked at: prevPubKey is not sent along with an entry, so that
\* IsInputScriptSigValid runs the signature with an empty script.
AddScriptSig(c) ==
    {[e EXCEPT !.signed = IF e.who = c THEN Head(toPool[c]).mix ELSE @] : e \in pool.entries}
AddScriptSigAllows(c) ==
    \E e \in pool.entries : e.who = c /\ e.signed = Unsigned

\* Mutant: one signature is enough.
IsAnythingSigned(es) == \E e \in es : e.signed # Unsigned

IsSignaturesComplete(es) == \A e \in es : e.signed # Unsigned

\* DSSIGNFINALTX with a signature that does not fit: everyone is told that it
\* was rejected.
RejectSignature(c) ==
    /\ Receives(c, "signature")
    /\ ~AddScriptSigAllows(c)
    /\ toClient' = ToAll(toClient, <<Status(pool, FALSE)>>)
    /\ UNCHANGED poolVars

\* DSSIGNFINALTX with a signature that leaves others missing.
AddSignature(c) ==
    /\ Receives(c, "signature")
    /\ AddScriptSigAllows(c)
    /\ ~(pool.state = "signing" /\ IsSignaturesComplete(AddScriptSig(c)))
    /\ pool' = [pool EXCEPT !.entries = AddScriptSig(c)]
    /\ UNCHANGED <<answer, sessions, mixes, toClient>>

\* DSSIGNFINALTX with the last signature: CommitFinalTransaction.  It fails if
\* cs_main is taken; the session id is forgotten before the clients are told.
CommitFinalTransaction(c, ok) ==
    /\ Receives(c, "signature")
    /\ AddScriptSigAllows(c)
    /\ pool.state = "signing" /\ IsSignaturesComplete(AddScriptSig(c))
    /\ mixes' = IF ok THEN mixes \cup {AddScriptSig(c)} ELSE mixes
    /\ toClient' = ToAll(toClient, <<Complete(IF ok THEN pool.id ELSE 0)>>)
    /\ pool' = PoolNull
    /\ UNCHANGED <<answer, sessions>>

\* CheckTimeout on the masternode; SetState refuses POOL_STATE_ERROR.
PoolTimeout ==
    /\ pool.state # "idle"
    /\ pool' = PoolNull
    /\ UNCHANGED <<answer, sessions, mixes, toPool, toClient>>
    /\ UNCHANGED clientVars

(***************************************************************************)
(* A client.                                                               *)
(***************************************************************************)
\* Mutant: the coins of a pool that is reset stay locked.
KeepCoins(c) == coins

\* UnlockCoins, which unlocks what vecOutPointLocked has
UnlockCoins(c) == IF client[c].tracked THEN coins \ {c} ELSE coins

\* UnlockCoins, SetNull and SetState(state)
Reset(c, state) ==
    /\ coins' = UnlockCoins(c)
    /\ client' = [client EXCEPT ![c] = [ClientNull EXCEPT !.state = state]]

\* DoAutomaticDenominating: it needs POOL_STATE_IDLE and no entries, resets the
\* pool, picks a denomination and sends DSACCEPT.  It runs seconds apart from the other steps.
DoAutomaticDenominating(c, d) ==
    /\ client[c].state = "idle" /\ client[c].entry = 0 /\ step[c] = "none"
    /\ c \notin leaked
    /\ started < MaxAttempts
    /\ started' = started + 1
    /\ attempts' = [attempts EXCEPT ![c] = @ + 1]
    /\ coins' = UnlockCoins(c)
    /\ client' = [client EXCEPT ![c] = [ClientNull EXCEPT !.state = "queue", !.denom = d,
                                                          !.submitted = TRUE]]
    /\ toPool' = ToOne(toPool, c, [type |-> "accept", denom |-> d])
    /\ UNCHANGED <<step, leaked, toClient>>
    /\ UNCHANGED poolVars

\* The next message of a client whose thread is not in SubmitDenominate.
Gets(c, type) ==
    /\ step[c] = "none"
    /\ toClient[c] # <<>>
    /\ Head(toClient[c]).type = type
    /\ toClient' = [toClient EXCEPT ![c] = Tail(@)]
    /\ UNCHANGED poolVars
    /\ UNCHANGED <<attempts, started, leaked>>

\* A message that is dropped: nothing was submitted to this masternode; the
\* pool is in another session or state; or, for a DSQUEUE, cs_privsend is taken
\* or there is no coin to mix.
Ignore(c) ==
    /\ \E type \in {"status", "ready", "final", "complete"} : Gets(c, type)
    /\ LET m == Head(toClient[c])
           p == client[c]
       IN  \/ ~p.submitted
           \/ m.type = "ready"
           \/ m.type \in {"final", "complete"} /\ m.id # p.id
           \/ /\ m.type = "status" /\ m.ok
              /\ ~(m.state = p.state /\ p.state = "queue" /\ p.id = 0 /\ m.id # 0)
              /\ ~(m.state = p.state /\ p.state = "accepting" /\ p.count # m.count)
    /\ UNCHANGED <<client, step, coins, toPool>>

\* CheckPoolStateUpdate, STATUS_REJECTED.  A client that submitted to a
\* masternode is in none of the states that ignore updates.
Rejected(c) ==
    /\ Gets(c, "status")
    /\ client[c].submitted /\ ~Head(toClient[c]).ok
    /\ Reset(c, "error")
    /\ UNCHANGED <<step, toPool>>

\* CheckPoolStateUpdate, STATUS_ACCEPTED in the same state
Accepted(c) ==
    /\ Gets(c, "status")
    /\ LET m == Head(toClient[c])
           p == client[c]
       IN  /\ p.submitted /\ m.ok /\ m.state = p.state
           /\ \/ /\ p.state = "queue" /\ p.id = 0 /\ m.id # 0
                 /\ client' = [client EXCEPT ![c].id = m.id]
              \/ /\ p.state = "accepting" /\ p.count # m.count
                 /\ client' = [client EXCEPT ![c].count = m.count]
    /\ UNCHANGED <<step, coins, toPool>>

\* DSQUEUE: SubmitDenominate.  PrepareDenominate selects the coin and locks it
\* in the wallet; vecOutPointLocked does not have it yet.
PrepareDenominate(c) ==
    /\ Gets(c, "ready")
    /\ client[c].submitted /\ client[c].state = "queue"
    /\ coins' = coins \cup {c}
    /\ step' = [step EXCEPT ![c] = "prepared"]
    /\ UNCHANGED <<client, toPool>>

\* The rest of PrepareDenominate.  If the session was reset meanwhile its
\* denomination is gone: before GetDenominationsBits reads it, the coin stays
\* locked; later, the outputs do not fit it and the coin is unlocked.
PrepareFails(c, leaks) ==
    /\ step[c] = "prepared" /\ ~client[c].submitted
    /\ step' = [step EXCEPT ![c] = "none"]
    /\ coins' = IF leaks THEN coins ELSE coins \ {c}
    /\ leaked' = IF leaks THEN leaked \cup {c} ELSE leaked
    /\ UNCHANGED <<client, attempts, started, toPool, toClient>>
    /\ UNCHANGED poolVars

\* SendDenominate notes the coin in vecOutPointLocked and finds that it has a
\* session.
SendDenominate(c) ==
    /\ step[c] = "prepared" /\ client[c].id # 0
    /\ client' = [client EXCEPT ![c].tracked = TRUE]
    /\ step' = [step EXCEPT ![c] = "sending"]
    /\ UNCHANGED <<coins, attempts, started, leaked, toPool, toClient>>
    /\ UNCHANGED poolVars

\* SendDenominate finds no session ("we should already be connected to a
\* Masternode"), or later the disk full or cs_main taken.
SendFails(c) ==
    /\ step[c] = "sending" \/ (step[c] = "prepared" /\ client[c].id = 0)
    /\ step' = [step EXCEPT ![c] = "none"]
    /\ coins' = coins \ {c}
    /\ client' = [client EXCEPT ![c] = ClientNull]
    /\ UNCHANGED <<attempts, started, leaked, toPool, toClient>>
    /\ UNCHANGED poolVars

\* The rest of SendDenominate: SetState, the entry is kept, and sent to the
\* masternode unless the session was reset since.  A reset after SetState
\* leaves its own state behind.
RelayIn(c) ==
    /\ step[c] = "sending"
    /\ step' = [step EXCEPT ![c] = "none"]
    /\ \E state \in {"accepting"} \cup (IF client[c].submitted THEN {} ELSE {client[c].state}) :
          client' = [client EXCEPT ![c].state = state, ![c].entry = attempts[c]]
    /\ toPool' = IF client[c].submitted
                 THEN ToOne(toPool, c, [type |-> "entry", attempt |-> attempts[c],
                                            denom |-> client[c].denom])
                 ELSE toPool
    /\ UNCHANGED <<coins, attempts, started, leaked, toClient>>
    /\ UNCHANGED poolVars

\* "make sure my inputs/outputs are present, otherwise refuse to sign"
MixIsMine(c, mix) == Entry(c, client[c].entry) \in mix

\* DSFINALTX of this session: SignFinalTransaction
SignFinalTransaction(c) ==
    /\ Gets(c, "final")
    /\ client[c].submitted /\ Head(toClient[c]).id = client[c].id
    /\ MixIsMine(c, Head(toClient[c]).mix)
    /\ client' = [client EXCEPT ![c].state = "signing"]
    /\ toPool' = ToOne(toPool, c, [type |-> "signature", mix |-> Head(toClient[c]).mix])
    /\ UNCHANGED <<step, coins>>

\* SignFinalTransaction finds its outputs missing, or nothing to sign.
RefuseToSign(c) ==
    /\ Gets(c, "final")
    /\ client[c].submitted /\ Head(toClient[c]).id = client[c].id
    /\ ~MixIsMine(c, Head(toClient[c]).mix)
    /\ Reset(c, "idle")
    /\ UNCHANGED <<step, toPool>>

\* DSCOMPLETE of this session: CompletedTransaction.  A client that has no
\* session yet takes a failure of any session for its own.
CompletedTransaction(c) ==
    /\ Gets(c, "complete")
    /\ client[c].submitted /\ Head(toClient[c]).id = client[c].id
    /\ Reset(c, "idle")
    /\ UNCHANGED <<step, toPool>>

\* CheckTimeout on a client, on its own thread
ClientTimeout(c) ==
    /\ client[c].state \in {"queue", "accepting", "signing"}
    /\ Reset(c, "error")
    /\ UNCHANGED <<step, attempts, started, leaked, toPool, toClient>>
    /\ UNCHANGED poolVars

\* CheckPool, ten seconds after an error: longer than a handler takes.
ErrorIsOver(c) ==
    /\ client[c].state = "error" /\ step[c] = "none"
    /\ Reset(c, "idle")
    /\ UNCHANGED <<step, attempts, started, leaked, toPool, toClient>>
    /\ UNCHANGED poolVars

(***************************************************************************)
(* The specification.                                                      *)
(***************************************************************************)
Init ==
    /\ pool = PoolNull
    /\ answer = None
    /\ sessions = 0
    /\ mixes = {}
    /\ client = [c \in Clients |-> ClientNull]
    /\ step = [c \in Clients |-> "none"]
    /\ coins = {}
    /\ attempts = [c \in Clients |-> 0]
    /\ started = 0
    /\ leaked = {}
    /\ toPool = [c \in Clients |-> <<>>]
    /\ toClient = [c \in Clients |-> <<>>]

PoolHandles(c) ==
    \/ AcceptWhenFull(c)
    \/ Accept(c)
    \/ RefuseEntry(c)
    \/ RejectEntry(c)
    \/ AddEntry(c)
    \/ RejectSignature(c)
    \/ AddSignature(c)
    \/ \E ok \in BOOLEAN : CommitFinalTransaction(c, ok)

ClientHandles(c) ==
    \/ Ignore(c)
    \/ Rejected(c)
    \/ Accepted(c)
    \/ PrepareDenominate(c)
    \/ \E leaks \in BOOLEAN : PrepareFails(c, leaks)
    \/ SendDenominate(c)
    \/ SendFails(c)
    \/ RelayIn(c)
    \/ SignFinalTransaction(c)
    \/ RefuseToSign(c)
    \/ CompletedTransaction(c)

Next ==
    \/ Answer
    \/ CheckForCompleteQueue
    \/ PoolTimeout
    \/ \E c \in Clients :
        \/ PoolHandles(c)
        \/ \E d \in Denoms : DoAutomaticDenominating(c, d)
        \/ ClientHandles(c)
        \/ ClientTimeout(c)
        \/ ErrorIsOver(c)

Spec == Init /\ [][Next]_vars

(***************************************************************************)
(* Properties.                                                             *)
(***************************************************************************)
\* The pools' fields have their types, and a masternode is idle exactly when it
\* has no session.
TypeOK ==
    /\ pool.state \in {"idle", "queue", "accepting", "signing"}
    /\ pool.id \in 0..sessions
    /\ pool.users \in 0..MaxPool
    /\ pool.entries \subseteq [who : Clients, attempt : 1..MaxAttempts, denom : Denoms,
                               signed : SUBSET [who : Clients, attempt : 1..MaxAttempts]]
    /\ (pool.state = "idle") = (pool.id = 0) /\ (pool.id = 0) = (pool.users = 0)
    /\ answer = None \/ answer \in [to : Clients, ok : BOOLEAN]
    /\ client \in [Clients -> [state : {"idle", "queue", "accepting", "signing", "error"},
                               id : 0..sessions, denom : Denoms \cup {None}, submitted : BOOLEAN, count : 0..MaxPool,
                               entry : 0..MaxAttempts, tracked : BOOLEAN]]
    /\ step \in [Clients -> {"none", "prepared", "sending"}]
    /\ coins \subseteq Clients /\ leaked \subseteq Clients

\* CommitFinalTransaction: everyone whose coin a committed mix spends signed
\* that very mix, which has the outputs of the entry it signed for.  Signatures
\* are not checked when they arrive, and neither they nor entries name a
\* session: only the order of the messages keeps sessions apart.
MixesAreSigned ==
    \A m \in mixes : \A e \in m : e.signed = Mix(m) /\ Entry(e.who, e.attempt) \in Mix(m)

\* A committed mix has an entry for every place, no coin twice, and one
\* denomination: nobody can tell whose outputs are whose.
MixesAreUniform ==
    \A m \in mixes :
        /\ Cardinality({e.who : e \in m}) = MaxPool
        /\ Cardinality(m) = MaxPool
        /\ \A e, f \in m : e.denom = f.denom

\* A client that signs has its coin locked: its wallet does not spend it
\* elsewhere while the mix may be committed.
SignersHoldCoins ==
    \A c \in Clients : client[c].state = "signing" => c \in coins /\ client[c].entry # 0

\* "Unlock coins after mixing fails or succeeds": a client that is not mixing
\* has no coin locked, unless the session was reset while PrepareDenominate was
\* between locking the coin and reading the denomination.
IdleHoldsNothing ==
    \A c \in Clients :
        c \in coins /\ step[c] = "none" =>
            c \in leaked \/ (client[c].tracked /\ client[c].state \in {"accepting", "signing"})

\* Coins are locked by one thread and unlocked by another, at the end of a session
\* that both sides see differently: those that sign have theirs, and no other is
\* left behind.
CoinsAreHeld == TypeOK /\ SignersHoldCoins /\ IdleHoldsNothing

=============================================================================
