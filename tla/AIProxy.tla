------------------------------ MODULE AIProxy ------------------------------
(***************************************************************************)
(* The AI gateway proxy: the project switch, the daily quota and the        *)
(* upstream key in memory, and the copy of switch, limit and key in OpenBao *)
(* (services/vault-proxies/cmd/ai-proxy/main.go, internal/openbao).         *)
(*                                                                         *)
(* Every request is a handler goroutine. p.mu protects memory only: each    *)
(* write to or read from OpenBao happens between two critical sections, so  *)
(* other requests run there. main gives every request an OpenBao address    *)
(* and no initial key; the branches for tests without them are left out.    *)
(* So is the self-test's reserved project, which no path below looks at.    *)
(***************************************************************************)
EXTENDS Integers, FiniteSets

CONSTANTS
  Projects,         \* the granted projects (p.projects)
  Handlers,         \* requests that can be in progress at once
  Keys,             \* upstream API keys
  NoKey,            \* no key: the empty slice, or no secret in OpenBao
  KeyItem,          \* the key among the things a sync reads
  Limits,           \* daily limits the operator sets
  DefaultLimit,     \* the limit of a grant at the start
  MaxDay,           \* bound: the last UTC date
  MaxCalls,         \* bound: requests
  MaxFails,         \* bound: OpenBao requests that fail
  MaxStarts         \* bound: starts of the proxy after the first

ASSUME ProxyAssumption ==
  /\ IsFiniteSet(Handlers) /\ Handlers # {}
  /\ NoKey \notin Keys /\ KeyItem \notin Projects
  /\ DefaultLimit \in Nat \ {0} /\ Limits \subseteq Nat \ {0}
ASSUME ProxyBoundsAssumption ==
  MaxDay \in Nat \ {0} /\ MaxCalls \in Nat /\ MaxFails \in Nat /\ MaxStarts \in Nat

VARIABLES
  today,            \* the UTC date
  calls, fails, starts,   \* counted for the bounds
  grants,           \* p.projects
  geminiKey,        \* p.geminiKey
  openBaoSynced,    \* the startup sync succeeded once
  stored,           \* what OpenBao holds: the key, and a state per project
  at, req,          \* where each handler is, and its local variables
  \* History, read by the properties only.
  top,              \* highest limit of each project since its counter was reset
  loaded,           \* projects whose state was read from or written to OpenBao
                    \* since this process started
  torn,             \* projects with a failed write, or a change of the operator
                    \* that overlapped another access, since then
  stopped           \* projects the operator revoked, with the write done, and
                    \* has not enabled since; nor changed the quota of, in a
                    \* process that knew nothing of the stop

boundVars == <<calls, fails, starts>>
memoryVars == <<grants, geminiKey, openBaoSynced, top>>
historyVars == <<loaded, torn, stopped>>
vars == <<today, boundVars, memoryVars, stored, at, req, historyVars>>

Stages == {"idle", "check", "charge", "persist", "write", "set", "login", "read", "apply"}
Ops == {"none", "chat", "revoke", "enable", "quota", "set", "reload", "startup"}
SyncStages == {"login", "read", "apply"}

NoState == [enabled |-> FALSE, manualRevoked |-> FALSE, dailyLimit |-> 0]
NewGrant == [enabled |-> TRUE, manualRevoked |-> FALSE, dailyLimit |-> DefaultLimit,
             usedToday |-> 0, date |-> today]
NoRequest == [op |-> "none", project |-> KeyItem, date |-> 0, copy |-> NoState,
              key |-> NoKey, todo |-> {}, item |-> KeyItem]

Highest(a, b) == IF a > b THEN a ELSE b

\* anyProjectEnabledLocked, of grants gs.
AnyEnabled(gs) == \E p \in Projects : gs[p].enabled

\* wipeGeminiKeyLocked once nothing is enabled.
KeyWiped(gs) == IF AnyEnabled(gs) THEN geminiKey ELSE NoKey

Init ==
  /\ today = 1
  /\ calls = 0 /\ fails = 0 /\ starts = 0
  /\ grants = [p \in Projects |-> NewGrant]
  /\ geminiKey = NoKey /\ openBaoSynced = FALSE
  /\ stored \in {[key |-> k, states |-> [p \in Projects |-> NoState]] : k \in Keys \union {NoKey}}
  /\ at = [h \in Handlers |-> "idle"] /\ req = [h \in Handlers |-> NoRequest]
  /\ top = [p \in Projects |-> DefaultLimit]
  /\ loaded = {} /\ torn = {} /\ stopped = {}

\* The process is replaced: memory and every request are lost.
Restart ==
  /\ starts < MaxStarts
  /\ starts' = starts + 1
  /\ grants' = [p \in Projects |-> NewGrant]
  /\ geminiKey' = NoKey /\ openBaoSynced' = FALSE
  /\ at' = [h \in Handlers |-> "idle"] /\ req' = [h \in Handlers |-> NoRequest]
  /\ top' = [p \in Projects |-> DefaultLimit]
  /\ loaded' = {} /\ torn' = {} /\ stopped' = stopped \ torn
  /\ UNCHANGED <<today, calls, fails, stored>>

NextDay ==
  /\ today < MaxDay
  /\ today' = today + 1
  /\ UNCHANGED <<boundVars, memoryVars, stored, at, req, historyVars>>

-----------------------------------------------------------------------------
(* Requests: arriving, going on, done *)

Arrives(h) ==
  /\ at[h] = "idle"
  /\ calls < MaxCalls
  /\ calls' = calls + 1

GoesOn(h, stage, r) == at' = [at EXCEPT ![h] = stage] /\ req' = [req EXCEPT ![h] = r]

Done(h) == GoesOn(h, "idle", NoRequest)

SyncStarts(h, r) == GoesOn(h, "login", [r EXCEPT !.todo = Projects \union {KeyItem}])

\* Handlers that have yet to write project p, and that hold a read of it.
Writing(p) == {h \in Handlers : at[h] = "persist" /\ req[h].project = p}
Holding(p) == {h \in Handlers : at[h] = "apply" /\ req[h].item = p}

-----------------------------------------------------------------------------
(* handleChatCompletions *)

\* The date is read before the lock is taken.
ChatArrives(h, p) ==
  /\ Arrives(h)
  /\ GoesOn(h, "check", [NoRequest EXCEPT !.op = "chat", !.project = p, !.date = today])
  /\ UNCHANGED <<today, fails, starts, memoryVars, stored, historyVars>>

\* Mutation: a new day starts every project again.
RolloverEnablesAll(g, date) ==
  IF g.date = date THEN g ELSE [g EXCEPT !.date = date, !.usedToday = 0, !.enabled = TRUE]

\* A request of another date resets the counter, and enables what was not revoked.
Rollover(g, date) ==
  IF g.date = date THEN g
  ELSE [g EXCEPT !.date = date, !.usedToday = 0, !.enabled = @ \/ ~g.manualRevoked]

\* Mutation: one request more than the limit.
SpentLate(g) == g.usedToday > g.dailyLimit

Spent(g) == g.usedToday >= g.dailyLimit

\* The request is counted, and the switch trips when it was the last one.
Charge(h, p, g) ==
  LET used == [g EXCEPT !.usedToday = @ + 1]
      gs == [grants EXCEPT ![p] = [used EXCEPT !.enabled = @ /\ ~Spent(used)]]
  IN  /\ grants' = gs
      /\ geminiKey' = IF Spent(used) THEN KeyWiped(gs) ELSE geminiKey
      /\ Done(h)

Refused(h, p, g) == grants' = [grants EXCEPT ![p] = g] /\ UNCHANGED geminiKey /\ Done(h)

\* The checks, in one critical section with the charge unless the key is missing.
ChatChecks(h) ==
  LET p == req[h].project
      g == Rollover(grants[p], req[h].date)
  IN  /\ at[h] = "check"
      /\ \/ Refused(h, p, g)                          \* a model that is not allowed
         \/ ~g.enabled /\ Refused(h, p, g)
         \/ g.enabled /\ Spent(g) /\ Refused(h, p, [g EXCEPT !.enabled = FALSE])
         \/ /\ g.enabled /\ ~Spent(g)
            /\ IF geminiKey # NoKey
                 THEN Charge(h, p, g)
                 ELSE /\ grants' = [grants EXCEPT ![p] = g]
                      /\ SyncStarts(h, req[h])
                      /\ UNCHANGED geminiKey
      /\ top' = IF g.date = grants[p].date THEN top ELSE [top EXCEPT ![p] = g.dailyLimit]
      /\ UNCHANGED <<today, boundVars, openBaoSynced, stored, historyVars>>

\* Back from the sync, only the key is looked at again.
ChatCharges(h) ==
  /\ at[h] = "charge"
  /\ IF geminiKey = NoKey
       THEN Done(h) /\ UNCHANGED <<grants, geminiKey>>
       ELSE Charge(h, req[h].project, grants[req[h].project])
  /\ UNCHANGED <<today, boundVars, openBaoSynced, stored, top, historyVars>>

-----------------------------------------------------------------------------
(* The operator's requests: memory first, then OpenBao *)

StateOf(g) ==
  [enabled |-> g.enabled, manualRevoked |-> g.manualRevoked, dailyLimit |-> g.dailyLimit]

\* The operator's change of project p to g, and the copy that will be written.
Changes(h, p, op, g) ==
  /\ Arrives(h)
  /\ grants' = [grants EXCEPT ![p] = g]
  /\ GoesOn(h, "persist", [NoRequest EXCEPT !.op = op, !.project = p, !.copy = StateOf(g)])
  /\ torn' = IF Writing(p) \union Holding(p) = {} THEN torn ELSE torn \union {p}
  /\ UNCHANGED <<today, fails, starts, openBaoSynced, stored, loaded>>

\* Mutation: only the switch is turned off.
RevokedInPart(g) == [g EXCEPT !.enabled = FALSE]

Revoked(g) == [g EXCEPT !.enabled = FALSE, !.manualRevoked = TRUE]

Revoke(h, p) ==
  /\ Changes(h, p, "revoke", Revoked(grants[p]))
  /\ geminiKey' = KeyWiped(grants')
  /\ UNCHANGED <<top, stopped>>

Enable(h, p) ==
  /\ Changes(h, p, "enable", [grants[p] EXCEPT !.enabled = TRUE, !.manualRevoked = FALSE])
  /\ stopped' = stopped \ {p}
  /\ UNCHANGED <<geminiKey, top>>

Quota(h, p, limit) ==
  LET g == [grants[p] EXCEPT !.dailyLimit = limit]
  IN  /\ Changes(h, p, "quota", [g EXCEPT !.enabled = ~g.manualRevoked /\ ~Spent(g)])
      /\ geminiKey' = KeyWiped(grants')
      /\ top' = [top EXCEPT ![p] = Highest(@, limit)]
      /\ UNCHANGED stopped

\* What follows the write: enable, and a quota that leaves the project on, sync.
AfterPersist(h) ==
  IF req[h].op = "enable" \/ (req[h].op = "quota" /\ req[h].copy.enabled)
    THEN SyncStarts(h, req[h])
    ELSE Done(h)

\* persistProjectStateToOpenBao; its error is dropped.
Persist(h) ==
  LET p == req[h].project
  IN  /\ at[h] = "persist"
      /\ AfterPersist(h)
      /\ \/ /\ stored' = [stored EXCEPT !.states[p] = req[h].copy]
            /\ loaded' = loaded \union {p}
            /\ stopped' = CASE req[h].op = "revoke" -> stopped \union {p}
                            [] req[h].op = "quota" /\ p \notin loaded -> stopped \ {p}
                            [] OTHER -> stopped
            /\ UNCHANGED <<fails, torn>>
         \/ /\ fails < MaxFails
            /\ fails' = fails + 1
            /\ torn' = torn \union {p}
            /\ UNCHANGED <<stored, loaded, stopped>>
      /\ UNCHANGED <<today, calls, starts, memoryVars>>

SetKey(h, k) ==
  /\ Arrives(h)
  /\ GoesOn(h, "write", [NoRequest EXCEPT !.op = "set", !.key = k])
  /\ UNCHANGED <<today, fails, starts, memoryVars, stored, historyVars>>

\* The key goes to OpenBao first; memory keeps the old one when that fails.
SetKeyWrites(h) ==
  /\ at[h] = "write"
  /\ \/ /\ stored' = [stored EXCEPT !.key = req[h].key]
        /\ GoesOn(h, "set", req[h])
        /\ UNCHANGED fails
     \/ /\ fails < MaxFails
        /\ fails' = fails + 1
        /\ Done(h)
        /\ UNCHANGED stored
  /\ UNCHANGED <<today, calls, starts, memoryVars, historyVars>>

SetKeyLoads(h) ==
  /\ at[h] = "set"
  /\ geminiKey' = IF AnyEnabled(grants) THEN req[h].key ELSE NoKey
  /\ Done(h)
  /\ UNCHANGED <<today, boundVars, grants, openBaoSynced, top, stored, historyVars>>

ReloadKey(h) ==
  /\ Arrives(h)
  /\ SyncStarts(h, [NoRequest EXCEPT !.op = "reload"])
  /\ UNCHANGED <<today, fails, starts, memoryVars, stored, historyVars>>

\* RunStartupSelfTest until its sync succeeded; selfTestMu allows one at a time.
Startup(h) ==
  /\ Arrives(h)
  /\ ~openBaoSynced
  /\ \A other \in Handlers : req[other].op # "startup"
  /\ SyncStarts(h, [NoRequest EXCEPT !.op = "startup"])
  /\ UNCHANGED <<today, fails, starts, memoryVars, stored, historyVars>>

-----------------------------------------------------------------------------
(* syncFromOpenBao *)

\* Mutation: every caller goes on to the charge.
AfterSyncCharges(h) == GoesOn(h, "charge", [req[h] EXCEPT !.todo = {}])

\* The caller goes on, whether the sync failed or not.
AfterSync(h) ==
  IF req[h].op = "chat" THEN GoesOn(h, "charge", [req[h] EXCEPT !.todo = {}]) ELSE Done(h)

Login(h) ==
  /\ at[h] = "login"
  /\ \/ GoesOn(h, "read", req[h]) /\ UNCHANGED fails
     \/ /\ fails < MaxFails
        /\ fails' = fails + 1
        /\ AfterSync(h)
  /\ UNCHANGED <<today, calls, starts, memoryVars, stored, historyVars>>

\* The key is read first, then the projects in any order.
NextItems(todo) == IF KeyItem \in todo THEN {KeyItem} ELSE todo

\* Reads one item. A failed read, or nothing stored, skips it.
SyncReads(h) ==
  /\ at[h] = "read"
  /\ \E i \in NextItems(req[h].todo) :
       LET rest == [req[h] EXCEPT !.todo = @ \ {i}]
           found == IF i = KeyItem THEN stored.key # NoKey ELSE stored.states[i] # NoState
       IN  \/ /\ found
              /\ GoesOn(h, "apply",
                   IF i = KeyItem THEN [rest EXCEPT !.item = i, !.key = stored.key]
                                  ELSE [rest EXCEPT !.item = i, !.copy = stored.states[i]])
              /\ torn' = IF i \in Projects /\ Writing(i) # {} THEN torn \union {i} ELSE torn
              /\ UNCHANGED fails
           \/ /\ ~found
              /\ GoesOn(h, "read", rest)
              /\ UNCHANGED <<fails, torn>>
           \/ /\ fails < MaxFails
              /\ fails' = fails + 1
              /\ GoesOn(h, "read", rest)
              /\ UNCHANGED torn
  /\ UNCHANGED <<today, calls, starts, memoryVars, stored, loaded, stopped>>

\* Mutation: the limit is not read back.
MergedSwitchOnly(g, s) ==
  [g EXCEPT !.manualRevoked = s.manualRevoked,
            !.enabled = s.enabled /\ ~s.manualRevoked /\ ~Spent(g)]

\* The stored state wins over memory; what was used today stays.
Merged(g, s) ==
  LET read == [g EXCEPT !.dailyLimit = s.dailyLimit, !.manualRevoked = s.manualRevoked]
  IN  [read EXCEPT !.enabled = s.enabled /\ ~s.manualRevoked /\ ~Spent(read)]

SyncApplies(h) ==
  LET i == req[h].item
      gs == IF i = KeyItem THEN grants
            ELSE [grants EXCEPT ![i] = Merged(grants[i], req[h].copy)]
  IN  /\ at[h] = "apply"
      /\ grants' = gs
      /\ geminiKey' = IF i = KeyItem THEN req[h].key ELSE KeyWiped(gs)
      /\ top' = IF i = KeyItem THEN top
                ELSE [top EXCEPT ![i] = Highest(@, gs[i].dailyLimit)]
      /\ loaded' = IF i = KeyItem THEN loaded ELSE loaded \union {i}
      /\ GoesOn(h, "read", [req[h] EXCEPT !.item = KeyItem, !.key = NoKey, !.copy = NoState])
      /\ UNCHANGED <<today, boundVars, openBaoSynced, stored, torn, stopped>>

SyncEnds(h) ==
  /\ at[h] = "read"
  /\ req[h].todo = {}
  /\ AfterSync(h)
  /\ openBaoSynced' = (openBaoSynced \/ req[h].op = "startup")
  /\ UNCHANGED <<today, boundVars, grants, geminiKey, top, stored, historyVars>>

-----------------------------------------------------------------------------
Chat(h) == (\E p \in Projects : ChatArrives(h, p)) \/ ChatChecks(h) \/ ChatCharges(h)

Admin(h) ==
  \/ \E p \in Projects : Revoke(h, p) \/ Enable(h, p) \/ \E l \in Limits : Quota(h, p, l)
  \/ Persist(h)
  \/ \E k \in Keys : SetKey(h, k)
  \/ SetKeyWrites(h) \/ SetKeyLoads(h)
  \/ ReloadKey(h)

Sync(h) == Startup(h) \/ Login(h) \/ SyncReads(h) \/ SyncApplies(h) \/ SyncEnds(h)

Next == Restart \/ NextDay \/ \E h \in Handlers : Chat(h) \/ Admin(h) \/ Sync(h)

Spec == Init /\ [][Next]_vars

-----------------------------------------------------------------------------
(* Properties *)

SavedStates == [enabled : BOOLEAN, manualRevoked : BOOLEAN, dailyLimit : Limits \union {0, DefaultLimit}]

\* Every variable has its type; only a chat request goes on to a charge
\* (handleChatCompletions and syncFromOpenBao).
TypeOK ==
  /\ today \in 1 .. MaxDay
  /\ calls \in 0 .. MaxCalls /\ fails \in 0 .. MaxFails /\ starts \in 0 .. MaxStarts
  /\ grants \in [Projects -> [enabled : BOOLEAN, manualRevoked : BOOLEAN,
                              dailyLimit : Limits \union {DefaultLimit},
                              usedToday : Nat, date : 1 .. today]]
  /\ geminiKey \in Keys \union {NoKey} /\ openBaoSynced \in BOOLEAN
  /\ stored \in [key : Keys \union {NoKey}, states : [Projects -> SavedStates]]
  /\ at \in [Handlers -> Stages]
  /\ req \in [Handlers -> [op : Ops, project : Projects \union {KeyItem}, date : 0 .. today,
                           copy : SavedStates, key : Keys \union {NoKey},
                           todo : SUBSET (Projects \union {KeyItem}),
                           item : Projects \union {KeyItem}]]
  /\ \A h \in Handlers : at[h] \in {"check", "charge"} => req[h].op = "chat"
  /\ top \in [Projects -> Limits \union {DefaultLimit}]
  /\ loaded \in SUBSET Projects /\ torn \in SUBSET Projects /\ stopped \in SUBSET Projects

\* A revoked project is off, whatever rolls over, syncs or changes its quota
\* ("preserve ManualRevoked across rollover", main.go:422).
RevokedIsOff == \A p \in Projects : grants[p].manualRevoked => ~grants[p].enabled

\* Chat requests of project p that passed the checks and are in the sync.
InTheGap(p) ==
  {h \in Handlers : req[h].op = "chat" /\ req[h].project = p /\ at[h] \in SyncStages \union {"charge"}}

\* The lock is released for the sync between the quota's check and the count, and
\* the check is not repeated (handleChatCompletions, 450-479): a day's requests
\* exceed the highest limit of that day by no more than the requests that can be
\* in progress besides the first.
OvershootIsBounded == \A p \in Projects :
  grants[p].usedToday + Cardinality(InTheGap(p)) <= top[p] + Cardinality(Handlers) - 1

\* Once no handler is busy with it, the switch and the limit of a project are what
\* OpenBao has, unless a write failed or the operator's change overlapped
\* another access to it (handleAdmin*, persistProjectStateToOpenBao, syncFromOpenBao).
MemoryIsStored == \A p \in loaded \ torn :
  Writing(p) \union Holding(p) = {} =>
    /\ stored.states[p].manualRevoked = grants[p].manualRevoked
    /\ stored.states[p].dailyLimit = grants[p].dailyLimit

\* A stop the operator was told of lasts until the project is enabled, also
\* in the next process once it has loaded the project's state, with the same
\* exceptions and that of stopped: a quota changed before the startup sync writes
\* the switch as the new process assumes it (design: "a stopped project remains stopped across vault-ai-proxy
\* pod restarts").
StopLasts == \A p \in (stopped \intersect loaded) \ torn : grants[p].manualRevoked
=============================================================================
