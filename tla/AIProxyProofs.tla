--------------------------- MODULE AIProxyProofs ---------------------------
(***************************************************************************)
(* The safety of the AI gateway proxy for every set of projects, every      *)
(* number of requests in progress, and every limit.                         *)
(***************************************************************************)
EXTENDS AIProxy, FiniteSetTheorems, TLAPS

-----------------------------------------------------------------------------
(* The inductive invariant. *)

GrantLimits == Limits \union {DefaultLimit}

Grants == [enabled : BOOLEAN, manualRevoked : BOOLEAN, dailyLimit : GrantLimits,
           usedToday : Nat, date : 1 .. today]

Requests == [op : Ops, project : Projects \union {KeyItem}, date : 0 .. today,
             copy : SavedStates, key : Keys \union {NoKey},
             todo : SUBSET (Projects \union {KeyItem}),
             item : Projects \union {KeyItem}]

\* What each stage of a handler relies on: only the operator's changes are
\* written, a revoked copy says so, and a state to apply is a stored one.
RequestOK(h) ==
  /\ at[h] = "persist" => /\ req[h].project \in Projects
                          /\ req[h].op \in {"revoke", "enable", "quota"}
                          /\ req[h].copy.dailyLimit \in GrantLimits
                          /\ req[h].op = "revoke" => req[h].copy.manualRevoked
  /\ req[h].op = "chat" => req[h].project \in Projects /\ req[h].date >= 1
  /\ at[h] = "apply" /\ req[h].item \in Projects => req[h].copy.dailyLimit \in GrantLimits

StoredOK == \A p \in Projects :
  stored.states[p] # NoState => stored.states[p].dailyLimit \in GrantLimits

\* The count of the day: the overshoot, and the limit below the day's highest.
CountInv(p) ==
  /\ grants[p].dailyLimit <= top[p]
  /\ grants[p].usedToday + Cardinality(InTheGap(p)) <= top[p] + Cardinality(Handlers) - 1

Same(s, g) == s.manualRevoked = g.manualRevoked /\ s.dailyLimit = g.dailyLimit

\* The copies of a project's switch and limit, unless it is torn: the one that
\* waits to be written is what memory has, and nobody else is busy with the
\* project; one that waits to be applied is what OpenBao has; and a stop is in
\* OpenBao, in memory once that was loaded, and no enable is on its way.
WriterInv(p) == \A h \in Writing(p) :
  Same(req[h].copy, grants[p]) /\ Writing(p) = {h} /\ Holding(p) = {}
HolderInv(p) == \A h \in Holding(p) : Same(req[h].copy, stored.states[p])
LoadedInv(p) == p \in loaded /\ Writing(p) = {} => Same(stored.states[p], grants[p])
StopInv(p) == p \in stopped =>
  /\ stored.states[p].manualRevoked
  /\ p \in loaded => grants[p].manualRevoked
  /\ \A h \in Writing(p) : req[h].op # "enable"
CopyInv(p) == p \notin torn => WriterInv(p) /\ HolderInv(p) /\ LoadedInv(p) /\ StopInv(p)

ProxyInv ==
  /\ TypeOK
  /\ \A h \in Handlers : RequestOK(h)
  /\ StoredOK
  /\ RevokedIsOff
  /\ \A p \in Projects : CountInv(p)
  /\ \A p \in Projects : CopyInv(p)

-----------------------------------------------------------------------------
(* The operators: what they make of a grant. *)

LEMMA Bounds ==
  /\ DefaultLimit \in Nat \ {0} /\ GrantLimits \subseteq Nat \ {0}
  /\ DefaultLimit \in GrantLimits /\ GrantLimits \subseteq Limits \union {0, DefaultLimit}
BY ProxyAssumption DEF GrantLimits

LEMMA SizeOfHandlers ==
  ASSUME NEW S \in SUBSET Handlers
  PROVE  /\ IsFiniteSet(S) /\ Cardinality(S) \in Nat
         /\ Cardinality(Handlers) \in Nat /\ Cardinality(Handlers) >= 1
         /\ Cardinality(S) <= Cardinality(Handlers)
         /\ S # Handlers => Cardinality(S) <= Cardinality(Handlers) - 1
<1>1. IsFiniteSet(Handlers) /\ Handlers # {}
  BY ProxyAssumption
<1>2. /\ IsFiniteSet(S) /\ Cardinality(S) <= Cardinality(Handlers)
      /\ S # Handlers => Cardinality(S) # Cardinality(Handlers)
  BY <1>1, FS_Subset
<1>3. Cardinality(S) \in Nat /\ Cardinality(Handlers) \in Nat
  BY <1>1, <1>2, FS_CardinalityType
<1>4. Cardinality(Handlers) # 0
  BY <1>1, FS_EmptySet
<1> QED
  BY <1>2, <1>3, <1>4

LEMMA RolledOver ==
  ASSUME TypeOK, NEW g \in Grants, NEW date \in 1 .. today
  PROVE  /\ Rollover(g, date) \in Grants
         /\ Same(Rollover(g, date), g)
         /\ (g.manualRevoked => ~g.enabled)
              => (Rollover(g, date).manualRevoked => ~Rollover(g, date).enabled)
         /\ Rollover(g, date).date = date
         /\ Rollover(g, date).date = g.date => Rollover(g, date) = g
         /\ Rollover(g, date).date # g.date => Rollover(g, date).usedToday = 0
BY DEF Rollover, Same, Grants, TypeOK

LEMMA GrantMerged ==
  ASSUME NEW g \in Grants, NEW s \in SavedStates, s.dailyLimit \in GrantLimits
  PROVE  /\ Merged(g, s) \in Grants
         /\ Same(s, Merged(g, s))
         /\ Merged(g, s).manualRevoked => ~Merged(g, s).enabled
         /\ Merged(g, s).usedToday = g.usedToday
<1> DEFINE read == [g EXCEPT !.dailyLimit = s.dailyLimit, !.manualRevoked = s.manualRevoked]
           on == s.enabled /\ ~s.manualRevoked /\ ~Spent(read)
<1>1. read \in Grants /\ Same(s, read) /\ read.usedToday = g.usedToday
  BY DEF Grants, SavedStates, Same
<1>2. on \in BOOLEAN /\ (on => ~s.manualRevoked)
  BY DEF Spent, SavedStates
<1>3. Merged(g, s) = [read EXCEPT !.enabled = on]
  BY DEF Merged
<1> HIDE DEF read, on
<1>4. [read EXCEPT !.enabled = on] \in Grants
  BY <1>1, <1>2 DEF Grants
<1>5. /\ [read EXCEPT !.enabled = on].enabled = on
      /\ Same(s, [read EXCEPT !.enabled = on])
      /\ [read EXCEPT !.enabled = on].usedToday = g.usedToday
  BY <1>1 DEF Grants, Same
<1> QED
  BY <1>2, <1>3, <1>4, <1>5 DEF Same

LEMMA StateSaved ==
  ASSUME NEW g \in Grants
  PROVE  StateOf(g) \in SavedStates /\ StateOf(g).dailyLimit \in GrantLimits /\ Same(StateOf(g), g)
BY Bounds DEF StateOf, SavedStates, Grants, Same

LEMMA FreshRequest ==
  ASSUME TypeOK
  PROVE  NoRequest \in Requests /\ NoRequest.op = "none" /\ NoState \in SavedStates
BY DEF NoRequest, Requests, NoState, SavedStates, Ops, TypeOK

-----------------------------------------------------------------------------
(* A step of one handler. *)

LEMMA Goes ==
  ASSUME TypeOK, NEW h \in Handlers, NEW stage, NEW r, GoesOn(h, stage, r)
  PROVE  /\ at'[h] = stage /\ req'[h] = r
         /\ \A k \in Handlers \ {h} : at'[k] = at[k] /\ req'[k] = req[k]
BY DEF GoesOn, TypeOK

LEMMA GoesTyped ==
  ASSUME TypeOK, NEW h \in Handlers, NEW stage \in Stages, NEW r \in Requests, GoesOn(h, stage, r),
         UNCHANGED today, stage \in {"check", "charge"} => r.op = "chat"
  PROVE  /\ at' \in [Handlers -> Stages] /\ req' \in [Handlers -> Requests']
         /\ \A k \in Handlers : at'[k] \in {"check", "charge"} => req'[k].op = "chat"
<1>1. Requests' = Requests
  BY DEF Requests
<1>2. at \in [Handlers -> Stages] /\ req \in [Handlers -> Requests]
  BY DEF TypeOK, Requests
<1>3. at' \in [Handlers -> Stages] /\ req' \in [Handlers -> Requests]
  BY <1>2 DEF GoesOn
<1>4. \A k \in Handlers : at'[k] \in {"check", "charge"} => req'[k].op = "chat"
  BY Goes DEF TypeOK
<1> QED
  BY <1>1, <1>3, <1>4

\* The others' part of RequestOK.
LEMMA RequestsStay ==
  ASSUME TypeOK, \A k \in Handlers : RequestOK(k),
         NEW h \in Handlers, NEW stage, NEW r, GoesOn(h, stage, r), RequestOK(h)'
  PROVE  \A k \in Handlers : RequestOK(k)'
<1>1. ASSUME NEW k \in Handlers \ {h} PROVE RequestOK(k)'
  BY Goes DEF RequestOK
<1> QED
  BY <1>1

\* Who is in the gap, when the handler does not enter it.
LEMMA GapStays ==
  ASSUME TypeOK, NEW p, NEW h \in Handlers, NEW stage, NEW r, GoesOn(h, stage, r),
         r.op = "chat" /\ r.project = p /\ stage \in SyncStages \union {"charge"} => h \in InTheGap(p)
  PROVE  InTheGap(p)' \subseteq InTheGap(p)
BY Goes DEF InTheGap

LEMMA CountStays ==
  ASSUME TypeOK, NEW p \in Projects, CountInv(p), InTheGap(p)' \subseteq InTheGap(p),
         grants'[p].usedToday \in Nat, top[p] \in Nat, top'[p] \in Nat,
         grants[p].usedToday \in Nat,
         grants'[p].usedToday <= grants[p].usedToday,
         grants'[p].dailyLimit <= top'[p], top[p] <= top'[p]
  PROVE  CountInv(p)'
<1>1. InTheGap(p) \subseteq Handlers
  BY DEF InTheGap
<1>2. IsFiniteSet(InTheGap(p)) /\ Cardinality(InTheGap(p)) \in Nat /\ Cardinality(Handlers) \in Nat
  BY <1>1, SizeOfHandlers
<1>3. Cardinality(InTheGap(p)') <= Cardinality(InTheGap(p)) /\ IsFiniteSet(InTheGap(p)')
  BY <1>2, FS_Subset
<1>4. Cardinality(InTheGap(p)') \in Nat
  BY <1>3, FS_CardinalityType
<1> QED
  BY <1>2, <1>3, <1>4 DEF CountInv

\* The copies of a project the handler neither writes nor reads.
LEMMA BusyStays ==
  ASSUME TypeOK, NEW p, NEW h \in Handlers, NEW stage, NEW r, GoesOn(h, stage, r),
         at[h] = "persist" => req[h].project # p,
         stage = "persist" => r.project # p,
         stage = "apply" => r.item # p
  PROVE  /\ Writing(p)' = Writing(p) /\ \A k \in Writing(p) : req'[k] = req[k]
         /\ \A k \in Holding(p)' : k \in Holding(p) /\ req'[k] = req[k]
BY Goes DEF Writing, Holding

LEMMA CopyStays ==
  ASSUME NEW p, CopyInv(p),
         Writing(p)' = Writing(p), \A k \in Writing(p) : req'[k] = req[k],
         \A k \in Holding(p)' : k \in Holding(p) /\ req'[k] = req[k],
         stored'.states[p] = stored.states[p], Same(grants'[p], grants[p]),
         p \in torn => p \in torn', p \in loaded' => p \in loaded, p \in stopped' => p \in stopped
  PROVE  CopyInv(p)'
<1> SUFFICES ASSUME p \notin torn' PROVE WriterInv(p)' /\ HolderInv(p)' /\ LoadedInv(p)' /\ StopInv(p)'
  BY DEF CopyInv
<1>1. WriterInv(p) /\ HolderInv(p) /\ LoadedInv(p) /\ StopInv(p)
  BY DEF CopyInv
<1>2. WriterInv(p)'
  BY <1>1 DEF WriterInv, Same
<1>3. HolderInv(p)'
  BY <1>1 DEF HolderInv, Same
<1>4. LoadedInv(p)'
  BY <1>1 DEF LoadedInv, Same
<1>5. StopInv(p)'
  BY <1>1 DEF StopInv, Same
<1> QED
  BY <1>2, <1>3, <1>4, <1>5

\* The counts, when no grant changes and nobody enters the gap.
LEMMA CountsStay ==
  ASSUME ProxyInv, NEW h \in Handlers, NEW stage, NEW r, GoesOn(h, stage, r),
         \A p \in Projects : r.op = "chat" /\ r.project = p /\ stage \in SyncStages \union {"charge"}
                               => h \in InTheGap(p),
         NEW p \in Projects, grants'[p] = grants[p], top'[p] = top[p]
  PROVE  CountInv(p)'
<1>1. TypeOK /\ CountInv(p)
  BY DEF ProxyInv
<1>2. InTheGap(p)' \subseteq InTheGap(p)
  BY <1>1, GapStays
<1>3. grants[p].usedToday \in Nat /\ top[p] \in Nat /\ grants[p].dailyLimit \in Nat
  BY <1>1, Bounds DEF TypeOK, GrantLimits
<1>4. grants[p].dailyLimit <= top[p]
  BY <1>1 DEF CountInv
<1> QED
  BY <1>1, <1>2, <1>3, <1>4, CountStays

\* A count with room for every request in progress, or for all but one.
LEMMA CountRoom ==
  ASSUME NEW p \in Projects, grants'[p].usedToday \in Nat, top'[p] \in Nat,
         grants'[p].dailyLimit <= top'[p],
         \/ grants'[p].usedToday <= top'[p] /\ InTheGap(p)' # Handlers
         \/ grants'[p].usedToday + 1 <= top'[p]
  PROVE  CountInv(p)'
<1>1. InTheGap(p)' \subseteq Handlers
  BY DEF InTheGap
<1> DEFINE S == InTheGap(p)'
<1> HIDE DEF S
<1>2. S \in SUBSET Handlers
  BY <1>1 DEF S
<1>3. /\ Cardinality(S) \in Nat /\ Cardinality(Handlers) \in Nat
      /\ Cardinality(S) <= Cardinality(Handlers)
      /\ S # Handlers => Cardinality(S) <= Cardinality(Handlers) - 1
  BY <1>2, SizeOfHandlers
<1>4. grants'[p].usedToday + Cardinality(S) <= top'[p] + Cardinality(Handlers) - 1
  BY <1>3 DEF S
<1> QED
  BY <1>4 DEF CountInv, S

\* The copies of a project the handler has nothing to do with.
LEMMA OtherCopies ==
  ASSUME ProxyInv, NEW h \in Handlers, NEW stage, NEW r, GoesOn(h, stage, r),
         NEW p \in Projects,
         at[h] = "persist" => req[h].project # p,
         stage = "persist" => r.project # p,
         stage = "apply" => r.item # p,
         stored'.states[p] = stored.states[p], Same(grants'[p], grants[p]),
         p \in torn => p \in torn', p \in loaded' => p \in loaded, p \in stopped' => p \in stopped
  PROVE  CopyInv(p)'
<1>1. TypeOK /\ CopyInv(p)
  BY DEF ProxyInv
<1>2. /\ Writing(p)' = Writing(p) /\ \A k \in Writing(p) : req'[k] = req[k]
      /\ \A k \in Holding(p)' : k \in Holding(p) /\ req'[k] = req[k]
  BY <1>1, BusyStays
<1> QED
  BY <1>1, <1>2, CopyStays

\* A step that leaves the projects alone, in memory and in OpenBao.
LEMMA QuietStep ==
  ASSUME ProxyInv, NEW h \in Handlers, NEW stage, NEW r, GoesOn(h, stage, r),
         TypeOK', RequestOK(h)',
         at[h] # "persist", stage # "persist", stage = "apply" => r.item = KeyItem,
         \A p \in Projects : r.op = "chat" /\ r.project = p /\ stage \in SyncStages \union {"charge"}
                               => h \in InTheGap(p),
         UNCHANGED <<grants, top, stored.states, historyVars>>
  PROVE  ProxyInv'
<1>1. TypeOK /\ (\A k \in Handlers : RequestOK(k)) /\ StoredOK /\ RevokedIsOff
  BY DEF ProxyInv
<1>2. \A k \in Handlers : RequestOK(k)'
  BY <1>1, RequestsStay
<1>3. StoredOK' /\ RevokedIsOff'
  BY <1>1 DEF StoredOK, RevokedIsOff
<1>4. ASSUME NEW p \in Projects PROVE CountInv(p)'
  BY CountsStay
<1>5. ASSUME NEW p \in Projects PROVE CopyInv(p)'
  <2>1. p # KeyItem
    BY ProxyAssumption
  <2>2. Same(grants'[p], grants[p]) /\ stored'.states[p] = stored.states[p]
    BY DEF Same
  <2> QED
    BY <2>1, <2>2, OtherCopies DEF historyVars
<1> QED
  BY <1>2, <1>3, <1>4, <1>5 DEF ProxyInv

\* A step that gives project p the grant f.
LEMMA GrantChanges ==
  ASSUME ProxyInv, NEW p \in Projects, NEW f \in Grants, grants' = [grants EXCEPT ![p] = f],
         UNCHANGED today, f.manualRevoked => ~f.enabled
  PROVE  /\ grants' \in [Projects -> Grants'] /\ RevokedIsOff'
         /\ grants'[p] = f /\ \A q \in Projects \ {p} : grants'[q] = grants[q]
<1>1. grants \in [Projects -> Grants] /\ RevokedIsOff
  BY DEF ProxyInv, TypeOK, Grants, GrantLimits
<1>2. Grants' = Grants
  BY DEF Grants
<1>3. grants'[p] = f /\ \A q \in Projects \ {p} : grants'[q] = grants[q]
  BY <1>1
<1>4. RevokedIsOff'
  BY <1>1, <1>3 DEF RevokedIsOff
<1> QED
  BY <1>1, <1>2, <1>3, <1>4

LEMMA KeyWipedTyped ==
  ASSUME TypeOK, NEW gs
  PROVE  KeyWiped(gs) \in Keys \union {NoKey}
BY DEF KeyWiped, TypeOK

-----------------------------------------------------------------------------
(* Requests that arrive, and the steps that touch the key alone. *)

LEMMA FailsCounted ==
  ASSUME TypeOK, (fails < MaxFails /\ fails' = fails + 1) \/ fails' = fails
  PROVE  fails' \in 0 .. MaxFails
BY ProxyBoundsAssumption DEF TypeOK

LEMMA ArrivalKeeps ==
  ASSUME ProxyInv, NEW h \in Handlers,
         \/ \E p \in Projects : ChatArrives(h, p)
         \/ \E k \in Keys : SetKey(h, k)
         \/ ReloadKey(h) \/ Startup(h)
  PROVE  ProxyInv'
<1>1. TypeOK
  BY DEF ProxyInv
<1>2. /\ at[h] = "idle" /\ calls' \in 0 .. MaxCalls
      /\ UNCHANGED <<today, fails, starts, memoryVars, stored, historyVars>>
  <2>1. Arrives(h) /\ UNCHANGED <<today, fails, starts, memoryVars, stored, historyVars>>
    BY DEF ChatArrives, SetKey, ReloadKey, Startup
  <2>2. calls \in 0 .. MaxCalls
    BY <1>1 DEF TypeOK
  <2> QED
    BY <2>1, <2>2, ProxyBoundsAssumption DEF Arrives
<1>3. PICK stage \in {"check", "write", "login"}, r \in Requests :
        /\ GoesOn(h, stage, r)
        /\ r.op = "chat" <=> stage = "check"
        /\ r.op = "chat" => r.project \in Projects /\ r.date >= 1
  <2>1. ASSUME NEW p \in Projects, ChatArrives(h, p)
        PROVE  [NoRequest EXCEPT !.op = "chat", !.project = p, !.date = today] \in Requests
               /\ GoesOn(h, "check", [NoRequest EXCEPT !.op = "chat", !.project = p, !.date = today])
    <3>1. today \in 0 .. today
      BY <1>1 DEF TypeOK
    <3> QED
      BY <1>1, <2>1, <3>1, FreshRequest DEF ChatArrives, Requests, Ops
  <2>2. ASSUME NEW k \in Keys, SetKey(h, k)
        PROVE  [NoRequest EXCEPT !.op = "set", !.key = k] \in Requests
               /\ GoesOn(h, "write", [NoRequest EXCEPT !.op = "set", !.key = k])
    BY <1>1, <2>2, FreshRequest DEF SetKey, Requests, Ops
  <2>3. ASSUME NEW op \in {"reload", "startup"}, SyncStarts(h, [NoRequest EXCEPT !.op = op])
        PROVE  [NoRequest EXCEPT !.op = op, !.todo = Projects \union {KeyItem}] \in Requests
               /\ GoesOn(h, "login", [NoRequest EXCEPT !.op = op, !.todo = Projects \union {KeyItem}])
    BY <1>1, <2>3, FreshRequest DEF SyncStarts, Requests, Ops
  <2>4. CASE \E p \in Projects : ChatArrives(h, p)
    <3>1. PICK p \in Projects : ChatArrives(h, p)
      BY <2>4
    <3> DEFINE s == [NoRequest EXCEPT !.op = "chat", !.project = p, !.date = today]
    <3>2. s.op = "chat" /\ s.project = p /\ s.date = today
      BY DEF NoRequest
    <3>3. today >= 1
      BY <1>1 DEF TypeOK
    <3> QED
      BY <2>1, <3>1, <3>2, <3>3
  <2>5. CASE \E k \in Keys : SetKey(h, k)
    <3>1. PICK k \in Keys : SetKey(h, k)
      BY <2>5
    <3>2. [NoRequest EXCEPT !.op = "set", !.key = k].op = "set"
      BY DEF NoRequest
    <3> QED
      BY <2>2, <3>1, <3>2
  <2>6. CASE ReloadKey(h) \/ Startup(h)
    <3>1. PICK op \in {"reload", "startup"} : SyncStarts(h, [NoRequest EXCEPT !.op = op])
      BY <2>6 DEF ReloadKey, Startup
    <3>2. [NoRequest EXCEPT !.op = op, !.todo = Projects \union {KeyItem}].op = op
      BY DEF NoRequest
    <3> QED
      BY <2>3, <3>1, <3>2
  <2> QED
    BY <2>4, <2>5, <2>6
<1>4. /\ at' \in [Handlers -> Stages] /\ req' \in [Handlers -> Requests']
      /\ \A k \in Handlers : at'[k] \in {"check", "charge"} => req'[k].op = "chat"
  BY <1>1, <1>2, <1>3, GoesTyped DEF Stages
<1>5. TypeOK'
  BY <1>1, <1>2, <1>4 DEF TypeOK, memoryVars, historyVars, Requests
<1>6. RequestOK(h)'
  BY <1>1, <1>3, Goes DEF RequestOK
<1>7. /\ stage # "persist" /\ stage # "apply"
      /\ r.op = "chat" => stage \notin SyncStages \union {"charge"}
  BY <1>3 DEF SyncStages
<1> QED
  BY <1>2, <1>3, <1>5, <1>6, <1>7, QuietStep DEF memoryVars, historyVars

\* The caller of a sync goes on.
LEMMA AfterSyncGoes ==
  ASSUME ProxyInv, NEW h \in Handlers, AfterSync(h)
  PROVE  \E stage \in {"idle", "charge"}, r \in Requests :
           /\ GoesOn(h, stage, r)
           /\ stage = "charge" <=> r.op = "chat"
           /\ r.op = "chat" => r.project = req[h].project /\ r.date = req[h].date /\ req[h].op = "chat"
<1>1. TypeOK /\ req[h] \in Requests
  BY DEF ProxyInv, TypeOK, Requests
<1>2. CASE req[h].op = "chat"
  <2>1. [req[h] EXCEPT !.todo = {}] \in Requests
    BY <1>1 DEF Requests
  <2>2. /\ [req[h] EXCEPT !.todo = {}].op = "chat"
        /\ [req[h] EXCEPT !.todo = {}].project = req[h].project
        /\ [req[h] EXCEPT !.todo = {}].date = req[h].date
    BY <1>1, <1>2 DEF Requests
  <2> QED
    BY <1>2, <2>1, <2>2 DEF AfterSync
<1>3. CASE req[h].op # "chat"
  BY <1>1, <1>3, FreshRequest DEF AfterSync, Done
<1> QED
  BY <1>2, <1>3

LEMMA SyncGoesOnKeeps ==
  ASSUME ProxyInv, NEW h \in Handlers, Login(h) \/ SyncEnds(h)
  PROVE  ProxyInv'
<1>1. TypeOK /\ RequestOK(h) /\ req[h] \in Requests
  BY DEF ProxyInv, TypeOK, Requests
<1>2. /\ at[h] \in {"login", "read"} /\ fails' \in 0 .. MaxFails
      /\ openBaoSynced' \in BOOLEAN
      /\ UNCHANGED <<today, calls, starts, grants, geminiKey, top, stored, historyVars>>
  <2>1. (fails < MaxFails /\ fails' = fails + 1) \/ fails' = fails
    BY DEF Login, SyncEnds, boundVars
  <2>2. openBaoSynced \in BOOLEAN
    BY <1>1 DEF TypeOK
  <2>3. openBaoSynced' \in BOOLEAN
    BY <2>2 DEF Login, SyncEnds, memoryVars
  <2> QED
    BY <1>1, <2>1, <2>3, FailsCounted DEF Login, SyncEnds, memoryVars, boundVars
<1>3. PICK stage \in {"idle", "charge", "read"}, r \in Requests :
        /\ GoesOn(h, stage, r)
        /\ stage = "charge" => r.op = "chat"
        /\ r.op = "chat" => r.project = req[h].project /\ r.date = req[h].date /\ req[h].op = "chat"
  <2>1. \/ AfterSync(h)
        \/ GoesOn(h, "read", req[h])
    BY DEF Login, SyncEnds
  <2>2. CASE AfterSync(h)
    BY <2>2, AfterSyncGoes
  <2>3. CASE GoesOn(h, "read", req[h])
    <3>1. req[h].op = "chat" => req[h].project \in Projects /\ req[h].date >= 1
      BY <1>1 DEF RequestOK
    <3> QED
      BY <1>1, <2>3, <3>1
  <2> QED
    BY <2>1, <2>2, <2>3
<1>4. /\ at' \in [Handlers -> Stages] /\ req' \in [Handlers -> Requests']
      /\ \A k \in Handlers : at'[k] \in {"check", "charge"} => req'[k].op = "chat"
  BY <1>1, <1>2, <1>3, GoesTyped DEF Stages
<1>5. TypeOK'
  BY <1>1, <1>2, <1>4 DEF TypeOK, historyVars, Requests
<1>6. RequestOK(h)'
  BY <1>1, <1>3, Goes DEF RequestOK
<1>7. \A p \in Projects : r.op = "chat" /\ r.project = p => h \in InTheGap(p)
  BY <1>2, <1>3 DEF InTheGap, SyncStages
<1> QED
  BY <1>2, <1>3, <1>5, <1>6, <1>7, QuietStep DEF historyVars

\* The key: written to OpenBao first, then loaded.
LEMMA KeyKeeps ==
  ASSUME ProxyInv, NEW h \in Handlers, SetKeyWrites(h) \/ SetKeyLoads(h)
  PROVE  ProxyInv'
<1>1. TypeOK /\ RequestOK(h) /\ req[h] \in Requests
  BY DEF ProxyInv, TypeOK, Requests
<1>2. /\ at[h] \in {"write", "set"} /\ fails' \in 0 .. MaxFails
      /\ geminiKey' \in Keys \union {NoKey}
      /\ UNCHANGED <<today, calls, starts, grants, openBaoSynced, top, historyVars>>
  BY <1>1, ProxyBoundsAssumption
     DEF SetKeyWrites, SetKeyLoads, TypeOK, memoryVars, boundVars, Requests
<1>3. /\ stored' \in [key : Keys \union {NoKey}, states : [Projects -> SavedStates]]
      /\ stored'.states = stored.states
  BY <1>1 DEF SetKeyWrites, SetKeyLoads, TypeOK, Requests
<1>4. PICK stage \in {"idle", "set"}, r \in {NoRequest, req[h]} : GoesOn(h, stage, r)
  BY DEF SetKeyWrites, SetKeyLoads, Done
<1>5. r \in Requests
  BY <1>1, <1>4, FreshRequest
<1>6. /\ at' \in [Handlers -> Stages] /\ req' \in [Handlers -> Requests']
      /\ \A k \in Handlers : at'[k] \in {"check", "charge"} => req'[k].op = "chat"
  BY <1>1, <1>2, <1>4, <1>5, GoesTyped DEF Stages
<1>7. TypeOK'
  BY <1>1, <1>2, <1>3, <1>6 DEF TypeOK, historyVars, Requests
<1>8. RequestOK(h)'
  BY <1>1, <1>4, Goes DEF RequestOK, NoRequest
<1>9. stage \notin SyncStages \union {"charge"}
  BY DEF SyncStages
<1> QED
  BY <1>2, <1>3, <1>4, <1>7, <1>8, <1>9, QuietStep DEF historyVars, SyncStages

-----------------------------------------------------------------------------
(* The sync: what it reads, and what it applies. *)

LEMMA ReadsKeeps ==
  ASSUME ProxyInv, NEW h \in Handlers, SyncReads(h)
  PROVE  ProxyInv'
<1>1. /\ TypeOK /\ RequestOK(h) /\ req[h] \in Requests /\ StoredOK /\ RevokedIsOff
      /\ \A k \in Handlers : RequestOK(k)
  BY DEF ProxyInv, TypeOK, Requests
<1>2. /\ at[h] = "read"
      /\ UNCHANGED <<today, calls, starts, memoryVars, stored, loaded, stopped>>
  BY DEF SyncReads
<1>3. fails' \in 0 .. MaxFails
  <2>1. (fails < MaxFails /\ fails' = fails + 1) \/ fails' = fails
    BY DEF SyncReads
  <2> QED
    BY <1>1, <2>1, FailsCounted
<1>4. PICK i \in NextItems(req[h].todo) :
        LET rest == [req[h] EXCEPT !.todo = @ \ {i}]
        IN  \/ /\ i = KeyItem /\ torn' = torn
               /\ GoesOn(h, "apply", [rest EXCEPT !.item = i, !.key = stored.key])
            \/ /\ i # KeyItem /\ stored.states[i] # NoState
               /\ GoesOn(h, "apply", [rest EXCEPT !.item = i, !.copy = stored.states[i]])
               /\ torn' = IF i \in Projects /\ Writing(i) # {} THEN torn \union {i} ELSE torn
            \/ GoesOn(h, "read", rest) /\ torn' = torn
  <2>1. KeyItem \notin Projects
    BY ProxyAssumption
  <2> QED
    BY <2>1 DEF SyncReads
<1> DEFINE rest == [req[h] EXCEPT !.todo = @ \ {i}]
<1>5. i \in Projects \union {KeyItem}
  BY <1>1 DEF NextItems, Requests
<1>6. /\ rest \in Requests /\ rest.op = req[h].op /\ rest.project = req[h].project
      /\ rest.date = req[h].date
  BY <1>1 DEF Requests
<1>7. stored.key \in Keys \union {NoKey} /\ stored.states \in [Projects -> SavedStates]
  BY <1>1 DEF TypeOK
<1>8. \A p \in Projects : req[h].op = "chat" /\ req[h].project = p => h \in InTheGap(p)
  BY <1>2 DEF InTheGap, SyncStages
<1> HIDE DEF rest
<1>9. ASSUME NEW stage \in {"read", "apply"}, NEW r \in Requests, GoesOn(h, stage, r)
      PROVE  /\ at' \in [Handlers -> Stages] /\ req' \in [Handlers -> Requests']
             /\ \A k \in Handlers : at'[k] \in {"check", "charge"} => req'[k].op = "chat"
  BY <1>1, <1>2, <1>9, GoesTyped DEF Stages
<1>10. ASSUME NEW stage \in {"read", "apply"}, NEW r \in Requests, GoesOn(h, stage, r),
              r.op = req[h].op, r.project = req[h].project, r.date = req[h].date,
              stage = "apply" => r.item = KeyItem, torn' = torn
       PROVE  ProxyInv'
  <2>1. TypeOK'
    BY <1>1, <1>2, <1>3, <1>9, <1>10 DEF TypeOK, memoryVars, Requests
  <2>2. KeyItem \notin Projects
    BY ProxyAssumption
  <2>3. RequestOK(h)'
    BY <1>1, <1>10, <2>2, Goes DEF RequestOK
  <2> QED
    BY <1>2, <1>8, <1>10, <2>1, <2>3, QuietStep DEF historyVars, memoryVars
<1>11. CASE i = KeyItem /\ torn' = torn
              /\ GoesOn(h, "apply", [rest EXCEPT !.item = i, !.key = stored.key])
  <2> DEFINE r == [rest EXCEPT !.item = i, !.key = stored.key]
  <2>1. r \in Requests
    BY ONLY <1>5, <1>6, <1>7 DEF Requests
  <2>2. r.op = rest.op /\ r.project = rest.project /\ r.date = rest.date /\ r.item = i
    BY <1>6 DEF Requests
  <2>3. GoesOn(h, "apply", r)
    BY <1>11
  <2> HIDE DEF r
  <2> QED
    BY <1>6, <1>10, <1>11, <2>1, <2>2, <2>3
<1>12. CASE GoesOn(h, "read", rest) /\ torn' = torn
  BY <1>6, <1>10, <1>12
<1>13. CASE /\ i # KeyItem /\ stored.states[i] # NoState
            /\ GoesOn(h, "apply", [rest EXCEPT !.item = i, !.copy = stored.states[i]])
            /\ torn' = IF i \in Projects /\ Writing(i) # {} THEN torn \union {i} ELSE torn
  <2> DEFINE r == [rest EXCEPT !.item = i, !.copy = stored.states[i]]
  <2>1. i \in Projects /\ stored.states[i] \in SavedStates /\ stored.states[i].dailyLimit \in GrantLimits
    BY <1>1, <1>5, <1>7, <1>13 DEF StoredOK
  <2>2. r \in Requests
    BY ONLY <1>5, <1>6, <2>1 DEF Requests
  <2>3. /\ r.op = req[h].op /\ r.project = req[h].project /\ r.date = req[h].date /\ r.item = i
        /\ r.copy = stored.states[i]
    BY <1>6 DEF Requests
  <2>4. GoesOn(h, "apply", r)
    BY <1>13
  <2> HIDE DEF r
  <2>5. torn' \subseteq Projects /\ torn \subseteq torn' /\ \A p \in Projects \ {i} : p \in torn' => p \in torn
    BY <1>1, <1>13, <2>1 DEF TypeOK
  <2>6. TypeOK'
    BY <1>1, <1>2, <1>3, <1>9, <2>2, <2>4, <2>5 DEF TypeOK, memoryVars, Requests
  <2>7. /\ at'[h] = "apply" /\ req'[h] = r
        /\ \A k \in Handlers \ {h} : at'[k] = at[k] /\ req'[k] = req[k]
    BY <1>1, <2>4, Goes
  <2>8. RequestOK(h)'
    BY <1>1, <2>1, <2>3, <2>7 DEF RequestOK
  <2>9. \A k \in Handlers : RequestOK(k)'
    BY <1>1, <2>4, <2>8, RequestsStay
  <2>10. StoredOK' /\ RevokedIsOff'
    BY <1>1, <1>2 DEF StoredOK, RevokedIsOff, memoryVars
  <2>11. ASSUME NEW p \in Projects PROVE CountInv(p)'
    BY <1>2, <1>8, <2>3, <2>4, CountsStay DEF memoryVars
  <2>12. ASSUME NEW p \in Projects \ {i} PROVE CopyInv(p)'
    <3>1. Same(grants'[p], grants[p]) /\ stored'.states[p] = stored.states[p]
      BY <1>2 DEF Same, memoryVars
    <3> QED
      BY <1>2, <2>3, <2>4, <2>5, <3>1, OtherCopies
  <2>13. CopyInv(i)'
    <3> SUFFICES ASSUME i \notin torn'
                 PROVE  WriterInv(i)' /\ HolderInv(i)' /\ LoadedInv(i)' /\ StopInv(i)'
      BY DEF CopyInv
    <3>1. Writing(i) = {} /\ i \notin torn
      BY <1>13, <2>1, <2>5
    <3>2. WriterInv(i) /\ HolderInv(i) /\ LoadedInv(i) /\ StopInv(i)
      BY <2>1, <3>1 DEF ProxyInv, CopyInv
    <3>3. Writing(i)' = {}
      BY <3>1, <2>7 DEF Writing
    <3>4. \A k \in Holding(i)' : k = h \/ (k \in Holding(i) /\ req'[k] = req[k])
      BY <2>7 DEF Holding
    <3>5. WriterInv(i)'
      BY <3>3 DEF WriterInv
    <3>6. HolderInv(i)'
      BY <1>2, <2>3, <2>7, <3>2, <3>4 DEF HolderInv, Same
    <3>7. LoadedInv(i)' /\ StopInv(i)'
      BY <1>2, <3>1, <3>2, <3>3 DEF LoadedInv, StopInv, Same, memoryVars
    <3> QED
      BY <3>5, <3>6, <3>7
  <2> QED
    BY <2>6, <2>9, <2>10, <2>11, <2>12, <2>13 DEF ProxyInv
<1> QED
  BY <1>4, <1>11, <1>12, <1>13 DEF rest

LEMMA AppliesKeeps ==
  ASSUME ProxyInv, NEW h \in Handlers, SyncApplies(h)
  PROVE  ProxyInv'
<1>1. /\ TypeOK /\ RequestOK(h) /\ req[h] \in Requests /\ StoredOK
      /\ \A k \in Handlers : RequestOK(k)
  BY DEF ProxyInv, TypeOK, Requests
<1> SUFFICES ASSUME NEW i, i = req[h].item PROVE ProxyInv'
  OBVIOUS
<1> DEFINE r == [req[h] EXCEPT !.item = KeyItem, !.key = NoKey, !.copy = NoState]
           f == Merged(grants[i], req[h].copy)
<1>2. /\ at[h] = "apply" /\ GoesOn(h, "read", r)
      /\ UNCHANGED <<today, boundVars, openBaoSynced, stored, torn, stopped>>
  BY DEF SyncApplies
<1>3. /\ r \in Requests /\ r.op = req[h].op /\ r.project = req[h].project /\ r.date = req[h].date
      /\ r.item = KeyItem
  BY <1>1, FreshRequest DEF Requests
<1>4. \A p \in Projects : r.op = "chat" /\ r.project = p => h \in InTheGap(p)
  BY <1>2, <1>3 DEF InTheGap, SyncStages
<1>5. /\ i = KeyItem => /\ UNCHANGED <<grants, top, loaded>> /\ geminiKey' = req[h].key
      /\ i # KeyItem => /\ grants' = [grants EXCEPT ![i] = f]
                        /\ geminiKey' = KeyWiped(grants')
                        /\ top' = [top EXCEPT ![i] = Highest(@, grants'[i].dailyLimit)]
                        /\ loaded' = loaded \union {i}
  BY DEF SyncApplies
<1>6. i \in Projects \union {KeyItem} /\ req[h].key \in Keys \union {NoKey} /\ req[h].copy \in SavedStates
  BY <1>1 DEF Requests
<1>7. geminiKey' \in Keys \union {NoKey}
  BY <1>1, <1>5, <1>6, KeyWipedTyped
<1> HIDE DEF r
<1>8. /\ at' \in [Handlers -> Stages] /\ req' \in [Handlers -> Requests']
      /\ \A k \in Handlers : at'[k] \in {"check", "charge"} => req'[k].op = "chat"
  BY <1>1, <1>2, <1>3, GoesTyped DEF Stages
<1>9. RequestOK(h)'
  BY <1>1, <1>2, <1>3, Goes DEF RequestOK
<1>10. CASE i = KeyItem
  <2>1. TypeOK'
    BY <1>1, <1>2, <1>5, <1>7, <1>8, <1>10 DEF TypeOK, boundVars, Requests
  <2> QED
    BY <1>2, <1>3, <1>4, <1>5, <1>9, <1>10, <2>1, QuietStep DEF historyVars
<1>11. CASE i # KeyItem
  <2>1. i \in Projects /\ req[h].copy.dailyLimit \in GrantLimits
    BY <1>1, <1>2, <1>6, <1>11 DEF RequestOK
  <2>2. grants \in [Projects -> Grants] /\ top \in [Projects -> GrantLimits]
    BY <1>1 DEF TypeOK, Grants, GrantLimits
  <2>3. /\ f \in Grants /\ Same(req[h].copy, f) /\ (f.manualRevoked => ~f.enabled)
        /\ f.usedToday = grants[i].usedToday
    BY <1>6, <2>1, <2>2, GrantMerged
  <2> HIDE DEF f
  <2>4. /\ grants' \in [Projects -> Grants'] /\ RevokedIsOff'
        /\ grants'[i] = f /\ \A q \in Projects \ {i} : grants'[q] = grants[q]
    BY <1>2, <1>5, <1>11, <2>1, <2>3, GrantChanges
  <2>5. f.dailyLimit \in GrantLimits /\ f.dailyLimit \in Nat /\ top[i] \in Nat /\ top[i] \in GrantLimits
        /\ f.usedToday \in Nat
    BY <2>1, <2>2, <2>3, Bounds DEF Grants
  <2>6. Highest(top[i], f.dailyLimit) \in GrantLimits
    BY <2>5 DEF Highest
  <2>7. /\ top' \in [Projects -> GrantLimits] /\ top'[i] = Highest(top[i], f.dailyLimit)
        /\ \A q \in Projects \ {i} : top'[q] = top[q]
    BY <1>5, <1>11, <2>1, <2>2, <2>4, <2>6
  <2>8. TypeOK'
    <3>1. loaded' \in SUBSET Projects
      BY <1>1, <1>5, <1>11, <2>1 DEF TypeOK
    <3> QED
      BY <1>1, <1>2, <1>7, <1>8, <2>4, <2>7, <3>1 DEF TypeOK, boundVars, Requests, Grants, GrantLimits
  <2>9. \A k \in Handlers : RequestOK(k)'
    BY <1>1, <1>2, <1>9, RequestsStay
  <2>10. StoredOK'
    BY <1>1, <1>2 DEF StoredOK
  <2>11. ASSUME NEW p \in Projects \ {i} PROVE CountInv(p)'
    BY <1>2, <1>4, <2>4, <2>7, CountsStay
  <2>12. CountInv(i)'
    <3>1. InTheGap(i)' \subseteq InTheGap(i)
      BY <1>1, <1>2, <1>4, <2>1, GapStays
    <3>2. CountInv(i)
      BY <2>1 DEF ProxyInv
    <3>3. top'[i] \in Nat /\ f.dailyLimit <= top'[i] /\ top[i] <= top'[i]
      BY <2>5, <2>7 DEF Highest
    <3> QED
      BY <1>1, <2>1, <2>3, <2>4, <2>5, <3>1, <3>2, <3>3, CountStays
  <2>13. ASSUME NEW p \in Projects \ {i} PROVE CopyInv(p)'
    <3>1. Same(grants'[p], grants[p]) /\ stored'.states[p] = stored.states[p]
      BY <1>2, <2>4 DEF Same
    <3>2. p \in loaded' => p \in loaded
      BY <1>5, <1>11
    <3> QED
      BY <1>2, <3>1, <3>2, OtherCopies
  <2>14. CopyInv(i)'
    <3> SUFFICES ASSUME i \notin torn'
                 PROVE  WriterInv(i)' /\ HolderInv(i)' /\ LoadedInv(i)' /\ StopInv(i)'
      BY DEF CopyInv
    <3>1. WriterInv(i) /\ HolderInv(i) /\ LoadedInv(i) /\ StopInv(i)
      BY <1>2, <2>1 DEF ProxyInv, CopyInv
    <3>2. h \in Holding(i)
      BY <1>2 DEF Holding
    <3>3. Writing(i) = {} /\ Same(req[h].copy, stored.states[i])
      BY <3>1, <3>2 DEF WriterInv, HolderInv
    <3>4. /\ at'[h] = "read" /\ \A k \in Handlers \ {h} : at'[k] = at[k] /\ req'[k] = req[k]
      BY <1>1, <1>2, Goes
    <3>5. Writing(i)' = {}
      BY <3>3, <3>4 DEF Writing
    <3>6. \A k \in Holding(i)' : k \in Holding(i) /\ req'[k] = req[k]
      BY <3>4 DEF Holding
    <3>7. WriterInv(i)'
      BY <3>5 DEF WriterInv
    <3>8. HolderInv(i)'
      BY <1>2, <3>1, <3>6 DEF HolderInv, Same
    <3>9. LoadedInv(i)'
      BY <1>2, <2>3, <2>4, <3>3 DEF LoadedInv, Same
    <3>10. StopInv(i)'
      BY <1>2, <2>3, <2>4, <3>1, <3>3, <3>5 DEF StopInv, Same
    <3> QED
      BY <3>7, <3>8, <3>9, <3>10
  <2> QED
    BY <2>4, <2>8, <2>9, <2>10, <2>11, <2>12, <2>13, <2>14 DEF ProxyInv
<1> QED
  BY <1>10, <1>11

-----------------------------------------------------------------------------
(* The chat requests. *)

\* A charge counts the request and leaves switch and limit to the operator.
LEMMA Charged ==
  ASSUME TypeOK, NEW h \in Handlers, NEW p \in Projects, NEW g \in Grants,
         g.manualRevoked => ~g.enabled, Charge(h, p, g)
  PROVE  /\ Done(h) /\ geminiKey' \in Keys \union {NoKey}
         /\ \E f \in Grants : /\ grants' = [grants EXCEPT ![p] = f] /\ Same(f, g)
                              /\ f.manualRevoked => ~f.enabled
                              /\ f.usedToday = g.usedToday + 1
<1> DEFINE used == [g EXCEPT !.usedToday = @ + 1]
           on == used.enabled /\ ~Spent(used)
           f == [used EXCEPT !.enabled = on]
<1>1. used \in Grants /\ used.usedToday = g.usedToday + 1 /\ used.enabled = g.enabled /\ Same(used, g)
  <2>1. g.usedToday + 1 \in Nat
    BY DEF Grants
  <2> QED
    BY ONLY <2>1, g \in Grants DEF Grants, Same
<1>2. grants' = [grants EXCEPT ![p] = f] /\ Done(h)
  BY DEF Charge
<1>3. geminiKey' \in Keys \union {NoKey}
  BY KeyWipedTyped DEF Charge, TypeOK
<1>4. on \in BOOLEAN /\ (on => g.enabled)
  BY <1>1 DEF Spent, Grants
<1> HIDE DEF used, on
<1>5. f \in Grants /\ Same(f, g) /\ f.usedToday = g.usedToday + 1 /\ f.enabled = on
  BY <1>1, <1>4 DEF Grants, Same
<1>6. f.manualRevoked => ~f.enabled
  BY <1>4, <1>5 DEF Same
<1> HIDE DEF f
<1> QED
  BY <1>2, <1>3, <1>5, <1>6

\* A chat request whose project gets the grant f: the parts of the invariant
\* other than the project's count.
LEMMA ChatStep ==
  ASSUME ProxyInv, NEW h \in Handlers, NEW stage \in {"idle", "login"}, NEW r \in Requests,
         GoesOn(h, stage, r), at[h] \in {"check", "charge"}, req[h].op = "chat",
         NEW p \in Projects, p = req[h].project,
         r.op = "chat" => r.project = p /\ r.date = req[h].date,
         stage = "idle" => r.op # "chat",
         NEW f \in Grants, grants' = [grants EXCEPT ![p] = f], Same(f, grants[p]),
         f.manualRevoked => ~f.enabled,
         top' \in [Projects -> GrantLimits], \A q \in Projects \ {p} : top'[q] = top[q],
         geminiKey' \in Keys \union {NoKey},
         UNCHANGED <<today, boundVars, openBaoSynced, stored, historyVars>>,
         CountInv(p)'
  PROVE  ProxyInv'
<1>1. TypeOK /\ RequestOK(h) /\ StoredOK /\ \A k \in Handlers : RequestOK(k)
  BY DEF ProxyInv
<1>2. /\ grants' \in [Projects -> Grants'] /\ RevokedIsOff'
      /\ grants'[p] = f /\ \A q \in Projects \ {p} : grants'[q] = grants[q]
  BY GrantChanges
<1>3. top \in [Projects -> GrantLimits]
  BY <1>1 DEF TypeOK, GrantLimits
<1>4. /\ at' \in [Handlers -> Stages] /\ req' \in [Handlers -> Requests']
      /\ \A k \in Handlers : at'[k] \in {"check", "charge"} => req'[k].op = "chat"
  BY <1>1, GoesTyped DEF Stages
<1>5. TypeOK'
  BY <1>1, <1>2, <1>4 DEF TypeOK, boundVars, historyVars, Requests, Grants, GrantLimits
<1>6. RequestOK(h)'
  BY <1>1, Goes DEF RequestOK
<1>7. \A k \in Handlers : RequestOK(k)'
  BY <1>1, <1>6, RequestsStay
<1>8. StoredOK'
  BY <1>1 DEF StoredOK
<1>9. ASSUME NEW q \in Projects \ {p} PROVE CountInv(q)'
  <2>1. CountInv(q) /\ grants[q].usedToday \in Nat /\ top[q] \in Nat /\ grants[q].dailyLimit \in Nat
    BY <1>1, Bounds DEF ProxyInv, TypeOK, GrantLimits
  <2>2. InTheGap(q)' \subseteq InTheGap(q)
    BY <1>1, GapStays
  <2>3. grants[q].dailyLimit <= top[q]
    BY <2>1 DEF CountInv
  <2> QED
    BY <1>1, <1>2, <1>3, <2>1, <2>2, <2>3, CountStays
<1>10. ASSUME NEW q \in Projects PROVE CopyInv(q)'
  <2>1. Same(grants'[q], grants[q])
    BY <1>2 DEF Same
  <2> QED
    BY <2>1, OtherCopies DEF historyVars
<1> QED
  BY <1>2, <1>3, <1>5, <1>7, <1>8, <1>9, <1>10 DEF ProxyInv

LEMMA ChecksKeep ==
  ASSUME ProxyInv, NEW h \in Handlers, ChatChecks(h)
  PROVE  ProxyInv'
<1> SUFFICES ASSUME NEW p, p = req[h].project PROVE ProxyInv'
  OBVIOUS
<1> DEFINE g == Rollover(grants[p], req[h].date)
           off == [g EXCEPT !.enabled = FALSE]
           t == IF g.date = grants[p].date THEN top[p] ELSE g.dailyLimit
<1>1. /\ TypeOK /\ RequestOK(h) /\ req[h] \in Requests /\ at[h] = "check" /\ req[h].op = "chat"
      /\ grants \in [Projects -> Grants] /\ top \in [Projects -> GrantLimits] /\ RevokedIsOff
  BY DEF ProxyInv, TypeOK, Requests, ChatChecks, Grants, GrantLimits
<1>2. p \in Projects /\ req[h].date \in 1 .. today
  BY <1>1 DEF RequestOK, Requests, TypeOK
<1>3. /\ g \in Grants /\ Same(g, grants[p]) /\ (g.manualRevoked => ~g.enabled)
      /\ g.date = grants[p].date => g = grants[p]
      /\ g.date # grants[p].date => g.usedToday = 0
  <2>1. grants[p] \in Grants /\ (grants[p].manualRevoked => ~grants[p].enabled)
    BY <1>1, <1>2 DEF RevokedIsOff
  <2>2. /\ g \in Grants /\ Same(g, grants[p])
        /\ (grants[p].manualRevoked => ~grants[p].enabled) => (g.manualRevoked => ~g.enabled)
        /\ g.date = grants[p].date => g = grants[p]
        /\ g.date # grants[p].date => g.usedToday = 0
    BY <1>1, <1>2, <2>1, RolledOver
  <2> QED
    BY <2>1, <2>2
<1>4. /\ UNCHANGED <<today, boundVars, openBaoSynced, stored, historyVars>>
      /\ top' = IF g.date = grants[p].date THEN top ELSE [top EXCEPT ![p] = g.dailyLimit]
  BY DEF ChatChecks
<1>5. \/ \E f \in {g, off} : Refused(h, p, f)
      \/ /\ ~Spent(g) /\ g.enabled
         /\ \/ Charge(h, p, g)
            \/ /\ grants' = [grants EXCEPT ![p] = g] /\ SyncStarts(h, req[h])
               /\ UNCHANGED geminiKey
  BY DEF ChatChecks
<1> HIDE DEF g
<1>6. g.dailyLimit = grants[p].dailyLimit /\ g.dailyLimit \in GrantLimits /\ g.dailyLimit \in Nat
      /\ g.usedToday \in Nat
  BY <1>3, Bounds DEF Grants, Same
<1>7. /\ top' \in [Projects -> GrantLimits] /\ top'[p] = t
      /\ \A q \in Projects \ {p} : top'[q] = top[q]
  BY <1>1, <1>2, <1>4, <1>6
<1>8. CountInv(p) /\ g.dailyLimit <= t /\ top[p] \in Nat /\ t \in Nat
  <2>1. CountInv(p) /\ top[p] \in Nat
    BY <1>1, <1>2, Bounds DEF ProxyInv
  <2>2. grants[p].dailyLimit <= top[p]
    BY <2>1 DEF CountInv
  <2> QED
    BY <1>6, <2>1, <2>2
<1>9. g.date = grants[p].date => t = top[p] /\ g = grants[p]
  BY <1>3
<1> HIDE DEF t
<1>10. h \notin InTheGap(p)
  BY <1>1 DEF InTheGap, SyncStages
\* A refusal, and a charge: nobody is in the gap who was not.
<1>11. ASSUME NEW f \in Grants, grants' = [grants EXCEPT ![p] = f], Same(f, g), Done(h),
              f.manualRevoked => ~f.enabled, geminiKey' \in Keys \union {NoKey},
              \/ f.usedToday = g.usedToday
              \/ f.usedToday = g.usedToday + 1 /\ ~Spent(g)
       PROVE  ProxyInv'
  <2>1. GoesOn(h, "idle", NoRequest) /\ NoRequest \in Requests /\ NoRequest.op # "chat"
    BY <1>1, <1>11, FreshRequest DEF Done
  <2>2. InTheGap(p)' \subseteq InTheGap(p)
    BY <1>1, <2>1, GapStays
  <2>3. InTheGap(p)' # Handlers
    BY <1>10, <2>2
  <2>4. f.dailyLimit = g.dailyLimit /\ f.usedToday \in Nat /\ Same(f, grants[p])
    BY <1>3, <1>11 DEF Grants, Same
  <2>5. grants'[p] = f
    BY <1>1, <1>2, <1>11
  <2>6. CountInv(p)'
    <3>1. CASE f.usedToday = g.usedToday + 1 /\ ~Spent(g)
      <4>1. f.usedToday <= t
        BY <1>6, <1>8, <3>1 DEF Spent
      <4> QED
        BY <1>2, <1>6, <1>7, <1>8, <2>3, <2>4, <2>5, <4>1, CountRoom
    <3>2. CASE f.usedToday = g.usedToday /\ g.date # grants[p].date
      <4>1. f.usedToday <= t
        BY <1>3, <1>8, <3>2
      <4> QED
        BY <1>2, <1>6, <1>7, <1>8, <2>3, <2>4, <2>5, <4>1, CountRoom
    <3>3. CASE f.usedToday = g.usedToday /\ g.date = grants[p].date
      <4>1. /\ grants[p] = g /\ top'[p] = top[p]
        BY <1>7, <1>9, <3>3
      <4> QED
        BY <1>1, <1>2, <1>6, <1>7, <1>8, <2>2, <2>4, <2>5, <3>3, <4>1, CountStays
    <3> QED
      BY <1>11, <3>1, <3>2, <3>3
  <2> QED
    BY <1>1, <1>2, <1>4, <1>7, <1>11, <2>1, <2>4, <2>6, ChatStep
<1>12. CASE \E f \in {g, off} : Refused(h, p, f)
  <2>1. PICK f \in {g, off} : Refused(h, p, f)
    BY <1>12
  <2>2. f \in Grants /\ Same(f, g) /\ (f.manualRevoked => ~f.enabled) /\ f.usedToday = g.usedToday
    BY <1>3 DEF Grants, Same
  <2>3. geminiKey' \in Keys \union {NoKey}
    BY <1>1, <2>1 DEF Refused, TypeOK
  <2> QED
    BY <1>11, <2>1, <2>2, <2>3 DEF Refused
<1>13. CASE ~Spent(g) /\ Charge(h, p, g)
  <2>1. /\ Done(h) /\ geminiKey' \in Keys \union {NoKey}
        /\ \E f \in Grants : /\ grants' = [grants EXCEPT ![p] = f] /\ Same(f, g)
                             /\ f.manualRevoked => ~f.enabled
                             /\ f.usedToday = g.usedToday + 1
    BY <1>1, <1>2, <1>3, <1>13, Charged
  <2> QED
    BY <1>11, <1>13, <2>1
<1>14. CASE /\ ~Spent(g) /\ grants' = [grants EXCEPT ![p] = g] /\ SyncStarts(h, req[h])
            /\ UNCHANGED geminiKey
  <2> DEFINE r == [req[h] EXCEPT !.todo = Projects \union {KeyItem}]
  <2>1. r \in Requests /\ r.op = "chat" /\ r.project = p /\ r.date = req[h].date
    BY <1>1 DEF Requests
  <2>2. GoesOn(h, "login", r)
    BY <1>14 DEF SyncStarts
  <2> HIDE DEF r
  <2>3. geminiKey' \in Keys \union {NoKey}
    BY <1>1, <1>14 DEF TypeOK
  <2>4. CountInv(p)'
    <3>1. g.usedToday + 1 <= t
      BY <1>6, <1>8, <1>14 DEF Spent
    <3> QED
      BY <1>1, <1>2, <1>6, <1>7, <1>8, <1>14, <3>1, CountRoom
  <2> QED
    BY <1>1, <1>2, <1>3, <1>4, <1>7, <1>14, <2>1, <2>2, <2>3, <2>4, ChatStep
<1> QED
  BY <1>5, <1>12, <1>13, <1>14

LEMMA ChargesKeep ==
  ASSUME ProxyInv, NEW h \in Handlers, ChatCharges(h)
  PROVE  ProxyInv'
<1> SUFFICES ASSUME NEW p, p = req[h].project PROVE ProxyInv'
  OBVIOUS
<1>1. /\ TypeOK /\ RequestOK(h) /\ at[h] = "charge" /\ req[h].op = "chat"
      /\ grants \in [Projects -> Grants] /\ top \in [Projects -> GrantLimits] /\ RevokedIsOff
  BY DEF ProxyInv, TypeOK, ChatCharges, Grants, GrantLimits
<1>2. p \in Projects /\ grants[p] \in Grants /\ (grants[p].manualRevoked => ~grants[p].enabled)
  BY <1>1 DEF RequestOK, RevokedIsOff
<1>3. UNCHANGED <<today, boundVars, openBaoSynced, stored, top, historyVars>>
  BY DEF ChatCharges
<1>4. /\ Done(h) /\ geminiKey' \in Keys \union {NoKey}
      /\ \/ UNCHANGED grants
         \/ \E f \in Grants : /\ grants' = [grants EXCEPT ![p] = f] /\ Same(f, grants[p])
                              /\ f.manualRevoked => ~f.enabled
                              /\ f.usedToday = grants[p].usedToday + 1
  <2>1. geminiKey \in Keys \union {NoKey}
    BY <1>1 DEF TypeOK
  <2>2. CASE geminiKey = NoKey
    BY <2>1, <2>2 DEF ChatCharges
  <2>3. CASE geminiKey # NoKey
    BY <1>1, <1>2, <2>3, Charged DEF ChatCharges
  <2> QED
    BY <2>2, <2>3
<1>5. GoesOn(h, "idle", NoRequest) /\ NoRequest \in Requests /\ NoRequest.op # "chat"
  BY <1>1, <1>4, FreshRequest DEF Done
<1>6. CASE UNCHANGED grants
  <2>1. /\ at' \in [Handlers -> Stages] /\ req' \in [Handlers -> Requests']
        /\ \A k \in Handlers : at'[k] \in {"check", "charge"} => req'[k].op = "chat"
    BY <1>1, <1>3, <1>5, GoesTyped DEF Stages
  <2>2. TypeOK'
    BY <1>1, <1>3, <1>4, <1>6, <2>1 DEF TypeOK, boundVars, historyVars, Requests
  <2>3. RequestOK(h)'
    BY <1>1, <1>5, Goes DEF RequestOK
  <2> QED
    BY <1>1, <1>3, <1>5, <1>6, <2>2, <2>3, QuietStep DEF historyVars
<1>7. ASSUME NEW f \in Grants, grants' = [grants EXCEPT ![p] = f], Same(f, grants[p]),
             f.manualRevoked => ~f.enabled, f.usedToday = grants[p].usedToday + 1
      PROVE  ProxyInv'
  <2>1. grants'[p] = f
    BY <1>1, <1>2, <1>7
  <2> DEFINE S == InTheGap(p)
             T == InTheGap(p)'
  <2>2. h \in S /\ S \subseteq Handlers /\ T \subseteq S \ {h}
    <3>1. T \subseteq S
      BY <1>1, <1>5, GapStays
    <3>2. h \notin T
      BY <1>1, <1>5, Goes DEF InTheGap, SyncStages
    <3>3. h \in S
      BY <1>1 DEF InTheGap, SyncStages
    <3>4. S \subseteq Handlers
      BY DEF InTheGap
    <3> HIDE DEF S, T
    <3> QED
      BY <3>1, <3>2, <3>3, <3>4
  <2>3. CountInv(p) /\ top[p] \in Nat /\ grants[p].usedToday \in Nat
    BY <1>1, <1>2, Bounds DEF ProxyInv, Grants
  <2>4. /\ grants[p].dailyLimit <= top[p]
        /\ grants[p].usedToday + Cardinality(S) <= top[p] + Cardinality(Handlers) - 1
    BY <2>3 DEF CountInv
  <2> HIDE DEF S, T
  <2>5. IsFiniteSet(S) /\ Cardinality(S) \in Nat /\ Cardinality(Handlers) \in Nat
    BY <2>2, SizeOfHandlers
  <2>6. IsFiniteSet(S \ {h}) /\ Cardinality(S \ {h}) = Cardinality(S) - 1
    BY <2>2, <2>5, FS_RemoveElement
  <2>7. IsFiniteSet(T) /\ Cardinality(T) <= Cardinality(S) - 1
    BY <2>2, <2>6, FS_Subset
  <2>8. Cardinality(T) \in Nat
    BY <2>7, FS_CardinalityType
  <2>9. f.usedToday + Cardinality(T) <= top[p] + Cardinality(Handlers) - 1
    BY <1>7, <2>3, <2>4, <2>5, <2>7, <2>8
  <2>10. CountInv(p)'
    BY <1>3, <1>7, <2>1, <2>4, <2>9 DEF CountInv, T, Same
  <2> QED
    BY <1>1, <1>2, <1>3, <1>4, <1>5, <1>7, <2>10, ChatStep
<1> QED
  BY <1>4, <1>6, <1>7

-----------------------------------------------------------------------------
(* The operator's requests. *)

\* A change of project p to g.
LEMMA ChangesKeep ==
  ASSUME ProxyInv, NEW h \in Handlers, NEW p \in Projects, NEW op \in {"revoke", "enable", "quota"},
         NEW g \in Grants, Changes(h, p, op, g), g.manualRevoked => ~g.enabled,
         g.usedToday = grants[p].usedToday,
         op = "revoke" => g.manualRevoked,
         op = "quota" => g.manualRevoked = grants[p].manualRevoked,
         op = "enable" => p \notin stopped',
         stopped' \subseteq stopped, \A q \in Projects \ {p} : top'[q] = top[q],
         top' \in [Projects -> GrantLimits], top[p] <= top'[p], g.dailyLimit <= top'[p],
         geminiKey' \in Keys \union {NoKey}
  PROVE  ProxyInv'
<1> DEFINE r == [NoRequest EXCEPT !.op = op, !.project = p, !.copy = StateOf(g)]
<1>1. /\ TypeOK /\ StoredOK /\ \A k \in Handlers : RequestOK(k)
      /\ grants \in [Projects -> Grants] /\ top \in [Projects -> GrantLimits]
  BY DEF ProxyInv, TypeOK, Grants, GrantLimits
<1>2. /\ at[h] = "idle" /\ calls < MaxCalls /\ calls' = calls + 1 /\ GoesOn(h, "persist", r)
      /\ grants' = [grants EXCEPT ![p] = g]
      /\ torn' = IF Writing(p) \union Holding(p) = {} THEN torn ELSE torn \union {p}
      /\ UNCHANGED <<today, fails, starts, openBaoSynced, stored, loaded>>
  BY DEF Changes, Arrives
<1>3. StateOf(g) \in SavedStates /\ StateOf(g).dailyLimit \in GrantLimits /\ Same(StateOf(g), g)
  BY StateSaved
<1>4. /\ r \in Requests /\ r.op = op /\ r.op # "chat" /\ r.project = p /\ r.copy = StateOf(g)
  <2>1. r.op = op /\ r.project = p /\ r.copy = StateOf(g) /\ op \in Ops
    BY DEF NoRequest, Ops
  <2>2. r \in Requests
    BY ONLY FreshRequest, <1>1, <1>3, <2>1, p \in Projects DEF Requests
  <2> QED
    BY <2>1, <2>2
<1> HIDE DEF r
<1>5. calls' \in 0 .. MaxCalls
  BY <1>1, <1>2, ProxyBoundsAssumption DEF TypeOK
<1>6. /\ at' \in [Handlers -> Stages] /\ req' \in [Handlers -> Requests']
      /\ \A k \in Handlers : at'[k] \in {"check", "charge"} => req'[k].op = "chat"
  BY <1>1, <1>2, <1>4, GoesTyped DEF Stages
<1>7. /\ grants' \in [Projects -> Grants'] /\ RevokedIsOff'
      /\ grants'[p] = g /\ \A q \in Projects \ {p} : grants'[q] = grants[q]
  BY <1>2, GrantChanges
<1>8. torn' \subseteq Projects /\ torn \subseteq torn' /\ stopped' \subseteq Projects
  BY <1>1, <1>2 DEF TypeOK
<1>9. TypeOK'
  BY <1>1, <1>2, <1>5, <1>6, <1>7, <1>8 DEF TypeOK, Requests, Grants, GrantLimits
<1>10. /\ at'[h] = "persist" /\ req'[h] = r
       /\ \A k \in Handlers \ {h} : at'[k] = at[k] /\ req'[k] = req[k]
  BY <1>1, <1>2, Goes
<1>11. RequestOK(h)'
  BY <1>3, <1>4, <1>10 DEF RequestOK, Same
<1>12. \A k \in Handlers : RequestOK(k)'
  BY <1>1, <1>2, <1>11, RequestsStay
<1>13. StoredOK'
  BY <1>1, <1>2 DEF StoredOK
<1>14. ASSUME NEW q \in Projects PROVE CountInv(q)'
  <2>1. CountInv(q) /\ grants[q].usedToday \in Nat /\ top[q] \in Nat /\ grants[q].dailyLimit \in Nat
        /\ top'[q] \in Nat
    BY <1>1, Bounds DEF ProxyInv, Grants
  <2>2. InTheGap(q)' \subseteq InTheGap(q)
    BY <1>1, <1>2, <1>4, GapStays
  <2>3. grants[q].dailyLimit <= top[q]
    BY <2>1 DEF CountInv
  <2>4. /\ grants'[q].usedToday = grants[q].usedToday /\ grants'[q].dailyLimit <= top'[q]
        /\ top[q] <= top'[q]
    BY <1>7, <2>1, <2>3
  <2> QED
    BY <1>1, <2>1, <2>2, <2>4, CountStays
<1>15. ASSUME NEW q \in Projects \ {p} PROVE CopyInv(q)'
  <2>1. Same(grants'[q], grants[q])
    BY <1>7 DEF Same
  <2> QED
    BY <1>2, <1>4, <1>8, <2>1, OtherCopies
<1>16. CopyInv(p)'
  <2> SUFFICES ASSUME p \notin torn'
               PROVE  WriterInv(p)' /\ HolderInv(p)' /\ LoadedInv(p)' /\ StopInv(p)'
    BY DEF CopyInv
  <2>1. Writing(p) = {} /\ Holding(p) = {} /\ p \notin torn
    BY <1>2
  <2>2. StopInv(p)
    BY <2>1 DEF ProxyInv, CopyInv
  <2>3. Writing(p)' = {h} /\ Holding(p)' = {}
    BY <1>4, <1>10, <2>1 DEF Writing, Holding
  <2>4. WriterInv(p)'
    BY <1>3, <1>4, <1>7, <1>10, <2>3 DEF WriterInv
  <2>5. HolderInv(p)' /\ LoadedInv(p)'
    BY <2>3 DEF HolderInv, LoadedInv
  <2>6. StopInv(p)'
    BY <1>2, <1>4, <1>7, <1>10, <2>2, <2>3 DEF StopInv
  <2> QED
    BY <2>4, <2>5, <2>6
<1> QED
  BY <1>7, <1>9, <1>12, <1>13, <1>14, <1>15, <1>16 DEF ProxyInv

LEMMA OperatorKeeps ==
  ASSUME ProxyInv, NEW h \in Handlers, NEW p \in Projects,
         Revoke(h, p) \/ Enable(h, p) \/ \E l \in Limits : Quota(h, p, l)
  PROVE  ProxyInv'
<1>1. /\ TypeOK /\ CountInv(p) /\ RevokedIsOff /\ geminiKey \in Keys \union {NoKey}
      /\ grants \in [Projects -> Grants] /\ top \in [Projects -> GrantLimits]
      /\ grants[p].dailyLimit <= top[p]
  BY DEF ProxyInv, TypeOK, Grants, GrantLimits, CountInv
<1>2. grants[p] \in Grants /\ top[p] \in Nat /\ top[p] \in GrantLimits /\ top[p] <= top[p]
  <2>1. grants[p] \in Grants /\ top[p] \in GrantLimits
    BY <1>1
  <2>2. top[p] \in Nat
    BY <2>1, Bounds
  <2> QED
    BY <2>1, <2>2
<1>3. CASE Revoke(h, p)
  <2> DEFINE g == Revoked(grants[p])
  <2>1. /\ g \in Grants /\ g.manualRevoked /\ ~g.enabled /\ g.usedToday = grants[p].usedToday
        /\ g.dailyLimit = grants[p].dailyLimit
    BY <1>2 DEF Revoked, Grants
  <2>2. Changes(h, p, "revoke", g) /\ geminiKey' \in Keys \union {NoKey} /\ UNCHANGED <<top, stopped>>
    BY <1>1, <1>3, KeyWipedTyped DEF Revoke
  <2> HIDE DEF g
  <2> QED
    BY <1>1, <1>2, <2>1, <2>2, ChangesKeep
<1>4. CASE Enable(h, p)
  <2> DEFINE g == [grants[p] EXCEPT !.enabled = TRUE, !.manualRevoked = FALSE]
  <2>1. /\ g \in Grants /\ ~g.manualRevoked /\ g.usedToday = grants[p].usedToday
        /\ g.dailyLimit = grants[p].dailyLimit
    BY <1>2 DEF Grants
  <2>2. Changes(h, p, "enable", g) /\ stopped' = stopped \ {p} /\ UNCHANGED <<geminiKey, top>>
    BY <1>4 DEF Enable
  <2> HIDE DEF g
  <2> QED
    BY <1>1, <1>2, <2>1, <2>2, ChangesKeep
<1>5. ASSUME NEW l \in Limits, Quota(h, p, l) PROVE ProxyInv'
  <2> DEFINE g0 == [grants[p] EXCEPT !.dailyLimit = l]
             on == ~g0.manualRevoked /\ ~Spent(g0)
             g == [g0 EXCEPT !.enabled = on]
             t == Highest(top[p], l)
  <2>1. /\ g0 \in Grants /\ g0.manualRevoked = grants[p].manualRevoked /\ g0.dailyLimit = l
        /\ g0.usedToday = grants[p].usedToday
    BY <1>2 DEF Grants, GrantLimits
  <2>2. /\ Changes(h, p, "quota", g) /\ geminiKey' \in Keys \union {NoKey} /\ UNCHANGED stopped
        /\ top' = [top EXCEPT ![p] = t]
    BY <1>1, <1>5, KeyWipedTyped DEF Quota
  <2>3. on \in BOOLEAN /\ (on => ~g0.manualRevoked)
    BY <2>1 DEF Spent, Grants
  <2> HIDE DEF g0, on
  <2>4. /\ g \in Grants /\ g.enabled = on /\ g.manualRevoked = grants[p].manualRevoked
        /\ g.dailyLimit = l /\ g.usedToday = grants[p].usedToday
    BY <2>1, <2>3 DEF Grants
  <2>5. g.manualRevoked => ~g.enabled
    BY <2>1, <2>3, <2>4
  <2> HIDE DEF g
  <2>6. l \in Nat /\ l \in GrantLimits
    BY Bounds DEF GrantLimits
  <2>7. t \in GrantLimits /\ top[p] <= t /\ l <= t
    BY <1>2, <2>6 DEF Highest
  <2> HIDE DEF t
  <2>8. /\ top' \in [Projects -> GrantLimits] /\ top'[p] = t
        /\ \A q \in Projects \ {p} : top'[q] = top[q]
    BY <1>1, <2>2, <2>7
  <2> QED
    BY <1>1, <2>2, <2>4, <2>5, <2>7, <2>8, ChangesKeep
<1> QED
  BY <1>3, <1>4, <1>5

\* The write of the copy: it succeeds, or the project is torn.
LEMMA PersistKeeps ==
  ASSUME ProxyInv, NEW h \in Handlers, Persist(h)
  PROVE  ProxyInv'
<1> SUFFICES ASSUME NEW p, p = req[h].project PROVE ProxyInv'
  OBVIOUS
<1>1. /\ TypeOK /\ RequestOK(h) /\ req[h] \in Requests /\ at[h] = "persist" /\ StoredOK /\ RevokedIsOff
      /\ \A k \in Handlers : RequestOK(k)
  BY DEF ProxyInv, TypeOK, Persist, Requests
<1>2. /\ p \in Projects /\ req[h].copy \in SavedStates /\ req[h].copy.dailyLimit \in GrantLimits
      /\ req[h].op \in {"revoke", "enable", "quota"}
      /\ req[h].op = "revoke" => req[h].copy.manualRevoked
  BY <1>1 DEF RequestOK, Requests
<1>3. UNCHANGED <<today, calls, starts, memoryVars>>
  BY DEF Persist
<1>4. PICK stage \in {"idle", "login"}, r \in Requests :
        GoesOn(h, stage, r) /\ r.op # "chat"
  <2>1. CASE SyncStarts(h, req[h])
    <3>1. /\ [req[h] EXCEPT !.todo = Projects \union {KeyItem}] \in Requests
          /\ [req[h] EXCEPT !.todo = Projects \union {KeyItem}].op = req[h].op
      BY <1>1 DEF Requests
    <3> QED
      BY <1>2, <2>1, <3>1 DEF SyncStarts
  <2>2. CASE Done(h)
    BY <1>1, <2>2, FreshRequest DEF Done
  <2> QED
    BY <2>1, <2>2 DEF Persist, AfterPersist
<1>5. \/ /\ stored' = [stored EXCEPT !.states[p] = req[h].copy]
         /\ loaded' = loaded \union {p}
         /\ stopped' = CASE req[h].op = "revoke" -> stopped \union {p}
                         [] req[h].op = "quota" /\ p \notin loaded -> stopped \ {p}
                         [] OTHER -> stopped
         /\ UNCHANGED <<fails, torn>>
      \/ /\ fails < MaxFails /\ fails' = fails + 1
         /\ torn' = torn \union {p}
         /\ UNCHANGED <<stored, loaded, stopped>>
  BY DEF Persist
<1>6. fails' \in 0 .. MaxFails
  BY <1>1, <1>5, FailsCounted
<1>7. /\ at' \in [Handlers -> Stages] /\ req' \in [Handlers -> Requests']
      /\ \A k \in Handlers : at'[k] \in {"check", "charge"} => req'[k].op = "chat"
  BY <1>1, <1>3, <1>4, GoesTyped DEF Stages
<1>8. RequestOK(h)'
  BY <1>1, <1>4, Goes DEF RequestOK
<1>9. \A k \in Handlers : RequestOK(k)'
  BY <1>1, <1>4, <1>8, RequestsStay
<1>10. RevokedIsOff' /\ \A q \in Projects : grants'[q] = grants[q] /\ Same(grants'[q], grants[q])
  BY <1>1, <1>3 DEF RevokedIsOff, memoryVars, Same
<1>11. ASSUME NEW q \in Projects PROVE CountInv(q)'
  BY <1>3, <1>4, CountsStay DEF memoryVars
<1>12. /\ at'[h] = stage /\ \A k \in Handlers \ {h} : at'[k] = at[k] /\ req'[k] = req[k]
  BY <1>1, <1>4, Goes
<1>13. CASE /\ fails < MaxFails /\ fails' = fails + 1
            /\ torn' = torn \union {p}
            /\ UNCHANGED <<stored, loaded, stopped>>
  <2>1. TypeOK'
    BY <1>1, <1>2, <1>3, <1>6, <1>7, <1>13 DEF TypeOK, memoryVars, Requests
  <2>2. StoredOK'
    BY <1>1, <1>13 DEF StoredOK
  <2>3. ASSUME NEW q \in Projects PROVE CopyInv(q)'
    <3>1. CASE q = p
      BY <1>13, <3>1 DEF CopyInv
    <3>2. CASE q # p
      BY <1>4, <1>10, <1>13, <3>2, OtherCopies
    <3> QED
      BY <3>1, <3>2
  <2> QED
    BY <1>9, <1>10, <1>11, <2>1, <2>2, <2>3 DEF ProxyInv
<1>14. CASE /\ stored' = [stored EXCEPT !.states[p] = req[h].copy]
            /\ loaded' = loaded \union {p}
            /\ stopped' = CASE req[h].op = "revoke" -> stopped \union {p}
                            [] req[h].op = "quota" /\ p \notin loaded -> stopped \ {p}
                            [] OTHER -> stopped
            /\ UNCHANGED <<fails, torn>>
  <2>1. /\ stored' \in [key : Keys \union {NoKey}, states : [Projects -> SavedStates]]
        /\ stored'.states[p] = req[h].copy
        /\ \A q \in Projects \ {p} : stored'.states[q] = stored.states[q]
    <3>1. stored \in [key : Keys \union {NoKey}, states : [Projects -> SavedStates]]
      BY <1>1 DEF TypeOK
    <3> QED
      BY <1>2, <1>14, <3>1
  <2>2. \/ req[h].op = "revoke" /\ stopped' = stopped \union {p}
        \/ req[h].op = "quota" /\ p \notin loaded /\ stopped' = stopped \ {p}
        \/ req[h].op = "enable" /\ stopped' = stopped
        \/ req[h].op = "quota" /\ p \in loaded /\ stopped' = stopped
    BY <1>2, <1>14
  <2>3. stopped' \subseteq Projects /\ loaded' \subseteq Projects
        /\ \A q \in Projects \ {p} : (q \in stopped' => q \in stopped) /\ (q \in loaded' => q \in loaded)
    BY <1>1, <1>2, <1>14, <2>2 DEF TypeOK
  <2>4. TypeOK'
    BY <1>1, <1>3, <1>6, <1>7, <1>14, <2>1, <2>3 DEF TypeOK, memoryVars, Requests
  <2>5. StoredOK'
    BY <1>1, <1>2, <2>1 DEF StoredOK
  <2>6. ASSUME NEW q \in Projects \ {p} PROVE CopyInv(q)'
    BY <1>4, <1>10, <1>14, <2>1, <2>3, OtherCopies
  <2>7. CopyInv(p)'
    <3> SUFFICES ASSUME p \notin torn'
                 PROVE  WriterInv(p)' /\ HolderInv(p)' /\ LoadedInv(p)' /\ StopInv(p)'
      BY DEF CopyInv
    <3>1. WriterInv(p) /\ StopInv(p)
      BY <1>2, <1>14 DEF ProxyInv, CopyInv
    <3>2. h \in Writing(p)
      BY <1>1 DEF Writing
    <3>3. Same(req[h].copy, grants[p]) /\ Writing(p) = {h} /\ Holding(p) = {}
      BY <3>1, <3>2 DEF WriterInv
    <3>4. Writing(p)' = {} /\ Holding(p)' = {}
      BY <1>12, <3>3 DEF Writing, Holding
    <3>5. WriterInv(p)' /\ HolderInv(p)'
      BY <3>4 DEF WriterInv, HolderInv
    <3>6. LoadedInv(p)'
      BY <1>2, <1>10, <2>1, <3>3 DEF LoadedInv, Same
    <3>7. StopInv(p)'
      <4>1. SUFFICES ASSUME p \in stopped' PROVE req[h].copy.manualRevoked
        BY <1>2, <1>10, <2>1, <3>3, <3>4 DEF StopInv, Same
      <4>2. CASE req[h].op = "revoke"
        BY <1>2, <4>2
      <4>3. CASE req[h].op # "revoke"
        <5>1. p \in stopped /\ req[h].op # "enable" /\ p \in loaded
          BY <2>2, <3>1, <3>2, <4>1, <4>3 DEF StopInv
        <5> QED
          BY <3>1, <3>3, <5>1 DEF StopInv, Same
      <4> QED
        BY <4>2, <4>3
    <3> QED
      BY <3>5, <3>6, <3>7
  <2> QED
    BY <1>9, <1>10, <1>11, <2>4, <2>5, <2>6, <2>7 DEF ProxyInv
<1> QED
  BY <1>5, <1>13, <1>14

-----------------------------------------------------------------------------
(* A new process, and a new day. *)

LEMMA NewGrants ==
  ASSUME TypeOK
  PROVE  /\ NewGrant \in Grants /\ ~NewGrant.manualRevoked /\ NewGrant.usedToday = 0
         /\ NewGrant.dailyLimit = DefaultLimit
BY Bounds DEF TypeOK, NewGrant, Grants, GrantLimits

LEMMA RestartKeeps ==
  ASSUME ProxyInv, Restart
  PROVE  ProxyInv'
<1>1. TypeOK /\ StoredOK
  BY DEF ProxyInv
<1>2. /\ starts < MaxStarts /\ starts' = starts + 1
      /\ grants' = [p \in Projects |-> NewGrant]
      /\ geminiKey' = NoKey /\ openBaoSynced' = FALSE
      /\ at' = [h \in Handlers |-> "idle"] /\ req' = [h \in Handlers |-> NoRequest]
      /\ top' = [p \in Projects |-> DefaultLimit]
      /\ loaded' = {} /\ torn' = {} /\ stopped' = stopped \ torn
      /\ UNCHANGED <<today, calls, fails, stored>>
  BY DEF Restart
<1>3. starts' \in 0 .. MaxStarts
  BY <1>1, <1>2, ProxyBoundsAssumption DEF TypeOK
<1>4. Grants' = Grants /\ Requests' = Requests
  BY <1>2 DEF Grants, Requests
<1>5. grants' \in [Projects -> Grants'] /\ req' \in [Handlers -> Requests'] /\ at' \in [Handlers -> Stages]
  BY <1>1, <1>2, <1>4, NewGrants, FreshRequest DEF Stages
<1>6. \A h \in Handlers : at'[h] = "idle" /\ req'[h].op = "none"
  BY <1>1, <1>2, FreshRequest
<1>7. TypeOK'
  <2>1. top' \in [Projects -> GrantLimits]
    BY <1>2, Bounds
  <2> QED
    BY <1>1, <1>2, <1>3, <1>5, <1>6, <2>1 DEF TypeOK, Grants, Requests, GrantLimits
<1>8. \A h \in Handlers : RequestOK(h)'
  BY <1>6 DEF RequestOK
<1>9. StoredOK' /\ RevokedIsOff'
  BY <1>1, <1>2, NewGrants DEF StoredOK, RevokedIsOff
<1>10. ASSUME NEW p \in Projects PROVE CountInv(p)'
  <2>1. InTheGap(p)' # Handlers
    BY <1>6, ProxyAssumption DEF InTheGap
  <2>2. grants'[p] = NewGrant /\ top'[p] = DefaultLimit
    BY <1>2
  <2>3. DefaultLimit \in Nat /\ 0 <= DefaultLimit /\ DefaultLimit <= DefaultLimit
    BY Bounds
  <2> QED
    BY <1>1, <2>1, <2>2, <2>3, NewGrants, CountRoom
<1>11. ASSUME NEW p \in Projects PROVE CopyInv(p)'
  <2>1. Writing(p)' = {} /\ Holding(p)' = {}
    BY <1>6 DEF Writing, Holding
  <2>2. WriterInv(p)' /\ HolderInv(p)' /\ LoadedInv(p)'
    BY <1>2, <2>1 DEF WriterInv, HolderInv, LoadedInv
  <2>3. StopInv(p)'
    <3>1. CASE p \in torn
      BY <1>2, <3>1 DEF StopInv
    <3>2. CASE p \notin torn
      <4>1. StopInv(p)
        BY <3>2 DEF ProxyInv, CopyInv
      <4> QED
        BY <1>2, <2>1, <4>1 DEF StopInv
    <3> QED
      BY <3>1, <3>2
  <2> QED
    BY <2>2, <2>3 DEF CopyInv
<1> QED
  BY <1>7, <1>8, <1>9, <1>10, <1>11 DEF ProxyInv

LEMMA DayKeeps ==
  ASSUME ProxyInv, NextDay
  PROVE  ProxyInv'
<1>1. TypeOK
  BY DEF ProxyInv
<1>2. /\ today < MaxDay /\ today' = today + 1
      /\ UNCHANGED <<boundVars, memoryVars, stored, at, req, historyVars>>
  BY DEF NextDay
<1>3. today' \in 1 .. MaxDay /\ 1 .. today \subseteq 1 .. today' /\ 0 .. today \subseteq 0 .. today'
  BY <1>1, <1>2, ProxyBoundsAssumption DEF TypeOK
<1>4. Grants \subseteq Grants' /\ Requests \subseteq Requests'
  BY <1>3 DEF Grants, Requests
<1>5. grants' \in [Projects -> Grants'] /\ req' \in [Handlers -> Requests']
  <2>1. grants \in [Projects -> Grants] /\ req \in [Handlers -> Requests]
    BY <1>1 DEF TypeOK, Grants, GrantLimits, Requests
  <2> QED
    BY <1>2, <1>4, <2>1 DEF memoryVars
<1>6. TypeOK'
  BY <1>1, <1>2, <1>3, <1>5 DEF TypeOK, boundVars, memoryVars, historyVars, Grants, GrantLimits, Requests
<1>7. (\A h \in Handlers : RequestOK(h)') /\ StoredOK' /\ RevokedIsOff'
  BY <1>2 DEF ProxyInv, RequestOK, StoredOK, RevokedIsOff, memoryVars
<1>8. \A p \in Projects : CountInv(p)'
  BY <1>2 DEF ProxyInv, CountInv, InTheGap, memoryVars
<1>9. \A p \in Projects : CopyInv(p)'
  <2>1. ASSUME NEW p \in Projects PROVE CopyInv(p)'
    <3>1. /\ Writing(p)' = Writing(p) /\ \A k \in Writing(p) : req'[k] = req[k]
          /\ \A k \in Holding(p)' : k \in Holding(p) /\ req'[k] = req[k]
      BY <1>2 DEF Writing, Holding
    <3>2. CopyInv(p) /\ stored'.states[p] = stored.states[p] /\ Same(grants'[p], grants[p])
      BY <1>2 DEF ProxyInv, Same, memoryVars
    <3> QED
      BY <1>2, <3>1, <3>2, CopyStays DEF historyVars
  <2> QED
    BY <2>1
<1> QED
  BY <1>6, <1>7, <1>8, <1>9 DEF ProxyInv

-----------------------------------------------------------------------------
(* The theorems. *)

LEMMA ProxyInit == Init => ProxyInv
<1> SUFFICES ASSUME Init PROVE ProxyInv
  OBVIOUS
<1> DEFINE empty == [p \in Projects |-> NoState]
<1>1. PICK k \in Keys \union {NoKey} : stored = [key |-> k, states |-> empty]
  BY DEF Init
<1>2. /\ today = 1 /\ calls = 0 /\ fails = 0 /\ starts = 0
      /\ grants = [p \in Projects |-> NewGrant]
      /\ geminiKey = NoKey /\ openBaoSynced = FALSE
      /\ at = [h \in Handlers |-> "idle"] /\ req = [h \in Handlers |-> NoRequest]
      /\ top = [p \in Projects |-> DefaultLimit]
      /\ loaded = {} /\ torn = {} /\ stopped = {}
  BY DEF Init
<1>3. NoState \in SavedStates
  BY DEF NoState, SavedStates
<1>4. NewGrant \in Grants /\ ~NewGrant.manualRevoked /\ NewGrant.usedToday = 0
      /\ NewGrant.dailyLimit = DefaultLimit
  BY <1>2, Bounds DEF NewGrant, Grants
<1>5. NoRequest \in Requests /\ NoRequest.op = "none"
  BY <1>2, <1>3 DEF NoRequest, Requests, Ops
<1>6. /\ stored \in [key : Keys \union {NoKey}, states : [Projects -> SavedStates]]
      /\ \A p \in Projects : stored.states[p] = NoState
  BY <1>1, <1>3
<1>7. \A h \in Handlers : at[h] = "idle" /\ req[h].op = "none"
  BY <1>2, <1>5
<1>8. /\ today \in 1 .. MaxDay /\ calls \in 0 .. MaxCalls /\ fails \in 0 .. MaxFails
      /\ starts \in 0 .. MaxStarts
  BY <1>2, ProxyBoundsAssumption
<1>9. /\ grants \in [Projects -> Grants] /\ req \in [Handlers -> Requests]
      /\ at \in [Handlers -> Stages] /\ top \in [Projects -> GrantLimits]
  BY <1>2, <1>4, <1>5, Bounds DEF Stages
<1>10. TypeOK
  BY <1>2, <1>6, <1>7, <1>8, <1>9 DEF TypeOK, Grants, GrantLimits, Requests
<1>11. \A h \in Handlers : RequestOK(h)
  BY <1>7 DEF RequestOK
<1>12. StoredOK /\ RevokedIsOff
  BY <1>2, <1>4, <1>6 DEF StoredOK, RevokedIsOff
<1>13. ASSUME NEW p \in Projects PROVE CountInv(p)
  <2>1. InTheGap(p) = {}
    BY <1>7 DEF InTheGap
  <2>2. grants[p] = NewGrant /\ top[p] = DefaultLimit
    BY <1>2
  <2>3. Cardinality(InTheGap(p)) = 0
    BY <2>1, FS_EmptySet
  <2>4. Cardinality(Handlers) \in Nat /\ Cardinality(Handlers) >= 1
    BY SizeOfHandlers
  <2> QED
    BY <1>4, <2>2, <2>3, <2>4, Bounds DEF CountInv
<1>14. ASSUME NEW p \in Projects PROVE CopyInv(p)
  BY <1>2, <1>7 DEF CopyInv, WriterInv, HolderInv, LoadedInv, StopInv, Writing, Holding
<1> QED
  BY <1>10, <1>11, <1>12, <1>13, <1>14 DEF ProxyInv

LEMMA ProxyStep == ProxyInv /\ [Next]_vars => ProxyInv'
<1> SUFFICES ASSUME ProxyInv, [Next]_vars PROVE ProxyInv'
  OBVIOUS
<1>1. CASE UNCHANGED vars
  <2>1. UNCHANGED <<today, boundVars, memoryVars, stored, at, req, historyVars>>
    BY <1>1 DEF vars
  <2> QED
    BY <2>1 DEF boundVars, memoryVars, historyVars, ProxyInv, TypeOK, RequestOK, StoredOK, RevokedIsOff,
       CountInv, InTheGap, CopyInv, WriterInv, HolderInv, LoadedInv, StopInv, Writing, Holding, Same
<1>2. ASSUME NEW h \in Handlers, Chat(h) PROVE ProxyInv'
  BY <1>2, ArrivalKeeps, ChecksKeep, ChargesKeep DEF Chat
<1>3. ASSUME NEW h \in Handlers, Admin(h) PROVE ProxyInv'
  BY <1>3, OperatorKeeps, PersistKeeps, ArrivalKeeps, KeyKeeps DEF Admin
<1>4. ASSUME NEW h \in Handlers, Sync(h) PROVE ProxyInv'
  BY <1>4, ArrivalKeeps, SyncGoesOnKeeps, ReadsKeeps, AppliesKeeps DEF Sync
<1> QED
  BY <1>1, <1>2, <1>3, <1>4, RestartKeeps, DayKeeps DEF Next

LEMMA ProxyInvariant == Spec => []ProxyInv
BY ProxyInit, ProxyStep, PTL DEF Spec

\* Grants, requests, and what OpenBao holds keep their types through every
\* interleaving of the handlers (services/vault-proxies/cmd/ai-proxy/main.go).
THEOREM ProxyTyped == Spec => []TypeOK
<1>1. ProxyInv => TypeOK
  BY DEF ProxyInv
<1> QED
  BY <1>1, ProxyInvariant, PTL

\* A revoked project is off, whatever rolls over, syncs or changes its quota
\* (main.go:422).
THEOREM RevokedStaysOff == Spec => []RevokedIsOff
<1>1. ProxyInv => RevokedIsOff
  BY DEF ProxyInv
<1> QED
  BY <1>1, ProxyInvariant, PTL

\* However many requests pass the check before one of them is counted, a day's
\* requests exceed its highest limit by less than the requests in progress
\* (handleChatCompletions, main.go:450-479).
THEOREM OvershootHasABound == Spec => []OvershootIsBounded
<1>1. ProxyInv => OvershootIsBounded
  BY DEF ProxyInv, CountInv, OvershootIsBounded
<1> QED
  BY <1>1, ProxyInvariant, PTL

\* The switch and the limit in memory are those in OpenBao once nobody is busy
\* with the project, but for the torn ones (persistProjectStateToOpenBao,
\* syncFromOpenBao).
THEOREM MemoryMatchesOpenBao == Spec => []MemoryIsStored
<1>1. ProxyInv => MemoryIsStored
  <2> SUFFICES ASSUME ProxyInv, NEW p \in loaded \ torn, Writing(p) \union Holding(p) = {}
               PROVE  Same(stored.states[p], grants[p])
    BY DEF MemoryIsStored, Same
  <2>1. p \in Projects
    BY DEF ProxyInv, TypeOK
  <2> QED
    BY <2>1 DEF ProxyInv, CopyInv, LoadedInv
<1> QED
  BY <1>1, ProxyInvariant, PTL

\* A stop the operator was told of outlives the process and the day, until the
\* project is enabled, but for the torn projects and a stop that a quota changed
\* before the startup sync took back in OpenBao (handleAdminRevoke, syncFromOpenBao).
THEOREM StopsOutliveTheProcess == Spec => []StopLasts
<1>1. ProxyInv => StopLasts
  <2> SUFFICES ASSUME ProxyInv, NEW p \in (stopped \intersect loaded) \ torn
               PROVE  grants[p].manualRevoked
    BY DEF StopLasts
  <2>1. p \in Projects
    BY DEF ProxyInv, TypeOK
  <2> QED
    BY <2>1 DEF ProxyInv, CopyInv, StopInv
<1> QED
  BY <1>1, ProxyInvariant, PTL
=============================================================================
