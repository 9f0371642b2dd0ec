------------------------ MODULE ClientManagerProofs ------------------------
(***************************************************************************)
(* Proofs about modules ClientManager and HotReload, for any keys,         *)
(* lineages and bounds: the types and the registry for any caller, the     *)
(* rest of the manager for disciplined callers, and then the program whose *)
(* caller is main and its reload.                                          *)
(***************************************************************************)
EXTENDS HotReload, FiniteSetTheorems, TLAPS

-----------------------------------------------------------------------------
(* Calls.                                                                  *)

LEMMA CallFields ==
    ASSUME NEW c \in Call
    PROVE  /\ c.op \in {"add", "connect", "close", "reload", "clear", "run"}
           /\ c.op = "add" => c.key \in Key /\ c.info \in Info
           /\ c.op = "connect" => c.key \in Key /\ c.type \in EventType
           /\ c.op = "close" => c.key \in Key
           /\ c.op = "reload" => c.params \in Seq(AddCall)
  BY DEF Call, AddCall, ConnectCall, CloseCall, ReloadCall

LEMMA CallConstructors ==
    /\ \A k \in Key, t \in EventType :
          [op |-> "connect", key |-> k, type |-> t] \in Call
    /\ \A k \in Key : [op |-> "close", key |-> k] \in Call
    /\ [op |-> "clear"] \in Call
    /\ AddCall \subseteq Call
  BY DEF Call, AddCall, ConnectCall, CloseCall, ReloadCall

LEMMA InfoFields ==
    /\ DefaultInfo \in Info
    /\ \A i \in Info : i.auto \in BOOLEAN /\ i.type \in EventType
    /\ \A i \in Info : [i EXCEPT !.auto = FALSE] \in Info
    /\ None \notin Info /\ None \notin Lineage /\ None \notin Key
    /\ None \notin EventType
  BY ConstantsAssumption DEF Info, DefaultInfo

LEMMA ConcatCalls ==
    ASSUME NEW a \in Seq(Call), NEW c \in Call, NEW p \in Seq(Call),
           NEW t \in Seq(Call)
    PROVE  a \o <<c>> \o p \o t \in Seq(Call)
  OBVIOUS

\* The current call.
LEMMA CurrentCall ==
    ASSUME script \in Seq(Call), NEW op, Calling(op)
    PROVE  /\ script # <<>>
           /\ Head(script) \in Call
           /\ Head(script).op = op
           /\ Tail(script) \in Seq(Call)
  BY DEF Calling

-----------------------------------------------------------------------------
(* Types.                                                                  *)

LEMMA TypeInit == Init => TypeOK
<1> SUFFICES ASSUME Init PROVE TypeOK
  OBVIOUS
<1>1. script \in Seq(Call)
  BY ConstantsAssumption DEF Init
<1>2. /\ conn_infos_ \in [Key -> Info \cup {None}]
      /\ connections_ \in [Key -> Lineage \cup {None}]
      /\ phase \in [Lineage -> Phase]
      /\ lkey \in [Lineage -> Key \cup {None}]
      /\ ltype \in [Lineage -> EventType \cup {None}]
  BY DEF Init, Phase
<1>3. /\ need \in [Lineage -> BOOLEAN]
      /\ snap \in [Lineage -> Info \cup {None}]
      /\ strand \in [Lineage -> Seq({"push", "close"})]
      /\ busy \in [Lineage -> BOOLEAN]
      /\ aborted \in BOOLEAN
  <2>1. <<>> \in Seq({"push", "close"})
    OBVIOUS
  <2>2. strand \in [Lineage -> Seq({"push", "close"})]
    BY <2>1 DEF Init
  <2>3. need \in [Lineage -> BOOLEAN] /\ busy \in [Lineage -> BOOLEAN]
    BY Zenon DEF Init
  <2>4. snap \in [Lineage -> Info \cup {None}] /\ aborted \in BOOLEAN
    BY DEF Init
  <2>5. QED
    BY <2>2, <2>3, <2>4
<1>4. \A l \in Lineage :
          /\ phase[l] = "idle" /\ lkey[l] = None /\ ltype[l] = None
          /\ snap[l] = None
          /\ strand[l] = <<>> /\ busy[l] = FALSE
  BY DEF Init
<1>5. QED
  BY <1>1, <1>2, <1>3, <1>4, Zenon DEF TypeOK

\* The phases of the lineages that a step touches only by dropping references.
LEMMA AdvanceType ==
    ASSUME TypeOK, NEW l \in Lineage, NEW p \in Phase, Advance(l, p)
    PROVE  /\ phase' \in [Lineage -> Phase]
           /\ phase'[l] = p
           /\ \A m \in Lineage \ {l} :
                 \/ phase'[m] = phase[m]
                 \/ /\ phase[m] = "open" /\ phase'[m] = "done"
                    /\ Destroyed(m)
  BY DEF Advance, Destroyed, TypeOK, Phase

LEMMA DoConnectType ==
    ASSUME TypeOK, NEW l \in Lineage, NEW k \in Key, NEW t \in EventType,
           DoConnect(l, k, t), phase[l] \in {"idle", "backoff"},
           script' \in Seq(Call),
           UNCHANGED <<connections_, need, snap, strand, busy>>
    PROVE  TypeOK'
<1>1. conn_infos_' \in [Key -> Info \cup {None}]
  BY InfoFields DEF DoConnect, TypeOK
<1>2. /\ aborted' \in BOOLEAN
      /\ phase' \in [Lineage -> Phase]
      /\ lkey' \in [Lineage -> Key \cup {None}]
      /\ ltype' \in [Lineage -> EventType \cup {None}]
  BY DEF DoConnect, TypeOK, Phase
<1>3. /\ lkey'[l] = k /\ ltype'[l] = t /\ phase'[l] \in {"connecting", "done"}
      /\ \A m \in Lineage \ {l} : /\ lkey'[m] = lkey[m] /\ ltype'[m] = ltype[m]
                                  /\ phase'[m] = phase[m]
  BY DEF DoConnect, TypeOK
<1>4. \A m \in Lineage :
          /\ phase'[m] # "idle" <=> lkey'[m] # None
          /\ ltype'[m] # None <=> lkey'[m] # None
          /\ phase'[m] = "erased" <=> snap'[m] # None
          /\ (strand'[m] # <<>> \/ busy'[m]) => phase'[m] = "open"
  BY <1>3, InfoFields DEF TypeOK
<1>5. QED
  BY <1>1, <1>2, <1>4 DEF TypeOK

LEMMA PostType ==
    ASSUME TypeOK, NEW ls, NEW r \in {"push", "close"}, Post(ls, r)
    PROVE  /\ strand' \in [Lineage -> Seq({"push", "close"})]
           /\ \A l \in Lineage :
                 phase[l] # "open" => strand'[l] = strand[l]
  BY DEF Post, TypeOK

LEMMA CallerType == TypeOK /\ Caller => TypeOK'
<1> SUFFICES ASSUME TypeOK, Caller
             PROVE  TypeOK'
  OBVIOUS
<1>0. script \in Seq(Call)
  BY DEF TypeOK
<1>1. CASE StartThreads
  BY <1>0, <1>1, CurrentCall DEF StartThreads, TypeOK, lineageVars
<1>2. CASE AddConnection
  <2>1. Head(script).key \in Key /\ Head(script).info \in Info
        /\ Tail(script) \in Seq(Call)
    BY <1>0, <1>2, CurrentCall, CallFields DEF AddConnection
  <2>2. script' \in Seq(Call)
    BY <1>2, <2>1, CallConstructors, InfoFields DEF AddConnection
  <2>3. conn_infos_' \in [Key -> Info \cup {None}]
    BY <1>2, <2>1 DEF AddConnection, TypeOK
  <2>4. QED
    BY <1>2, <2>2, <2>3 DEF AddConnection, TypeOK, lineageVars
<1>3. ASSUME NEW l \in Lineage, Connect(l)
      PROVE  TypeOK'
  BY <1>0, <1>3, CurrentCall, CallFields, DoConnectType DEF Connect
<1>4. CASE CloseConnection
  <2> DEFINE k == Head(script).key
  <2>1. k \in Key /\ script' \in Seq(Call)
    BY <1>0, <1>4, CurrentCall, CallFields DEF CloseConnection
  <2>2. conn_infos_' \in [Key -> Info \cup {None}]
    <3>1. conn_infos_[k] # None => conn_infos_[k] \in Info
      BY <2>1 DEF TypeOK
    <3>2. conn_infos_[k] # None => [conn_infos_[k] EXCEPT !.auto = FALSE] \in Info
      BY <3>1, InfoFields
    <3>3. QED
      BY <1>4, <2>1, <3>2 DEF CloseConnection, TypeOK
  <2>3. /\ strand' \in [Lineage -> Seq({"push", "close"})]
        /\ \A l \in Lineage : phase[l] # "open" => strand'[l] = strand[l]
    BY <1>4, PostType DEF CloseConnection
  <2>4. UNCHANGED <<connections_, phase, lkey, ltype, need, snap, busy, aborted>>
    BY <1>4 DEF CloseConnection, lineageVars
  <2>5. QED
    BY <2>1, <2>2, <2>3, <2>4 DEF TypeOK
<1>5. CASE ReloadConnections
  <2> DEFINE keys == {k \in Key : connections_[k] # None}
             n == Cardinality(keys)
  <2>1. PICK order \in [1..n -> keys] :
            script' = [i \in 1..n |-> [op |-> "close", key |-> order[i]]]
                         \o <<[op |-> "clear"]>>
                         \o Head(script).params \o Tail(script)
    BY <1>5 DEF ReloadConnections
  <2>2. n \in Nat
    BY ConstantsAssumption, FS_Subset, FS_CardinalityType
  <2>3. [i \in 1..n |-> [op |-> "close", key |-> order[i]]] \in Seq(Call)
    <3>1. \A i \in 1..n : order[i] \in Key
      BY <2>1
    <3>2. \A i \in 1..n : [op |-> "close", key |-> order[i]] \in Call
      BY <3>1, CallConstructors
    <3> HIDE DEF keys, n
    <3>3. QED
      BY <2>2, <3>2
  <2>4. Head(script).params \in Seq(Call) /\ Tail(script) \in Seq(Call)
    <3>1. Head(script).params \in Seq(AddCall) /\ Tail(script) \in Seq(Call)
      BY <1>0, <1>5, CurrentCall, CallFields DEF ReloadConnections
    <3>2. QED
      BY <3>1, CallConstructors
  <2>5. script' \in Seq(Call)
    <3> HIDE DEF keys, n
    <3>1. [op |-> "clear"] \in Call
      BY CallConstructors
    <3>2. QED
      BY <2>1, <2>3, <2>4, <3>1, ConcatCalls
  <2>6. QED
    BY <1>5, <2>5 DEF ReloadConnections, TypeOK, lineageVars
<1>6. CASE ClearInfos
  <2>1. script' \in Seq(Call)
    BY <1>0, <1>6, CurrentCall DEF ClearInfos
  <2>2. conn_infos_' \in [Key -> Info \cup {None}]
    BY <1>6 DEF ClearInfos
  <2>3. QED
    BY <1>6, <2>1, <2>2 DEF ClearInfos, TypeOK, lineageVars
<1>7. QED
  BY <1>1, <1>2, <1>3, <1>4, <1>5, <1>6 DEF Caller

LEMMA SendType == TypeOK /\ SendMessages => TypeOK'
<1> SUFFICES ASSUME TypeOK, SendMessages
             PROVE  TypeOK'
  OBVIOUS
<1>1. PICK ks : Post(Registered(ks), "push")
  BY DEF SendMessages
<1>2. /\ strand' \in [Lineage -> Seq({"push", "close"})]
      /\ \A l \in Lineage : phase[l] # "open" => strand'[l] = strand[l]
  BY <1>1, PostType
<1>3. UNCHANGED <<script, conn_infos_, connections_, phase, lkey, ltype, need,
                  snap, busy, aborted>>
  BY DEF SendMessages, lineageVars
<1>4. QED
  BY <1>2, <1>3 DEF TypeOK

\* A lineage that has been started has a key.
LEMMA StartedKey ==
    ASSUME TypeOK, NEW l \in Lineage, phase[l] # "idle"
    PROVE  lkey[l] \in Key
  BY DEF TypeOK

LEMMA DieType ==
    ASSUME TypeOK, NEW l \in Lineage, phase[l] = "open", NEW b \in BOOLEAN,
           Die(l, b)
    PROVE  TypeOK'
<1>1. /\ phase' \in [Lineage -> Phase] /\ need' \in [Lineage -> BOOLEAN]
      /\ strand' \in [Lineage -> Seq({"push", "close"})]
      /\ busy' \in [Lineage -> BOOLEAN]
  BY DEF Die, TypeOK, Phase
<1>2. /\ phase'[l] = "lost" /\ strand'[l] = <<>> /\ busy'[l] = FALSE
      /\ \A m \in Lineage \ {l} : /\ phase'[m] = phase[m]
                                  /\ strand'[m] = strand[m]
                                  /\ busy'[m] = busy[m]
  BY DEF Die, TypeOK
<1>3. UNCHANGED <<script, conn_infos_, connections_, lkey, ltype, snap, aborted>>
  BY DEF Die
<1>4. QED
  BY <1>1, <1>2, <1>3 DEF TypeOK

LEMMA IoType == ASSUME TypeOK, NEW l \in Lineage, Io(l) PROVE TypeOK'
<1> USE InfoFields
<1>1. CASE Connected(l)
  <2>1. Advance(l, "open") /\ "open" \in Phase
        /\ UNCHANGED <<script, conn_infos_, lkey, ltype, need, snap, strand,
                       busy, aborted>>
    BY <1>1 DEF Connected, Phase, lineageVars
  <2>2. connections_' \in [Key -> Lineage \cup {None}]
    BY <1>1 DEF Connected, TypeOK
  <2>3. phase[l] = "connecting"
    BY <1>1 DEF Connected
  <2>4. QED
    BY <2>1, <2>2, <2>3, AdvanceType DEF TypeOK, Destroyed
<1>2. CASE ConnectFailed(l)
  BY <1>2 DEF ConnectFailed, TypeOK, Phase, lineageVars
<1>3. CASE RunPush(l)
  BY <1>3 DEF RunPush, TypeOK, lineageVars
<1>4. CASE CycleEnds(l)
  <2> DEFINE p == IF strand[l] = <<>> /\ connections_[lkey[l]] # l
                  THEN "done" ELSE "open"
  <2>1. Advance(l, p) /\ p \in Phase
        /\ UNCHANGED <<script, conn_infos_, connections_, lkey, ltype, need,
                       snap, strand, aborted>>
    BY <1>4 DEF CycleEnds, Phase, lineageVars
  <2>2. /\ busy' \in [Lineage -> BOOLEAN] /\ phase[l] = "open"
        /\ busy'[l] = FALSE /\ \A m \in Lineage \ {l} : busy'[m] = busy[m]
    BY <1>4 DEF CycleEnds, TypeOK
  <2>3. p = "open" \/ (p = "done" /\ strand[l] = <<>>)
    OBVIOUS
  <2> HIDE DEF p
  <2>4. QED
    BY <2>1, <2>2, <2>3, AdvanceType DEF TypeOK, Destroyed
<1>5. CASE RunClose(l) \/ RunError(l)
  BY <1>5, DieType DEF RunClose, RunError
<1>6. CASE EraseClosed(l)
  <2>1. Advance(l, "erased") /\ "erased" \in Phase /\ phase[l] = "lost"
        /\ UNCHANGED <<script, conn_infos_, lkey, ltype, need, strand, busy,
                       aborted>>
    BY <1>6 DEF EraseClosed, Phase
  <2>2. lkey[l] \in Key
    BY <2>1, StartedKey
  <2>3. /\ connections_' \in [Key -> Lineage \cup {None}]
        /\ snap' \in [Lineage -> Info \cup {None}] /\ snap'[l] # None
        /\ \A m \in Lineage \ {l} : snap'[m] = snap[m]
    BY <1>6, <2>2 DEF EraseClosed, TypeOK
  <2>4. /\ phase' \in [Lineage -> Phase] /\ phase'[l] = "erased"
        /\ \A m \in Lineage \ {l} :
              \/ phase'[m] = phase[m]
              \/ /\ phase[m] = "open" /\ phase'[m] = "done"
                 /\ Destroyed(m)
    BY <2>1, AdvanceType
  <2>5. ASSUME NEW m \in Lineage
        PROVE  /\ phase'[m] # "idle" <=> lkey'[m] # None
               /\ ltype'[m] # None <=> lkey'[m] # None
               /\ phase'[m] = "erased" <=> snap'[m] # None
               /\ (strand'[m] # <<>> \/ busy'[m]) => phase'[m] = "open"
    <3>1. CASE m = l
      BY <2>1, <2>3, <2>4, <3>1 DEF TypeOK
    <3>2. CASE m # l
      BY <2>1, <2>3, <2>4, <3>2 DEF TypeOK, Destroyed
    <3>3. QED
      BY <3>1, <3>2
  <2>6. QED
    BY <2>1, <2>3, <2>4, <2>5 DEF TypeOK
<1>7. CASE FinishClosed(l)
  <2>1. /\ phase[l] = "erased" /\ lkey[l] \in Key /\ snap[l] \in Info
    BY <1>7, StartedKey DEF FinishClosed, TypeOK
  <2>2. /\ phase' \in [Lineage -> Phase] /\ phase'[l] \in {"backoff", "done"}
        /\ \A m \in Lineage \ {l} : phase'[m] = phase[m]
    BY <1>7 DEF FinishClosed, TypeOK, Phase
  <2>3. /\ conn_infos_' \in [Key -> Info \cup {None}]
        /\ ltype' \in [Lineage -> EventType \cup {None}]
        /\ ltype'[l] \in EventType
        /\ \A m \in Lineage \ {l} : ltype'[m] = ltype[m]
    BY <1>7, <2>1 DEF FinishClosed, TypeOK
  <2>4. /\ need' \in [Lineage -> BOOLEAN]
        /\ snap' \in [Lineage -> Info \cup {None}] /\ snap'[l] = None
        /\ \A m \in Lineage \ {l} : snap'[m] = snap[m]
    BY <1>7 DEF FinishClosed, TypeOK
  <2>5. UNCHANGED <<script, connections_, lkey, strand, busy, aborted>>
    BY <1>7 DEF FinishClosed
  <2>6. QED
    BY <2>1, <2>2, <2>3, <2>4, <2>5 DEF TypeOK
<1>8. CASE RetryTimer(l)
  <2>1. lkey[l] \in Key /\ ltype[l] \in EventType
    BY <1>8, StartedKey DEF RetryTimer, TypeOK
  <2>2. QED
    BY <1>8, <2>1, DoConnectType DEF RetryTimer, TypeOK
<1>9. QED
  BY <1>1, <1>2, <1>3, <1>4, <1>5, <1>6, <1>7, <1>8 DEF Io, Handlers

LEMMA TypeStep == TypeOK /\ [Next]_vars => TypeOK'
<1>1. ASSUME TypeOK, UNCHANGED vars
      PROVE  TypeOK'
  BY <1>1 DEF vars, lineageVars, TypeOK
<1>2. QED
  BY <1>1, CallerType, SendType, IoType DEF Next

\* Type correctness, whatever calls are made.
THEOREM TypeCorrect == Spec => []TypeOK
  BY TypeInit, TypeStep, PTL DEF Spec

-----------------------------------------------------------------------------
(* The registry, for any caller.                                           *)

\* A step that moves only one lineage, not a registered one.
LEMMA RegistryKept ==
    ASSUME TypeOK, RegistrySound, NEW l \in Lineage,
           phase[l] \notin {"open", "lost"},
           UNCHANGED connections_,
           \A m \in Lineage \ {l} : lkey'[m] = lkey[m] /\ phase'[m] = phase[m]
    PROVE  RegistrySound'
<1>1. \A k \in Key : connections_[k] # None => connections_[k] \in Lineage \ {l}
  BY DEF TypeOK, RegistrySound
<1>2. QED
  BY <1>1 DEF RegistrySound

LEMMA DoConnectFrame ==
    ASSUME TypeOK, NEW l \in Lineage, NEW k, NEW t, DoConnect(l, k, t)
    PROVE  \A m \in Lineage \ {l} : lkey'[m] = lkey[m] /\ phase'[m] = phase[m]
  BY DEF DoConnect, TypeOK

LEMMA RegistryIo ==
    ASSUME TypeOK, RegistrySound, NEW l \in Lineage, Io(l)
    PROVE  RegistrySound'
<1>0. /\ connections_ \in [Key -> Lineage \cup {None}]
      /\ phase \in [Lineage -> Phase]
      /\ \A k \in Key : connections_[k] # None =>
            /\ connections_[k] \in Lineage
            /\ lkey[connections_[k]] = k
            /\ phase[connections_[k]] \in {"open", "lost"}
  BY DEF TypeOK, RegistrySound
<1>1. CASE Connected(l)
  <2>1. /\ phase[l] = "connecting" /\ lkey' = lkey
        /\ connections_' = [connections_ EXCEPT ![lkey[l]] = l]
        /\ Advance(l, "open") /\ "open" \in Phase
    BY <1>1 DEF Connected, lineageVars, Phase
  <2>2. lkey[l] \in Key
    BY <2>1, StartedKey
  <2>3. phase'[l] = "open"
        /\ \A m \in Lineage \ {l} :
              phase'[m] = phase[m] \/ connections_'[lkey[m]] # m
    BY <2>1, AdvanceType DEF Destroyed
  <2>4. ASSUME NEW k \in Key, connections_'[k] # None
        PROVE  /\ lkey'[connections_'[k]] = k
               /\ phase'[connections_'[k]] \in {"open", "lost"}
    <3>1. CASE k = lkey[l]
      BY <1>0, <2>1, <2>2, <2>3, <3>1
    <3>2. CASE k # lkey[l]
      <4>1. connections_'[k] = connections_[k] /\ connections_[k] \in Lineage
            /\ lkey[connections_[k]] = k
            /\ phase[connections_[k]] \in {"open", "lost"}
        BY <1>0, <2>1, <2>2, <2>4, <3>2
      <4>2. QED
        BY <2>1, <2>3, <4>1
    <3>3. QED
      BY <3>1, <3>2
  <2>5. QED
    BY <2>4 DEF RegistrySound
<1>2. CASE ConnectFailed(l)
  BY <1>2, RegistryKept DEF ConnectFailed, lineageVars, TypeOK
<1>3. CASE RunPush(l)
  BY <1>3 DEF RunPush, RegistrySound, lineageVars
<1>4. CASE CycleEnds(l)
  <2> DEFINE p == IF strand[l] = <<>> /\ connections_[lkey[l]] # l
                  THEN "done" ELSE "open"
  <2>1. /\ Advance(l, p) /\ p \in Phase /\ phase[l] = "open"
        /\ UNCHANGED <<connections_, lkey>>
    BY <1>4 DEF CycleEnds, Phase, lineageVars
  <2>2. /\ phase'[l] = p
        /\ \A m \in Lineage \ {l} :
              phase'[m] = phase[m] \/ connections_'[lkey[m]] # m
    BY <2>1, AdvanceType DEF Destroyed
  <2>3. connections_[lkey[l]] = l => p = "open"
    OBVIOUS
  <2> HIDE DEF p
  <2>4. QED
    BY <1>0, <2>1, <2>2, <2>3 DEF RegistrySound
<1>5. CASE RunClose(l) \/ RunError(l)
  <2>1. /\ phase'[l] = "lost" /\ UNCHANGED <<connections_, lkey>>
        /\ \A m \in Lineage \ {l} : phase'[m] = phase[m]
    BY <1>5 DEF RunClose, RunError, Die, TypeOK
  <2>2. QED
    BY <1>0, <2>1 DEF RegistrySound
<1>6. CASE EraseClosed(l)
  <2>1. /\ phase[l] = "lost" /\ lkey' = lkey
        /\ connections_' = [connections_ EXCEPT ![lkey[l]] = None]
        /\ Advance(l, "erased") /\ "erased" \in Phase
    BY <1>6 DEF EraseClosed, Phase
  <2>2. lkey[l] \in Key
    BY <2>1, StartedKey
  <2>3. \A m \in Lineage \ {l} :
            phase'[m] = phase[m] \/ connections_'[lkey[m]] # m
    BY <2>1, AdvanceType DEF Destroyed
  <2>4. ASSUME NEW k \in Key, connections_'[k] # None
        PROVE  /\ lkey'[connections_'[k]] = k
               /\ phase'[connections_'[k]] \in {"open", "lost"}
    <3>1. k # lkey[l] /\ connections_'[k] = connections_[k]
      BY <1>0, <2>1, <2>2, <2>4
    <3>2. /\ connections_[k] \in Lineage \ {l}
          /\ lkey[connections_[k]] = k
          /\ phase[connections_[k]] \in {"open", "lost"}
      BY <1>0, <2>4, <3>1
    <3>3. QED
      BY <2>1, <2>3, <3>1, <3>2
  <2>5. QED
    BY <2>4 DEF RegistrySound
<1>7. CASE FinishClosed(l)
  <2>1. \A m \in Lineage \ {l} : phase'[m] = phase[m]
    BY <1>7 DEF FinishClosed, TypeOK
  <2>2. QED
    BY <1>7, <2>1, RegistryKept DEF FinishClosed
<1>8. CASE RetryTimer(l)
  BY <1>8, RegistryKept, DoConnectFrame DEF RetryTimer
<1>9. QED
  BY <1>1, <1>2, <1>3, <1>4, <1>5, <1>6, <1>7, <1>8 DEF Io, Handlers

LEMMA RegistryStep == TypeOK /\ RegistrySound /\ [Next]_vars => RegistrySound'
<1> SUFFICES ASSUME TypeOK, RegistrySound, [Next]_vars
             PROVE  RegistrySound'
  OBVIOUS
<1>1. ASSUME NEW l \in Lineage, Connect(l)
      PROVE  RegistrySound'
  BY <1>1, RegistryKept, DoConnectFrame DEF Connect
<1>2. CASE Caller /\ ~\E l \in Lineage : Connect(l)
  <2>1. UNCHANGED <<connections_, phase, lkey>>
    BY <1>2 DEF Caller, StartThreads, AddConnection, CloseConnection,
                ReloadConnections, ClearInfos, lineageVars
  <2>2. QED
    BY <2>1 DEF RegistrySound
<1>3. CASE SendMessages \/ UNCHANGED vars
  BY <1>3 DEF SendMessages, RegistrySound, vars, lineageVars
<1>4. QED
  BY <1>1, <1>2, <1>3, RegistryIo DEF Next

\* A message is never pushed into a dead connection's successor's place or
\* into the connection of another key, whatever calls are made.
THEOREM RegistryCorrect == Spec => []RegistrySound
<1>1. Init => RegistrySound
  BY DEF Init, RegistrySound
<1>2. QED
  BY <1>1, TypeInit, TypeStep, RegistryStep, PTL DEF Spec

-----------------------------------------------------------------------------
(* Disciplined callers.                                                    *)

Adds(c) == c.op \in {"add", "connect"}

\* The calls left concern keys that no lineage has, each key once, and the
\* parameters of the one being added are there.
CallsInv ==
    /\ \A i \in DOMAIN script :
          /\ script[i].op \in {"add", "connect", "close", "run"}
          /\ script[i].op = "connect" =>
                i = 1 /\ conn_infos_[script[i].key] # None
    /\ \A i, j \in DOMAIN script :
          Adds(script[i]) /\ Adds(script[j]) /\ script[i].key = script[j].key
            => i = j
    /\ \A i \in DOMAIN script, l \in Lineage :
          Adds(script[i]) /\ phase[l] # "idle" => lkey[l] # script[i].key

\* No two lineages share a key, so nothing one does to the entries of its key
\* can disturb another.
OneLineagePerKey ==
    \A l, m \in Lineage :
        phase[l] # "idle" /\ phase[m] # "idle" /\ lkey[l] = lkey[m] => l = m

DisciplineInv ==
    TypeOK /\ CallsInv /\ OneLineagePerKey /\ AllTracked /\ NoAbort

LEMMA DisciplineInit == Disciplined /\ Init => DisciplineInv
<1> SUFFICES ASSUME Disciplined, Init PROVE DisciplineInv
  OBVIOUS
<1>1. \A l \in Lineage : phase[l] = "idle"
  BY DEF Init
<1>2. script \in Scripts /\ ~aborted
  BY DEF Init
<1>3. CallsInv
  BY <1>1, <1>2 DEF Disciplined, CallsInv, Adds
<1>4. OneLineagePerKey /\ AllTracked /\ NoAbort
  BY <1>1, <1>2 DEF OneLineagePerKey, AllTracked, Tracked, Alive, NoAbort
<1>5. QED
  BY <1>3, <1>4, TypeInit DEF DisciplineInv

LEMMA NextCall ==
    ASSUME script \in Seq(Call), script # <<>>, script' = Tail(script)
    PROVE  \A i \in DOMAIN script' :
              /\ i + 1 \in DOMAIN script /\ i + 1 # 1 /\ i \in Nat
              /\ script'[i] = script[i + 1]
  OBVIOUS

LEMMA ReplacedCall ==
    ASSUME script \in Seq(Call), script # <<>>, NEW c,
           script' = <<c>> \o Tail(script)
    PROVE  /\ DOMAIN script' = DOMAIN script
           /\ script'[1] = c
           /\ 1 \in DOMAIN script
           /\ script[1] = Head(script)
           /\ \A i \in DOMAIN script : i # 1 => script'[i] = script[i]
  OBVIOUS

\* When the caller moves on, the invariant of its calls needs only that no
\* lineage was started.
LEMMA CallsAdvance ==
    ASSUME DisciplineInv, script # <<>>, script' = Tail(script),
           UNCHANGED <<phase, lkey>>
    PROVE  CallsInv'
<1>1. script \in Seq(Call)
  BY DEF DisciplineInv, TypeOK
<1>2. \A i \in DOMAIN script' :
         /\ i + 1 \in DOMAIN script /\ i + 1 # 1 /\ i \in Nat
         /\ script'[i] = script[i + 1]
  BY <1>1, NextCall
<1>3. QED
  BY <1>2 DEF DisciplineInv, CallsInv, Adds

\* When the caller waits, it needs that no lineage was started and that the
\* parameters being added are kept.
LEMMA CallsWait ==
    ASSUME DisciplineInv, UNCHANGED script,
           \A l \in Lineage : /\ lkey'[l] = lkey[l]
                              /\ phase'[l] # "idle" => phase[l] # "idle",
           \A k \in Key : conn_infos_[k] # None =>
              \/ conn_infos_'[k] # None
              \/ \E l \in Lineage : phase[l] # "idle" /\ lkey[l] = k
    PROVE  CallsInv'
<1>1. \A i \in DOMAIN script : script[i] \in Call
  BY DEF DisciplineInv, TypeOK
<1>2. \A i \in DOMAIN script : script[i].op = "connect" => script[i].key \in Key
  BY <1>1, CallFields
<1>3. QED
  BY <1>2 DEF DisciplineInv, CallsInv, Adds

\* A key may only lose its parameters to its own lineage.
LEMMA TrackedOthers ==
    ASSUME DisciplineInv, NEW l \in Lineage, NEW m \in Lineage, m # l,
           phase[l] # "idle",
           phase'[m] = phase[m], lkey'[m] = lkey[m],
           \A k \in Key \ {lkey[l]} :
              /\ connections_'[k] = connections_[k]
              /\ conn_infos_[k] # None => conn_infos_'[k] # None
    PROVE  Tracked(m)'
<1>1. CASE phase[m] = "idle"
  BY <1>1 DEF Tracked, Alive
<1>2. CASE phase[m] # "idle"
  <2>1. lkey[m] \in Key /\ lkey[m] # lkey[l]
    BY <1>2, StartedKey DEF DisciplineInv, OneLineagePerKey
  <2>2. QED
    BY <2>1 DEF DisciplineInv, AllTracked, Tracked, Alive
<1>3. QED
  BY <1>1, <1>2

\* A registered connection keeps its owner: nothing is destroyed.
LEMMA NoneDestroyed ==
    ASSUME DisciplineInv, NEW l \in Lineage, NEW p \in Phase, Advance(l, p),
           phase[l] # "idle",
           \A k \in Key \ {lkey[l]} : connections_'[k] = connections_[k]
    PROVE  /\ phase'[l] = p
           /\ \A m \in Lineage \ {l} : phase'[m] = phase[m]
<1>1. phase'[l] = p
  BY AdvanceType DEF DisciplineInv
<1>2. ASSUME NEW m \in Lineage \ {l}
      PROVE  ~Destroyed(m)
  <2>1. CASE phase[m] = "open"
    <3>1. lkey[m] \in Key /\ lkey[m] # lkey[l] /\ connections_[lkey[m]] = m
      BY <2>1, StartedKey
         DEF DisciplineInv, OneLineagePerKey, AllTracked, Tracked
    <3>2. QED
      BY <3>1 DEF Destroyed
  <2>2. CASE phase[m] # "open"
    BY <2>2 DEF Destroyed
  <2>3. QED
    BY <2>1, <2>2
<1>3. QED
  BY <1>1, <1>2, AdvanceType DEF DisciplineInv

\* A step of lineage l, on its own entries: what is left to show is that l
\* itself is still tracked.
LEMMA LineageStep ==
    ASSUME DisciplineInv, TypeOK', NEW l \in Lineage, phase[l] # "idle",
           UNCHANGED <<script, lkey, aborted>>,
           \A m \in Lineage \ {l} : phase'[m] = phase[m],
           \A k \in Key \ {lkey[l]} :
              /\ connections_'[k] = connections_[k]
              /\ conn_infos_[k] # None => conn_infos_'[k] # None,
           Tracked(l)'
    PROVE  DisciplineInv'
<1>1. CallsInv'
  BY CallsWait
<1>2. OneLineagePerKey'
  BY DEF DisciplineInv, OneLineagePerKey
<1>3. AllTracked'
  BY TrackedOthers DEF AllTracked
<1>4. NoAbort'
  BY DEF DisciplineInv, NoAbort
<1>5. QED
  BY <1>1, <1>2, <1>3, <1>4 DEF DisciplineInv

LEMMA DisciplineIo ==
    ASSUME DisciplineInv, NEW l \in Lineage, Io(l)
    PROVE  DisciplineInv'
<1>0. TypeOK /\ TypeOK'
  BY IoType DEF DisciplineInv
<1>1. phase[l] # "idle"
  BY DEF Io, Handlers, Connected, ConnectFailed, CycleEnds, RunError, RunPush,
         RunClose, EraseClosed, FinishClosed, RetryTimer
<1>2. lkey[l] \in Key
  BY <1>0, <1>1, StartedKey
<1>3. Tracked(l)
  BY DEF DisciplineInv, AllTracked
<1>4. CASE Connected(l)
  <2>1. /\ phase[l] = "connecting"
        /\ connections_' = [connections_ EXCEPT ![lkey[l]] = l]
        /\ UNCHANGED <<script, conn_infos_, lkey, aborted>>
        /\ Advance(l, "open") /\ "open" \in Phase
    BY <1>4 DEF Connected, lineageVars, Phase
  <2>2. /\ connections_'[lkey[l]] = l
        /\ \A k \in Key \ {lkey[l]} : connections_'[k] = connections_[k]
    BY <1>0, <1>2, <2>1 DEF TypeOK
  <2>3. phase'[l] = "open" /\ \A m \in Lineage \ {l} : phase'[m] = phase[m]
    BY <1>1, <2>1, <2>2, NoneDestroyed
  <2>4. Tracked(l)'
    BY <1>3, <2>1, <2>2, <2>3 DEF Tracked, Alive
  <2>5. QED
    BY <1>0, <1>1, <2>1, <2>2, <2>3, <2>4, LineageStep
<1>5. CASE ConnectFailed(l) \/ RunPush(l)
  <2>1. /\ UNCHANGED <<script, conn_infos_, connections_, lkey, aborted>>
        /\ \A m \in Lineage \ {l} : phase'[m] = phase[m]
        /\ phase[l] \in {"connecting", "open"}
        /\ phase'[l] \in {phase[l], "backoff"}
    BY <1>0, <1>5 DEF ConnectFailed, RunPush, lineageVars, TypeOK
  <2>2. Tracked(l)'
    BY <1>3, <2>1 DEF Tracked, Alive
  <2>3. QED
    BY <1>0, <1>1, <2>1, <2>2, LineageStep
<1>6. CASE CycleEnds(l)
  <2> DEFINE p == IF strand[l] = <<>> /\ connections_[lkey[l]] # l
                  THEN "done" ELSE "open"
  <2>1. /\ UNCHANGED <<script, conn_infos_, connections_, lkey, aborted>>
        /\ Advance(l, p) /\ p \in Phase /\ phase[l] = "open"
    BY <1>6 DEF CycleEnds, lineageVars, Phase
  <2>2. p = "open"
    BY <1>3, <2>1 DEF Tracked
  <2> HIDE DEF p
  <2>3. phase'[l] = "open" /\ \A m \in Lineage \ {l} : phase'[m] = phase[m]
    BY <1>1, <2>1, <2>2, NoneDestroyed
  <2>4. Tracked(l)'
    BY <1>3, <2>1, <2>3 DEF Tracked, Alive
  <2>5. QED
    BY <1>0, <1>1, <2>1, <2>3, <2>4, LineageStep
<1>7. CASE RunClose(l) \/ RunError(l)
  <2>1. /\ UNCHANGED <<script, conn_infos_, connections_, lkey, aborted>>
        /\ phase[l] = "open" /\ phase'[l] = "lost"
        /\ \A m \in Lineage \ {l} : phase'[m] = phase[m]
    BY <1>0, <1>7 DEF RunClose, RunError, Die, TypeOK
  <2>2. Tracked(l)'
    BY <1>3, <2>1 DEF Tracked, Alive
  <2>3. QED
    BY <1>0, <1>1, <2>1, <2>2, LineageStep
<1>8. CASE EraseClosed(l)
  <2>1. /\ phase[l] = "lost"
        /\ connections_' = [connections_ EXCEPT ![lkey[l]] = None]
        /\ UNCHANGED <<script, conn_infos_, lkey, aborted>>
        /\ Advance(l, "erased") /\ "erased" \in Phase
    BY <1>8 DEF EraseClosed, Phase
  <2>2. \A k \in Key \ {lkey[l]} : connections_'[k] = connections_[k]
    BY <1>0, <1>2, <2>1 DEF TypeOK
  <2>3. phase'[l] = "erased" /\ \A m \in Lineage \ {l} : phase'[m] = phase[m]
    BY <1>1, <2>1, <2>2, NoneDestroyed
  <2>4. Tracked(l)'
    BY <1>3, <2>1, <2>3 DEF Tracked, Alive
  <2>5. QED
    BY <1>0, <1>1, <2>1, <2>2, <2>3, <2>4, LineageStep
<1>9. CASE FinishClosed(l)
  <2>1. /\ UNCHANGED <<script, connections_, lkey, aborted>>
        /\ phase[l] = "erased"
        /\ \A m \in Lineage \ {l} : phase'[m] = phase[m]
        /\ \A k \in Key \ {lkey[l]} : conn_infos_'[k] = conn_infos_[k]
        /\ \/ phase'[l] = "backoff" /\ conn_infos_' = conn_infos_
           \/ phase'[l] = "done"
    BY <1>0, <1>2, <1>9 DEF FinishClosed, TypeOK
  <2>2. Tracked(l)'
    BY <1>3, <2>1 DEF Tracked, Alive
  <2>3. QED
    BY <1>0, <1>1, <2>1, <2>2, LineageStep
<1>10. CASE RetryTimer(l)
  <2>1. conn_infos_[lkey[l]] # None
    BY <1>3, <1>10 DEF RetryTimer, Tracked, Alive
  <2>2. /\ UNCHANGED <<script, connections_>>
        /\ phase'[l] = "connecting" /\ aborted' = FALSE
        /\ lkey' = lkey /\ conn_infos_' = conn_infos_
        /\ \A m \in Lineage \ {l} : phase'[m] = phase[m]
    BY <1>0, <1>2, <1>10, <2>1 DEF RetryTimer, DoConnect, TypeOK
  <2>3. aborted' = aborted
    BY <1>0, <2>2 DEF DisciplineInv, NoAbort, TypeOK
  <2>4. Tracked(l)'
    BY <2>1, <2>2 DEF Tracked, Alive
  <2>5. QED
    BY <1>0, <1>1, <2>2, <2>3, <2>4, LineageStep
<1>11. QED
  BY <1>4, <1>5, <1>6, <1>7, <1>8, <1>9, <1>10 DEF Io, Handlers

LEMMA DisciplineCaller == DisciplineInv /\ Caller => DisciplineInv'
<1> SUFFICES ASSUME DisciplineInv, Caller
             PROVE  DisciplineInv'
  OBVIOUS
<1>0. TypeOK /\ TypeOK' /\ script \in Seq(Call)
  BY CallerType DEF DisciplineInv, TypeOK
<1>1. ~ReloadConnections /\ ~ClearInfos
  BY <1>0 DEF DisciplineInv, CallsInv, ReloadConnections, ClearInfos, Calling
<1>2. CASE StartThreads \/ CloseConnection
  <2>1. /\ script # <<>> /\ script' = Tail(script)
        /\ UNCHANGED <<phase, lkey, connections_, aborted>>
    BY <1>2 DEF StartThreads, CloseConnection, Calling, lineageVars
  <2>2. \A k \in Key : conn_infos_[k] # None => conn_infos_'[k] # None
    <3>1. CASE StartThreads
      BY <3>1 DEF StartThreads
    <3>2. CASE CloseConnection
      <4>1. TypeOK'
        BY <1>0
      <4>2. Head(script).key \in Key
        BY <1>0, <3>2, CurrentCall, CallFields DEF CloseConnection
      <4>3. ASSUME NEW k \in Key, conn_infos_[k] # None
            PROVE  conn_infos_'[k] # None
        <5>1. conn_infos_[k] \in Info
          BY <1>0, <4>3 DEF TypeOK
        <5>2. [conn_infos_[k] EXCEPT !.auto = FALSE] \in Info
          BY <5>1, InfoFields
        <5>3. conn_infos_'[k] \in
                 {conn_infos_[k], [conn_infos_[k] EXCEPT !.auto = FALSE]}
          BY <1>0, <3>2, <4>2 DEF CloseConnection, TypeOK
        <5>4. QED
          BY <5>1, <5>2, <5>3, InfoFields
      <4>4. QED
        BY <4>3
    <3>3. QED
      BY <1>2, <3>1, <3>2
  <2>3. CallsInv'
    BY <2>1, CallsAdvance
  <2>4. OneLineagePerKey' /\ NoAbort'
    BY <2>1 DEF DisciplineInv, OneLineagePerKey, NoAbort
  <2>5. AllTracked'
    <3>1. \A l \in Lineage : phase[l] # "idle" => lkey[l] \in Key
      BY <1>0, StartedKey
    <3>2. QED
      BY <2>1, <2>2, <3>1 DEF DisciplineInv, AllTracked, Tracked, Alive
  <2>6. QED
    BY <1>0, <2>3, <2>4, <2>5 DEF DisciplineInv
<1>3. CASE AddConnection
  <2> DEFINE c == Head(script)
             d == [op |-> "connect", key |-> c.key, type |-> c.info.type]
  <2>1. /\ script # <<>> /\ c.op = "add" /\ c.key \in Key /\ c.info \in Info
    BY <1>0, <1>3, CurrentCall, CallFields DEF AddConnection
  <2>2. /\ script' = <<d>> \o Tail(script)
        /\ conn_infos_' = [conn_infos_ EXCEPT ![c.key] = c.info]
        /\ UNCHANGED <<phase, lkey, connections_, aborted>>
    BY <1>3 DEF AddConnection, lineageVars
  <2>3. /\ DOMAIN script' = DOMAIN script
        /\ script'[1] = d /\ 1 \in DOMAIN script /\ script[1] = c
        /\ \A i \in DOMAIN script : i # 1 => script'[i] = script[i]
    BY <1>0, <2>1, <2>2, ReplacedCall
  <2>4. /\ conn_infos_'[c.key] # None
        /\ \A k \in Key : conn_infos_[k] # None => conn_infos_'[k] # None
    BY <1>0, <2>1, <2>2, InfoFields DEF TypeOK
  <2>5. d.op = "connect" /\ d.key = c.key
    OBVIOUS
  <2> HIDE DEF c, d
  <2>6. CallsInv'
    <3>1. \A i \in DOMAIN script' :
              /\ script'[i].op \in {"add", "connect", "close", "run"}
              /\ script'[i].op = "connect" =>
                    i = 1 /\ conn_infos_'[script'[i].key] # None
      BY <2>3, <2>4, <2>5 DEF DisciplineInv, CallsInv
    <3>2. \A i \in DOMAIN script :
              /\ Adds(script'[i]) <=> Adds(script[i])
              /\ Adds(script[i]) => script'[i].key = script[i].key
      BY <2>1, <2>3, <2>5 DEF Adds
    <3>3. \A i, j \in DOMAIN script' :
              Adds(script'[i]) /\ Adds(script'[j])
                /\ script'[i].key = script'[j].key => i = j
      BY <2>3, <3>2 DEF DisciplineInv, CallsInv
    <3>4. \A i \in DOMAIN script', l \in Lineage :
              Adds(script'[i]) /\ phase'[l] # "idle"
                => lkey'[l] # script'[i].key
      BY <2>2, <2>3, <3>2 DEF DisciplineInv, CallsInv
    <3>5. QED
      BY <3>1, <3>3, <3>4 DEF CallsInv, Adds
  <2>7. OneLineagePerKey' /\ NoAbort'
    BY <2>2 DEF DisciplineInv, OneLineagePerKey, NoAbort
  <2>8. AllTracked'
    <3>1. \A l \in Lineage : phase[l] # "idle" => lkey[l] \in Key
      BY <1>0, StartedKey
    <3>2. QED
      BY <2>2, <2>4, <3>1 DEF DisciplineInv, AllTracked, Tracked, Alive
  <2>9. QED
    BY <1>0, <2>6, <2>7, <2>8 DEF DisciplineInv
<1>4. ASSUME NEW l \in Lineage, Connect(l)
      PROVE  DisciplineInv'
  <2> DEFINE k == Head(script).key
  <2>1. /\ script # <<>> /\ Head(script).op = "connect" /\ k \in Key
        /\ phase[l] = "idle" /\ script' = Tail(script)
    BY <1>0, <1>4, CurrentCall, CallFields DEF Connect
  <2>2. 1 \in DOMAIN script /\ script[1] = Head(script)
    BY <1>0, <2>1
  <2>3. /\ conn_infos_[k] # None
        /\ \A m \in Lineage : phase[m] # "idle" => lkey[m] # k
        /\ \A i \in DOMAIN script :
              i # 1 /\ Adds(script[i]) => script[i].key # k
    BY <2>1, <2>2 DEF DisciplineInv, CallsInv, Adds
  <2>4. /\ phase'[l] = "connecting" /\ lkey'[l] = k /\ aborted' = FALSE
        /\ conn_infos_' = conn_infos_ /\ connections_' = connections_
        /\ \A m \in Lineage \ {l} : phase'[m] = phase[m] /\ lkey'[m] = lkey[m]
    BY <1>0, <1>4, <2>1, <2>3 DEF Connect, DoConnect, TypeOK
  <2> HIDE DEF k
  <2>5. \A i \in DOMAIN script' :
           /\ i + 1 \in DOMAIN script /\ i + 1 # 1 /\ i \in Nat
           /\ script'[i] = script[i + 1]
    BY <1>0, <2>1, NextCall
  <2>6. CallsInv'
    <3>1. \A i \in DOMAIN script', m \in Lineage :
              Adds(script'[i]) /\ phase'[m] # "idle" => lkey'[m] # script'[i].key
      <4> TAKE i \in DOMAIN script', m \in Lineage
      <4>1. CASE m = l
        BY <2>3, <2>4, <2>5, <4>1
      <4>2. CASE m # l
        BY <2>4, <2>5, <4>2 DEF DisciplineInv, CallsInv
      <4>3. QED
        BY <4>1, <4>2
    <3>2. QED
      BY <2>4, <2>5, <3>1 DEF DisciplineInv, CallsInv, Adds
  <2>7. OneLineagePerKey'
    BY <2>3, <2>4 DEF DisciplineInv, OneLineagePerKey
  <2>8. AllTracked'
    <3>1. Tracked(l)'
      BY <2>3, <2>4 DEF Tracked
    <3>2. \A m \in Lineage \ {l} : Tracked(m)'
      BY <2>4 DEF DisciplineInv, AllTracked, Tracked, Alive
    <3>3. QED
      BY <3>1, <3>2 DEF AllTracked
  <2>9. QED
    BY <1>0, <2>4, <2>6, <2>7, <2>8 DEF DisciplineInv, NoAbort
<1>5. QED
  BY <1>1, <1>2, <1>3, <1>4 DEF Caller

LEMMA DisciplineStep == DisciplineInv /\ [Next]_vars => DisciplineInv'
<1> SUFFICES ASSUME DisciplineInv, [Next]_vars
             PROVE  DisciplineInv'
  OBVIOUS
<1>1. CASE SendMessages \/ UNCHANGED vars
  <2>1. UNCHANGED <<script, conn_infos_, connections_, phase, lkey, aborted>>
    BY <1>1 DEF SendMessages, vars, lineageVars
  <2>2. TypeOK'
    BY TypeStep DEF DisciplineInv
  <2>3. QED
    BY <2>1, <2>2 DEF DisciplineInv, CallsInv, OneLineagePerKey, AllTracked,
                      Tracked, Alive, NoAbort
<1>2. QED
  BY <1>1, DisciplineCaller, DisciplineIo DEF Next

\* For a disciplined caller, no connection escapes the registry, and no retry
\* finds its parameters gone.
THEOREM DisciplineCorrect ==
    ASSUME Disciplined
    PROVE  Spec => [](AllTracked /\ NoAbort)
<1>1. Init => DisciplineInv
  BY DisciplineInit
<1>2. DisciplineInv => AllTracked /\ NoAbort
  BY DEF DisciplineInv
<1>3. QED
  BY <1>1, <1>2, DisciplineStep, PTL DEF Spec

\* Callers that never add a key twice never bring about the exception that
\* ends the process: a retry always finds the parameters of its key.
THEOREM NoAbortCorrect ==
    ASSUME Disciplined
    PROVE  Spec => []NoAbort
<1>1. Spec => [](AllTracked /\ NoAbort)
  BY DisciplineCorrect
<1>2. QED
  BY <1>1, PTL

-----------------------------------------------------------------------------
(* Closing is final.                                                       *)

\* What becomes of a connection lost while reconnection is off.
Off(l) ==
    \/ phase[l] \in {"open", "lost"} /\ RetryOff(l)
    \/ phase[l] = "erased" /\ snap[l].auto = FALSE
    \/ phase[l] = "done"

\* Nobody turns reconnection on again while the connection is there.
LEMMA StaysOff ==
    ASSUME DisciplineInv, NEW l \in Lineage, phase[l] \in {"open", "lost"},
           RetryOff(l), [Next]_vars
    PROVE  RetryOff(l)' /\ lkey'[l] = lkey[l]
<1> DEFINE k == lkey[l]
<1>0. /\ TypeOK /\ k \in Key /\ script \in Seq(Call)
      /\ conn_infos_[k] \in Info /\ conn_infos_[k].auto = FALSE
  BY StartedKey, InfoFields DEF DisciplineInv, RetryOff, TypeOK
<1>1. SUFFICES /\ lkey'[l] = k
               /\ \/ conn_infos_'[k] = conn_infos_[k]
                  \/ conn_infos_'[k] = [conn_infos_[k] EXCEPT !.auto = FALSE]
  <2>1. [conn_infos_[k] EXCEPT !.auto = FALSE].auto = FALSE
    BY <1>0 DEF Info
  <2>2. [conn_infos_[k] EXCEPT !.auto = FALSE] \in Info
    BY <1>0, InfoFields
  <2>3. QED
    BY <1>0, <2>1, <2>2, InfoFields DEF RetryOff
<1>2. CASE Caller
  <2>1. ~ReloadConnections /\ ~ClearInfos
    BY <1>0 DEF DisciplineInv, CallsInv, ReloadConnections, ClearInfos, Calling
  <2>2. CASE StartThreads
    BY <2>2 DEF StartThreads, lineageVars
  <2>3. CASE AddConnection
    <3>1. 1 \in DOMAIN script /\ script[1] = Head(script)
          /\ Head(script).op = "add"
      BY <1>0, <2>3, CurrentCall DEF AddConnection
    <3>2. Head(script).key # k
      BY <3>1 DEF DisciplineInv, CallsInv, Adds
    <3>3. QED
      BY <1>0, <2>3, <3>2 DEF AddConnection, TypeOK, lineageVars
  <2>4. ASSUME NEW m \in Lineage, Connect(m)
        PROVE  /\ lkey'[l] = k
               /\ conn_infos_'[k] = conn_infos_[k]
    <3>1. m # l
      BY <2>4 DEF Connect
    <3>2. QED
      BY <1>0, <2>4, <3>1, InfoFields DEF Connect, DoConnect, TypeOK
  <2>5. CASE CloseConnection
    BY <1>0, <2>5 DEF CloseConnection, TypeOK, lineageVars
  <2>6. QED
    BY <1>2, <2>1, <2>2, <2>3, <2>4, <2>5 DEF Caller
<1>3. ASSUME NEW m \in Lineage, Io(m)
      PROVE  lkey'[l] = k /\ conn_infos_'[k] = conn_infos_[k]
  <2>1. CASE FinishClosed(m)
    <3>1. m # l /\ phase[m] # "idle"
      BY <2>1 DEF FinishClosed
    <3>2. lkey[m] # k
      BY <3>1 DEF DisciplineInv, OneLineagePerKey
    <3>3. QED
      BY <1>0, <2>1, <3>2 DEF FinishClosed, TypeOK
  <2>2. CASE RetryTimer(m)
    <3>1. m # l
      BY <2>2 DEF RetryTimer
    <3>2. QED
      BY <1>0, <2>2, <3>1, InfoFields DEF RetryTimer, DoConnect, TypeOK
  <2>3. CASE ~FinishClosed(m) /\ ~RetryTimer(m)
    BY <1>3, <2>3 DEF Io, Handlers, Connected, ConnectFailed, CycleEnds,
       RunError, RunPush, RunClose, EraseClosed, Die, lineageVars
  <2>4. QED
    BY <2>1, <2>2, <2>3
<1>4. CASE SendMessages \/ UNCHANGED vars
  BY <1>4 DEF SendMessages, vars, lineageVars
<1>5. QED
  BY <1>2, <1>3, <1>4 DEF Next

LEMMA OffStep ==
    ASSUME DisciplineInv, NEW l \in Lineage, Off(l), [Next]_vars
    PROVE  Off(l)'
<1>0. TypeOK /\ lkey[l] \in Key
  BY StartedKey DEF DisciplineInv, Off
<1>1. ASSUME NEW m \in Lineage, Io(m), m # l
      PROVE  phase'[l] = phase[l] /\ snap'[l] = snap[l]
  <2>1. phase[m] # "idle" /\ lkey[m] \in Key
    <3>1. phase[m] # "idle"
      BY <1>1 DEF Io, Handlers, Connected, ConnectFailed, CycleEnds, RunError,
         RunPush, RunClose, EraseClosed, FinishClosed, RetryTimer
    <3>2. QED
      BY <1>0, <3>1, StartedKey
  <2>2. CASE Connected(m) \/ CycleEnds(m) \/ EraseClosed(m)
    <3>1. \A k \in Key \ {lkey[m]} : connections_'[k] = connections_[k]
      BY <1>0, <2>1, <2>2 DEF Connected, CycleEnds, EraseClosed, TypeOK
    <3>2. PICK p \in Phase : Advance(m, p)
      BY <2>2 DEF Connected, CycleEnds, EraseClosed, Phase
    <3>3. phase'[l] = phase[l]
      BY <1>1, <2>1, <3>1, <3>2, NoneDestroyed
    <3>4. snap'[l] = snap[l]
      BY <1>0, <1>1, <2>2
         DEF Connected, CycleEnds, EraseClosed, lineageVars, TypeOK
    <3>5. QED
      BY <3>3, <3>4
  <2>3. CASE ~(Connected(m) \/ CycleEnds(m) \/ EraseClosed(m))
    BY <1>0, <1>1, <2>3 DEF Io, Handlers, ConnectFailed, RunError, RunPush,
       RunClose, FinishClosed, RetryTimer, DoConnect, Die, lineageVars, TypeOK
  <2>4. QED
    BY <2>2, <2>3
<1>2. ASSUME ~Io(l)
      PROVE  phase'[l] = phase[l] /\ snap'[l] = snap[l]
  <2>1. CASE Caller
    BY <1>0, <2>1 DEF Off, Caller, StartThreads, AddConnection, Connect,
       DoConnect, CloseConnection, ReloadConnections, ClearInfos, lineageVars,
       TypeOK
  <2>2. CASE SendMessages \/ UNCHANGED vars
    BY <2>2 DEF SendMessages, vars, lineageVars
  <2>3. QED
    BY <1>1, <1>2, <2>1, <2>2 DEF Next
<1>3. CASE phase[l] \in {"open", "lost"} /\ RetryOff(l)
  <2>1. RetryOff(l)'
    BY <1>3, StaysOff
  <2>2. CASE ~Io(l)
    BY <1>2, <1>3, <2>1, <2>2 DEF Off
  <2>3. CASE EraseClosed(l)
    <3>1. phase'[l] = "erased"
      BY <1>0, <2>3, AdvanceType DEF EraseClosed, Phase
    <3>2. snap'[l] = conn_infos_[lkey[l]]
      BY <1>0, <1>3, <2>3 DEF EraseClosed, RetryOff, TypeOK
    <3>3. snap'[l].auto = FALSE
      <4>1. conn_infos_[lkey[l]] \in Info
        BY <1>0, <1>3 DEF RetryOff, TypeOK
      <4>2. QED
        BY <1>3, <3>2, <4>1, InfoFields DEF RetryOff
    <3>4. QED
      BY <3>1, <3>3 DEF Off
  <2>4. CASE Io(l) /\ ~EraseClosed(l)
    <3>1. phase'[l] \in {"open", "lost", "done"}
      <4>1. CASE CycleEnds(l)
        BY <1>0, <4>1, AdvanceType DEF CycleEnds, Phase
      <4>2. CASE ~CycleEnds(l)
        BY <1>0, <1>3, <2>4, <4>2 DEF Io, Handlers, Connected, ConnectFailed,
           RunError, RunPush, RunClose, FinishClosed, RetryTimer, Die, TypeOK
      <4>3. QED
        BY <4>1, <4>2
    <3>2. QED
      BY <2>1, <3>1 DEF Off
  <2>5. QED
    BY <2>2, <2>3, <2>4
<1>4. CASE phase[l] = "erased" /\ snap[l].auto = FALSE
  <2>1. CASE ~Io(l)
    BY <1>2, <1>4, <2>1 DEF Off
  <2>2. CASE Io(l)
    <3>1. FinishClosed(l)
      BY <1>4, <2>2 DEF Io, Handlers, Connected, ConnectFailed, CycleEnds,
         RunError, RunPush, RunClose, EraseClosed, RetryTimer
    <3>2. phase'[l] = "done"
      BY <1>0, <1>4, <3>1 DEF FinishClosed, WillRetry, TypeOK
    <3>3. QED
      BY <3>2 DEF Off
  <2>3. QED
    BY <2>1, <2>2
<1>5. CASE phase[l] = "done"
  <2>1. ~Io(l)
    BY <1>5 DEF Io, Handlers, Connected, ConnectFailed, CycleEnds, RunError,
       RunPush, RunClose, EraseClosed, FinishClosed, RetryTimer
  <2>2. QED
    BY <1>2, <1>5, <2>1 DEF Off
<1>6. QED
  BY <1>3, <1>4, <1>5 DEF Off

\* For a disciplined caller, close_connection is final as long as the callback
\* has not copied the parameters, whatever errors and requests are on the way.
THEOREM CloseIsFinalCorrect ==
    ASSUME Disciplined
    PROVE  Spec => CloseIsFinal
<1>1. Spec => []DisciplineInv
  <2>1. Init => DisciplineInv
    BY DisciplineInit
  <2>2. QED
    BY <2>1, DisciplineStep, PTL DEF Spec
<1>2. ASSUME NEW l \in Lineage
      PROVE  Spec => [](phase[l] \in {"open", "lost"} /\ RetryOff(l)
                          => [](phase[l] \notin {"backoff", "connecting"}))
  <2>1. phase[l] \in {"open", "lost"} /\ RetryOff(l) => Off(l)
    BY DEF Off
  <2>2. Off(l) => phase[l] \notin {"backoff", "connecting"}
    BY DEF Off
  <2>3. DisciplineInv /\ Off(l) /\ [Next]_vars => Off(l)'
    BY OffStep
  <2>4. QED
    BY <1>1, <2>1, <2>2, <2>3, PTL DEF Spec
<1>3. QED
  BY <1>2 DEF CloseIsFinal

-----------------------------------------------------------------------------
(* The hot reload program, for any servers: what the reload builds is not  *)
(* disturbed by what it replaces, and only an old lineage that survives    *)
(* the reload can end the program.                                         *)

NewCall(c) == Adds(c) /\ c.key \in NewKey

\* The calls left.  The new servers come last, each once, and are met by no
\* lineage of their key; as long as another call is left there is no lineage
\* of a new server at all, so nothing that call does can disturb one.  An old
\* server is added while no io thread runs.
CallOK(i) ==
    /\ script[i].op = "connect" => i = 1 /\ conn_infos_[script[i].key] # None
    /\ script[i].op = "reload" => i = Len(script) /\ NewParams(script[i].params)
    /\ NewCall(script[i]) => \A l \in Lineage : lkey[l] # script[i].key
    /\ ~NewCall(script[i]) => \A l \in Lineage : lkey[l] \notin NewKey
    /\ Adds(script[i]) /\ ~NewCall(script[i]) =>
          \E j \in DOMAIN script : i < j /\ script[j].op = "run"

MainInv ==
    /\ \A i \in DOMAIN script : CallOK(i)
    /\ \A i, j \in DOMAIN script :
          /\ NewCall(script[i]) /\ i < j => NewCall(script[j])
          /\ NewCall(script[i]) /\ NewCall(script[j])
                /\ script[i].key = script[j].key => i = j

OneNewLineage ==
    \A l, m \in Lineage : lkey[l] \in NewKey /\ lkey[l] = lkey[m] => l = m

HotInv == TypeOK /\ MainInv /\ OneNewLineage /\ NewTracked

LEMMA NoneNotKey == None \notin NewKey /\ None \notin OldKey
                        /\ NewKey \subseteq Key /\ OldKey \subseteq Key
  BY KeysAssumption, InfoFields

LEMMA HotInit == RunsMain /\ Init => HotInv
<1> SUFFICES ASSUME RunsMain, Init PROVE HotInv
  OBVIOUS
<1> DEFINE n == Len(script)
<1>1. \A l \in Lineage : lkey[l] = None
  BY DEF Init
<1>2. /\ script \in Seq(Call) /\ n >= 2 /\ script[n].op = "reload"
      /\ NewParams(script[n].params) /\ script[n - 1].op = "run"
      /\ \A i \in 1 .. n - 2 : script[i].op = "add" /\ script[i].key \in OldKey
  BY ConstantsAssumption DEF Init, RunsMain
<1>3. n \in Nat /\ DOMAIN script = 1..n
  BY <1>2
<1> HIDE DEF n
<1>4. ASSUME NEW i \in 1..n
      PROVE  \/ i = n /\ script[i].op = "reload" /\ NewParams(script[i].params)
             \/ i = n - 1 /\ script[i].op = "run"
             \/ i < n - 1 /\ script[i].op = "add" /\ script[i].key \in OldKey
  BY <1>2, <1>3
<1>5. \A i \in 1..n : ~NewCall(script[i])
  BY <1>4, KeysAssumption DEF NewCall, Adds
<1>6. n - 1 \in 1..n
  BY <1>2, <1>3
<1>7. ASSUME NEW i \in 1..n PROVE CallOK(i)
  <2>1. Adds(script[i]) => i < n - 1
    BY <1>4 DEF Adds
  <2>2. script[i].op # "connect"
    BY <1>4
  <2>3. script[i].op = "reload" => i = n /\ NewParams(script[i].params)
    BY <1>4
  <2> QED
    BY <1>1, <1>2, <1>3, <1>5, <1>6, <2>1, <2>2, <2>3, NoneNotKey DEF CallOK, n
<1>8. MainInv
  BY <1>3, <1>5, <1>7 DEF MainInv
<1>9. OneNewLineage /\ NewTracked
  BY <1>1, NoneNotKey DEF OneNewLineage, NewTracked, OfKeys
<1> QED
  BY <1>8, <1>9, TypeInit DEF HotInv

-----------------------------------------------------------------------------
(* The caller.                                                             *)

\* The caller moves on, whatever lineage it may have started.
LEMMA MainAdvance ==
    ASSUME TypeOK, MainInv, script # <<>>, script' = Tail(script),
           \A i \in DOMAIN script : i # 1 =>
              /\ NewCall(script[i]) =>
                    \A l \in Lineage : lkey'[l] # script[i].key
              /\ ~NewCall(script[i]) =>
                    \A l \in Lineage : lkey'[l] \notin NewKey
    PROVE  MainInv'
<1>1. /\ \A i \in DOMAIN script' :
            /\ i + 1 \in DOMAIN script /\ i + 1 # 1 /\ i \in Nat
            /\ script'[i] = script[i + 1]
      /\ \A i, j \in DOMAIN script' : i < j <=> i + 1 < j + 1
      /\ Len(script') = Len(script) - 1 /\ Len(script) \in Nat
  BY DEF TypeOK
<1>2. \A j \in DOMAIN script : j > 1 => j - 1 \in DOMAIN script'
  BY DEF TypeOK
<1>3. ASSUME NEW i \in DOMAIN script' PROVE CallOK(i)'
  <2>1. CallOK(i + 1) /\ script'[i] = script[i + 1]
    BY <1>1 DEF MainInv
  <2>2. script'[i].op # "connect"
    BY <1>1, <2>1 DEF CallOK
  <2>3. script'[i].op = "reload" =>
           i = Len(script') /\ NewParams(script'[i].params)
    BY <1>1, <2>1 DEF CallOK
  <2>4. ASSUME Adds(script'[i]), ~NewCall(script'[i])
        PROVE  \E j \in DOMAIN script' : i < j /\ script'[j].op = "run"
    <3>1. PICK j \in DOMAIN script : i + 1 < j /\ script[j].op = "run"
      BY <2>1, <2>4 DEF CallOK
    <3>2. j - 1 \in DOMAIN script' /\ i < j - 1 /\ (j - 1) + 1 = j
      BY <1>1, <1>2, <3>1 DEF TypeOK
    <3> QED
      BY <1>1, <3>1, <3>2
  <2>5. /\ NewCall(script'[i]) =>
              \A l \in Lineage : lkey'[l] # script'[i].key
        /\ ~NewCall(script'[i]) =>
              \A l \in Lineage : lkey'[l] \notin NewKey
    BY <1>1
  <2> QED
    BY <2>2, <2>3, <2>4, <2>5 DEF CallOK, NewCall, Adds
<1>4. ASSUME NEW i \in DOMAIN script', NEW j \in DOMAIN script'
      PROVE  /\ NewCall(script'[i]) /\ i < j => NewCall(script'[j])
             /\ NewCall(script'[i]) /\ NewCall(script'[j])
                   /\ script'[i].key = script'[j].key => i = j
  <2>1. i + 1 \in DOMAIN script /\ j + 1 \in DOMAIN script
        /\ (i < j => i + 1 < j + 1) /\ (i + 1 = j + 1 => i = j)
    BY <1>1
  <2> QED
    BY <1>1, <2>1 DEF MainInv
<1> QED
  BY <1>3, <1>4 DEF MainInv, NewCall, Adds

\* The calls that add no server come before any lineage of a new one.
LEMMA OtherCall ==
    ASSUME HotInv, TypeOK', script # <<>>, script' = Tail(script),
           Head(script).op \in {"run", "close", "clear"}, UNCHANGED lkey
    PROVE  HotInv'
<1>1. 1 \in DOMAIN script /\ Head(script) = script[1]
  BY DEF HotInv, TypeOK
<1>2. \A l \in Lineage : lkey[l] \notin NewKey
  BY <1>1 DEF HotInv, MainInv, CallOK, NewCall, Adds
<1>3. MainInv'
  <2>1. \A i \in DOMAIN script :
           /\ NewCall(script[i]) =>
                 \A l \in Lineage : lkey[l] # script[i].key
           /\ ~NewCall(script[i]) => \A l \in Lineage : lkey[l] \notin NewKey
    BY DEF HotInv, MainInv, CallOK
  <2> QED
    BY <2>1, MainAdvance DEF HotInv
<1>4. OneNewLineage' /\ NewTracked'
  BY <1>2 DEF OneNewLineage, NewTracked, OfKeys
<1> QED
  BY <1>3, <1>4 DEF HotInv

LEMMA HotAdd == HotInv /\ AddConnection => HotInv'
<1> SUFFICES ASSUME HotInv, AddConnection PROVE HotInv'
  OBVIOUS
<1> DEFINE c == Head(script)
           d == [op |-> "connect", key |-> c.key, type |-> c.info.type]
<1>0. TypeOK /\ TypeOK' /\ script \in Seq(Call)
  BY CallerType DEF HotInv, TypeOK, Caller
<1>1. script # <<>> /\ c.op = "add" /\ c.key \in Key /\ c.info \in Info
  BY <1>0, CurrentCall, CallFields DEF AddConnection
<1>2. /\ script' = <<d>> \o Tail(script)
      /\ conn_infos_' = [conn_infos_ EXCEPT ![c.key] = c.info]
      /\ UNCHANGED <<phase, lkey, connections_>>
  BY DEF AddConnection, lineageVars
<1>3. /\ DOMAIN script' = DOMAIN script
      /\ script'[1] = d /\ 1 \in DOMAIN script /\ script[1] = c
      /\ \A i \in DOMAIN script : i # 1 => script'[i] = script[i]
  BY <1>0, <1>1, <1>2, ReplacedCall
<1>4. /\ conn_infos_'[c.key] # None
      /\ \A k \in Key : conn_infos_[k] # None => conn_infos_'[k] # None
  BY <1>0, <1>1, <1>2, InfoFields DEF TypeOK
<1>5. d.op = "connect" /\ d.key = c.key
  OBVIOUS
<1>6. Len(script') = Len(script)
  <2>1. Len(<<d>> \o Tail(script)) = Len(script)
    BY <1>0, <1>1
  <2> QED
    BY <1>2, <2>1
<1> HIDE DEF c, d
<1>7. \A i \in DOMAIN script :
         /\ Adds(script'[i]) <=> Adds(script[i])
         /\ NewCall(script'[i]) <=> NewCall(script[i])
         /\ NewCall(script[i]) => script'[i].key = script[i].key
         /\ script[i].op = "run" => script'[i].op = "run"
         /\ script'[i].op = "reload" => script'[i] = script[i]
  BY <1>1, <1>3, <1>5 DEF Adds, NewCall
<1>8. ASSUME NEW i \in DOMAIN script' PROVE CallOK(i)'
  <2>0. CallOK(i) /\ i \in DOMAIN script
    BY <1>3 DEF HotInv, MainInv
  <2>1. script'[i].op = "connect" =>
           i = 1 /\ conn_infos_'[script'[i].key] # None
    BY <1>3, <1>4, <1>5, <2>0 DEF CallOK
  <2>2. script'[i].op = "reload" =>
           i = Len(script') /\ NewParams(script'[i].params)
    BY <1>6, <1>7, <2>0 DEF CallOK
  <2>3. /\ NewCall(script'[i]) =>
              \A l \in Lineage : lkey'[l] # script'[i].key
        /\ ~NewCall(script'[i]) =>
              \A l \in Lineage : lkey'[l] \notin NewKey
    BY <1>2, <1>7, <2>0 DEF CallOK
  <2>4. Adds(script'[i]) /\ ~NewCall(script'[i]) =>
           \E j \in DOMAIN script' : i < j /\ script'[j].op = "run"
    BY <1>3, <1>7, <2>0 DEF CallOK
  <2> QED
    BY <2>1, <2>2, <2>3, <2>4 DEF CallOK, NewCall, Adds
<1>9. MainInv'
  <2>1. \A i, j \in DOMAIN script' :
          /\ NewCall(script'[i]) /\ i < j => NewCall(script'[j])
          /\ NewCall(script'[i]) /\ NewCall(script'[j])
                /\ script'[i].key = script'[j].key => i = j
    BY <1>3, <1>7 DEF HotInv, MainInv
  <2> QED
    BY <1>8, <2>1 DEF MainInv, NewCall, Adds
<1>10. OneNewLineage' /\ NewTracked'
  BY <1>2, <1>4, NoneNotKey
     DEF HotInv, OneNewLineage, NewTracked, OfKeys, Tracked, Alive
<1> QED
  BY <1>0, <1>9, <1>10 DEF HotInv

LEMMA HotConnect == ASSUME HotInv, NEW l \in Lineage, Connect(l) PROVE HotInv'
<1> DEFINE k == Head(script).key
<1>0. TypeOK /\ TypeOK' /\ script \in Seq(Call)
  BY CallerType DEF HotInv, TypeOK, Caller
<1>1. /\ script # <<>> /\ Head(script).op = "connect" /\ k \in Key
      /\ phase[l] = "idle" /\ script' = Tail(script)
  BY <1>0, CurrentCall, CallFields DEF Connect
<1>2. 1 \in DOMAIN script /\ script[1] = Head(script)
  BY <1>0, <1>1
<1>3. CallOK(1) /\ conn_infos_[k] # None
  BY <1>1, <1>2 DEF HotInv, MainInv, CallOK
<1>4. k \in NewKey <=> NewCall(script[1])
  BY <1>1, <1>2 DEF NewCall, Adds
<1>5. /\ phase'[l] = "connecting" /\ lkey'[l] = k /\ lkey[l] = None
      /\ conn_infos_' = conn_infos_ /\ connections_' = connections_
      /\ \A m \in Lineage \ {l} : phase'[m] = phase[m] /\ lkey'[m] = lkey[m]
  BY <1>0, <1>1, <1>3 DEF Connect, DoConnect, TypeOK
<1>6. k = script[1].key
  BY <1>2
<1> HIDE DEF k
<1>7. ASSUME NEW i \in DOMAIN script, i # 1
      PROVE  /\ NewCall(script[i]) =>
                   \A m \in Lineage : lkey'[m] # script[i].key
             /\ ~NewCall(script[i]) =>
                   \A m \in Lineage : lkey'[m] \notin NewKey
  <2>1. CallOK(i) /\ 1 < i
    BY <1>0, <1>7 DEF HotInv, MainInv
  <2>2. NewCall(script[i]) => k # script[i].key
    BY <1>2, <1>4, <1>6, <1>7 DEF HotInv, MainInv, NewCall
  <2>3. ~NewCall(script[i]) => k \notin NewKey
    BY <1>2, <1>4, <1>7, <2>1 DEF HotInv, MainInv
  <2> QED
    BY <1>5, <2>1, <2>2, <2>3 DEF CallOK
<1>8. MainInv'
  BY <1>1, <1>7, MainAdvance DEF HotInv
<1>9. OneNewLineage'
  <2>1. k \in NewKey => \A m \in Lineage : lkey[m] # k
    BY <1>3, <1>4, <1>6 DEF CallOK
  <2> QED
    BY <1>5, <2>1 DEF HotInv, OneNewLineage
<1>10. NewTracked'
  <2>1. Tracked(l)'
    BY <1>3, <1>5 DEF Tracked
  <2>2. ASSUME NEW m \in Lineage \ {l}, lkey'[m] \in NewKey PROVE Tracked(m)'
    BY <1>5, <2>2 DEF HotInv, NewTracked, OfKeys, Tracked, Alive
  <2> QED
    BY <2>1, <2>2 DEF NewTracked, OfKeys
<1> QED
  BY <1>0, <1>8, <1>9, <1>10 DEF HotInv

\* The calls a reload leaves: the old servers are closed, the parameters are
\* cleared, and the new servers are added.
LEMMA ReloadCalls ==
    ASSUME NEW q \in Seq(Call), NEW p \in Seq(Call), NEW r \in Seq(Call),
           Len(r) = 0
    PROVE  /\ DOMAIN (q \o p \o r) = 1 .. Len(q) + Len(p)
           /\ \A i \in 1 .. Len(q) : (q \o p \o r)[i] = q[i]
           /\ \A i \in Len(q) + 1 .. Len(q) + Len(p) :
                 /\ i - Len(q) \in 1 .. Len(p)
                 /\ (q \o p \o r)[i] = p[i - Len(q)]
  OBVIOUS

LEMMA HotReloadStep ==
    ASSUME HotInv, ReloadConnections
    PROVE  /\ HotInv'
           /\ \A i \in DOMAIN script' : script'[i].op \in {"close", "clear", "add"}
<1>0. TypeOK /\ TypeOK' /\ script \in Seq(Call)
  BY CallerType DEF HotInv, TypeOK, Caller
<1>1. /\ script # <<>> /\ Head(script).op = "reload"
      /\ Head(script).params \in Seq(AddCall)
  BY <1>0, CurrentCall, CallFields DEF ReloadConnections
<1>2. 1 \in DOMAIN script /\ script[1] = Head(script)
  BY <1>0, <1>1
<1>3. CallOK(1) /\ 1 = Len(script) /\ NewParams(Head(script).params)
  BY <1>1, <1>2 DEF HotInv, MainInv, CallOK
<1>4. \A l \in Lineage : lkey'[l] \notin NewKey
  BY <1>1, <1>2, <1>3 DEF CallOK, NewCall, Adds, ReloadConnections, lineageVars
<1> DEFINE r == Tail(script)
<1>5. r \in Seq(Call) /\ Len(r) = 0
  BY <1>0, <1>1, <1>3
<1> HIDE DEF r
<1>6. PICK q \in Seq(Call) :
         /\ script' = q \o Head(script).params \o r
         /\ \A i \in 1 .. Len(q) : q[i].op \in {"close", "clear"}
  <2> DEFINE keys == {k \in Key : connections_[k] # None}
             n == Cardinality(keys)
  <2>1. PICK order \in [1..n -> keys] :
           script' = [i \in 1..n |-> [op |-> "close", key |-> order[i]]]
                        \o <<[op |-> "clear"]>>
                        \o Head(script).params \o Tail(script)
    BY DEF ReloadConnections
  <2>2. n \in Nat /\ keys \subseteq Key
    BY FS_Subset, FS_CardinalityType, ConstantsAssumption
  <2> DEFINE a == [i \in 1..n |-> [op |-> "close", key |-> order[i]]]
  <2> HIDE DEF n, keys
  <2>3. a \in Seq(Call)
    BY <2>2, CallConstructors
  <2>4. Len(a) = n /\ \A i \in 1..n : a[i].op = "close"
    BY <2>2
  <2> DEFINE q == a \o <<[op |-> "clear"]>>
  <2>5. script' = q \o Head(script).params \o r
    BY <2>1 DEF r
  <2> HIDE DEF a
  <2>6. q \in Seq(Call) /\ Len(q) = n + 1
    BY <2>2, <2>3, <2>4, CallConstructors
  <2>7. \A i \in 1 .. Len(q) : q[i].op \in {"close", "clear"}
    BY <2>2, <2>3, <2>4, <2>6
  <2> QED
    BY <2>5, <2>6, <2>7
<1> DEFINE p == Head(script).params
           N == Len(q)
<1>7. p \in Seq(Call)
  BY <1>1, CallConstructors
<1>8. \A i \in DOMAIN p : p[i].op = "add" /\ p[i].key \in NewKey
  <2>1. p \in Seq(AddCall) /\ \A i \in DOMAIN p : p[i].key \in NewKey
    BY <1>1, <1>3 DEF NewParams
  <2> HIDE DEF p
  <2>2. \A i \in DOMAIN p : p[i] \in AddCall
    BY <2>1
  <2> QED
    BY <2>1, <2>2 DEF AddCall
<1>9. \A i, j \in DOMAIN p : p[i].key = p[j].key => i = j
  BY <1>3 DEF NewParams
<1>10. N \in Nat /\ Len(p) \in Nat /\ DOMAIN p = 1 .. Len(p)
  BY <1>6, <1>7
<1>11. script' = q \o p \o r
  BY <1>6
<1> HIDE DEF p
<1>12. /\ DOMAIN script' = 1 .. N + Len(p)
       /\ \A i \in 1 .. N : script'[i] = q[i]
       /\ \A i \in N + 1 .. N + Len(p) :
             i - N \in 1 .. Len(p) /\ script'[i] = p[i - N]
  <2>1. \A q_ \in Seq(Call), p_ \in Seq(Call), r_ \in Seq(Call) :
           Len(r_) = 0 =>
           /\ DOMAIN (q_ \o p_ \o r_) = 1 .. Len(q_) + Len(p_)
           /\ \A i \in 1 .. Len(q_) : (q_ \o p_ \o r_)[i] = q_[i]
           /\ \A i \in Len(q_) + 1 .. Len(q_) + Len(p_) :
                 /\ i - Len(q_) \in 1 .. Len(p_)
                 /\ (q_ \o p_ \o r_)[i] = p_[i - Len(q_)]
    BY ReloadCalls
  <2>2. q \in Seq(Call)
    OBVIOUS
  <2>3. /\ DOMAIN (q \o p \o r) = 1 .. Len(q) + Len(p)
        /\ \A i \in 1 .. Len(q) : (q \o p \o r)[i] = q[i]
        /\ \A i \in Len(q) + 1 .. Len(q) + Len(p) :
              /\ i - Len(q) \in 1 .. Len(p)
              /\ (q \o p \o r)[i] = p[i - Len(q)]
    BY <1>5, <1>7, <2>1, <2>2, Zenon
  <2> QED
    BY <1>11, <2>3, Zenon
<1>13. \A i \in 1 .. N : script'[i].op \in {"close", "clear"}
  BY <1>6, <1>12
<1> HIDE DEF N
<1>14. \A i \in DOMAIN script' :
          \/ i <= N /\ script'[i].op \in {"close", "clear"}
          \/ /\ i > N /\ script'[i].op = "add" /\ script'[i].key \in NewKey
             /\ i - N \in DOMAIN p /\ script'[i].key = p[i - N].key
  <2> TAKE i \in DOMAIN script'
  <2>1. i \in Nat /\ 1 <= i /\ i <= N + Len(p)
    BY <1>10, <1>12
  <2>2. CASE i <= N
    <3>1. i \in 1 .. N
      BY <1>10, <2>1, <2>2
    <3> QED
      BY <1>13, <2>2, <3>1
  <2>3. CASE i > N
    <3>1. i \in N + 1 .. N + Len(p)
      BY <1>10, <2>1, <2>3
    <3>2. i - N \in DOMAIN p /\ script'[i] = p[i - N]
      BY <1>10, <1>12, <3>1
    <3> QED
      BY <1>8, <2>3, <3>2
  <2> QED
    BY <1>10, <2>1, <2>2, <2>3
<1>15. \A i \in DOMAIN script' :
          /\ NewCall(script'[i]) <=> i > N
          /\ Adds(script'[i]) <=> i > N
  BY <1>10, <1>12, <1>14 DEF NewCall, Adds
<1>16. \A i \in DOMAIN script' : CallOK(i)'
  BY <1>4, <1>14, <1>15 DEF CallOK, NewCall, Adds
<1>17. ASSUME NEW i \in DOMAIN script', NEW j \in DOMAIN script'
       PROVE  /\ NewCall(script'[i]) /\ i < j => NewCall(script'[j])
              /\ NewCall(script'[i]) /\ NewCall(script'[j])
                    /\ script'[i].key = script'[j].key => i = j
  <2>1. i \in Nat /\ j \in Nat
    BY <1>12
  <2>2. i > N /\ j > N /\ script'[i].key = script'[j].key => i - N = j - N
    BY <1>9, <1>10, <1>14, <2>1
  <2> QED
    BY <1>10, <1>15, <2>1, <2>2
<1>18. MainInv'
  BY <1>16, <1>17 DEF MainInv, NewCall, Adds
<1>19. HotInv'
  BY <1>0, <1>4, <1>18 DEF HotInv, OneNewLineage, NewTracked, OfKeys
<1>20. \A i \in DOMAIN script' : script'[i].op \in {"close", "clear", "add"}
  BY <1>14
<1> QED
  BY <1>19, <1>20

LEMMA HotCaller == HotInv /\ Caller => HotInv'
<1> SUFFICES ASSUME HotInv, Caller PROVE HotInv'
  OBVIOUS
<1>1. CASE StartThreads \/ CloseConnection \/ ClearInfos
  <2>1. /\ script # <<>> /\ script' = Tail(script)
        /\ Head(script).op \in {"run", "close", "clear"}
        /\ UNCHANGED lkey
    BY <1>1 DEF StartThreads, CloseConnection, ClearInfos, Calling, lineageVars
  <2>2. TypeOK'
    BY CallerType DEF HotInv
  <2> QED
    BY <2>1, <2>2, OtherCall
<1> QED
  BY <1>1, HotAdd, HotConnect, HotReloadStep DEF Caller

-----------------------------------------------------------------------------
(* The io threads.                                                         *)

\* A lineage touches the entries of its own key; of the others it may only
\* destroy an unregistered connection.
LEMMA IoFrame ==
    ASSUME TypeOK, NEW l \in Lineage, Io(l)
    PROVE  /\ lkey[l] \in Key
           /\ UNCHANGED <<script, lkey>>
           /\ \A k \in Key \ {lkey[l]} : /\ connections_'[k] = connections_[k]
                                         /\ conn_infos_'[k] = conn_infos_[k]
           /\ \A m \in Lineage \ {l} : phase'[m] \in {phase[m], "done"}
<1>1. phase[l] # "idle"
  BY DEF Io, Handlers, Connected, ConnectFailed, CycleEnds, RunError, RunPush,
         RunClose, EraseClosed, FinishClosed, RetryTimer
<1>2. lkey[l] \in Key
  BY <1>1, StartedKey
<1>3. UNCHANGED <<script, lkey>>
  <2>1. CASE RetryTimer(l)
    BY <2>1 DEF RetryTimer, DoConnect, TypeOK
  <2> QED
    BY <2>1 DEF Io, Handlers, Connected, ConnectFailed, CycleEnds, RunError,
                RunPush, RunClose, Die, EraseClosed, FinishClosed, lineageVars
<1>4. ASSUME NEW k \in Key \ {lkey[l]}
      PROVE  connections_'[k] = connections_[k] /\ conn_infos_'[k] = conn_infos_[k]
  <2>1. CASE RetryTimer(l) \/ FinishClosed(l)
    BY <1>2, <2>1 DEF RetryTimer, DoConnect, FinishClosed, TypeOK
  <2>2. CASE Connected(l) \/ EraseClosed(l)
    BY <1>2, <2>2 DEF Connected, EraseClosed, TypeOK
  <2> QED
    BY <2>1, <2>2 DEF Io, Handlers, ConnectFailed, CycleEnds, RunError,
                      RunPush, RunClose, Die
<1>5. ASSUME NEW m \in Lineage \ {l} PROVE phase'[m] \in {phase[m], "done"}
  <2>1. CASE \E p : Advance(l, p)
    BY <2>1 DEF Advance
  <2>2. CASE RetryTimer(l) \/ FinishClosed(l)
    BY <2>2 DEF RetryTimer, DoConnect, FinishClosed, TypeOK
  <2>3. CASE RunPush(l) \/ RunClose(l) \/ RunError(l) \/ ConnectFailed(l)
    BY <2>3 DEF RunPush, RunClose, RunError, ConnectFailed, Die, TypeOK
  <2> QED
    BY <2>1, <2>2, <2>3 DEF Io, Handlers, Connected, CycleEnds, EraseClosed
<1> QED
  BY <1>2, <1>3, <1>4, <1>5

\* A lineage keeps itself registered and described.
LEMMA IoOwn ==
    ASSUME TypeOK, NEW l \in Lineage, Io(l), Tracked(l)
    PROVE  Tracked(l)' /\ aborted' \in {aborted, FALSE}
<1>1. lkey[l] \in Key /\ lkey' = lkey
  BY IoFrame
<1>2. CASE Connected(l)
  <2>1. /\ phase[l] = "connecting" /\ conn_infos_' = conn_infos_
        /\ connections_' = [connections_ EXCEPT ![lkey[l]] = l]
        /\ aborted' = aborted
    BY <1>2 DEF Connected
  <2>2. connections_'[lkey[l]] = l
    BY <1>1, <2>1 DEF TypeOK
  <2> QED
    BY <1>1, <2>1, <2>2 DEF Tracked, Alive
<1>3. CASE ConnectFailed(l) \/ RunPush(l)
  <2>1. /\ UNCHANGED <<conn_infos_, connections_, aborted>>
        /\ phase[l] \in {"connecting", "open"}
        /\ phase'[l] \in {phase[l], "backoff"}
    BY <1>3 DEF ConnectFailed, RunPush, TypeOK
  <2> QED
    BY <1>1, <2>1 DEF Tracked, Alive
<1>4. CASE CycleEnds(l)
  BY <1>1, <1>4 DEF CycleEnds, Tracked, Alive, Advance
<1>5. CASE RunClose(l) \/ RunError(l)
  <2>1. /\ UNCHANGED <<conn_infos_, connections_, aborted>>
        /\ phase[l] = "open" /\ phase'[l] = "lost"
    BY <1>5 DEF RunClose, RunError, Die, TypeOK
  <2> QED
    BY <1>1, <2>1 DEF Tracked, Alive
<1>6. CASE EraseClosed(l)
  <2>1. /\ UNCHANGED <<conn_infos_, aborted>>
        /\ phase[l] = "lost" /\ phase'[l] = "erased"
    BY <1>6 DEF EraseClosed, Advance
  <2> QED
    BY <1>1, <2>1 DEF Tracked, Alive
<1>7. CASE FinishClosed(l)
  <2>1. /\ phase[l] = "erased" /\ aborted' = aborted
        /\ \/ phase'[l] = "backoff" /\ conn_infos_' = conn_infos_
           \/ phase'[l] = "done"
    BY <1>7 DEF FinishClosed, TypeOK
  <2> QED
    BY <1>1, <2>1 DEF Tracked, Alive
<1>8. CASE RetryTimer(l)
  <2>1. conn_infos_[lkey[l]] # None
    BY <1>8 DEF RetryTimer, Tracked, Alive
  <2>2. phase'[l] = "connecting" /\ aborted' = FALSE /\ conn_infos_' = conn_infos_
    BY <1>1, <1>8, <2>1 DEF RetryTimer, DoConnect, TypeOK
  <2> QED
    BY <1>1, <2>1, <2>2 DEF Tracked, Alive
<1> QED
  BY <1>2, <1>3, <1>4, <1>5, <1>6, <1>7, <1>8 DEF Io, Handlers

LEMMA HotIo == ASSUME HotInv, NEW l \in Lineage, Running, Io(l) PROVE HotInv'
<1>0. TypeOK /\ TypeOK'
  BY IoType DEF HotInv
<1>1. /\ lkey[l] \in Key /\ UNCHANGED <<script, lkey>>
      /\ \A k \in Key \ {lkey[l]} : /\ connections_'[k] = connections_[k]
                                    /\ conn_infos_'[k] = conn_infos_[k]
      /\ \A m \in Lineage \ {l} : phase'[m] \in {phase[m], "done"}
  BY <1>0, IoFrame
<1>2. ASSUME NEW i \in DOMAIN script PROVE CallOK(i)'
  <2>0. CallOK(i) /\ script[i] \in Call
    BY <1>0 DEF HotInv, MainInv, TypeOK
  <2>1. ASSUME script[i].op = "connect"
        PROVE  conn_infos_'[script[i].key] # None
    <3>1. NewCall(script[i])
      BY <2>0, <2>1 DEF CallOK, Running, Adds
    <3>2. script[i].key \in Key /\ lkey[l] # script[i].key
      BY <2>0, <2>1, <3>1, CallFields DEF CallOK
    <3> QED
      BY <1>1, <2>0, <2>1, <3>2 DEF CallOK
  <2> QED
    BY <1>1, <2>0, <2>1 DEF CallOK, NewCall, Adds
<1>3. MainInv'
  BY <1>1, <1>2 DEF HotInv, MainInv, NewCall, Adds
<1>4. OneNewLineage'
  BY <1>1 DEF HotInv, OneNewLineage
<1>5. ASSUME NEW m \in Lineage, lkey'[m] \in NewKey PROVE Tracked(m)'
  <2>0. Tracked(m) /\ lkey'[m] = lkey[m]
    BY <1>1, <1>5 DEF HotInv, NewTracked, OfKeys
  <2>1. CASE m = l
    BY <1>0, <2>0, <2>1, IoOwn
  <2>2. CASE m # l
    <3>1. lkey[m] \in Key \ {lkey[l]}
      BY <1>5, <2>0, <2>2, NoneNotKey DEF HotInv, OneNewLineage
    <3> QED
      BY <1>1, <2>0, <2>2, <3>1 DEF Tracked, Alive
  <2> QED
    BY <2>1, <2>2
<1> QED
  BY <1>0, <1>3, <1>4, <1>5 DEF HotInv, NewTracked, OfKeys

LEMMA HotStep == HotInv /\ [Next]_vars => HotInv'
<1> SUFFICES ASSUME HotInv, [Next]_vars PROVE HotInv'
  OBVIOUS
<1>1. CASE SendMessages \/ UNCHANGED vars
  <2>1. UNCHANGED <<script, conn_infos_, connections_, phase, lkey>>
    BY <1>1 DEF SendMessages, vars, lineageVars
  <2>2. TypeOK'
    BY TypeStep DEF HotInv
  <2>3. \A i \in DOMAIN script : CallOK(i) => CallOK(i)'
    BY <2>1 DEF CallOK, NewCall, Adds
  <2>4. MainInv'
    BY <2>1, <2>3 DEF HotInv, MainInv, NewCall, Adds
  <2> QED
    BY <2>1, <2>2, <2>4
       DEF HotInv, OneNewLineage, NewTracked, OfKeys, Tracked, Alive
<1> QED
  BY <1>1, HotCaller, HotIo DEF Next

\* What the reload builds is not disturbed by the end of what it replaces: the
\* connections of the new servers stay registered and described, for any old
\* and new servers.
THEOREM NewTrackedCorrect == ASSUME RunsMain PROVE Spec => []NewTracked
<1>1. Init => HotInv
  BY HotInit
<1>2. HotInv => NewTracked
  BY DEF HotInv
<1> QED
  BY <1>1, <1>2, HotStep, PTL DEF Spec

\* The step that ends the program is the retry of an old lineage.
LEMMA AbortStep ==
    ASSUME HotInv, [Next]_vars, aborted', ~aborted
    PROVE  \E l \in OfKeys(OldKey) : phase[l] = "backoff" /\ phase'[l] = "done"
<1>0. TypeOK
  BY DEF HotInv
<1>1. ASSUME NEW l \in Lineage, Connect(l) PROVE FALSE
  <2>1. 1 \in DOMAIN script /\ script[1] = Head(script)
        /\ script[1].op = "connect"
    BY <1>0, <1>1 DEF Connect, Calling, TypeOK
  <2>2. conn_infos_[Head(script).key] # None
    BY <2>1 DEF HotInv, MainInv, CallOK
  <2> QED
    BY <1>1, <2>2 DEF Connect, DoConnect
<1>2. PICK l \in Lineage : Io(l)
  BY <1>1 DEF Next, Caller, StartThreads, AddConnection, CloseConnection,
              ReloadConnections, ClearInfos, SendMessages, vars
<1>3. RetryTimer(l)
  BY <1>2 DEF Io, Handlers, Connected, ConnectFailed, CycleEnds, RunError,
              RunPush, RunClose, Die, EraseClosed, FinishClosed
<1>4. ~Tracked(l) /\ lkey[l] \in Key
  BY <1>0, <1>2, IoOwn, IoFrame
<1>5. lkey[l] \in OldKey
  BY <1>4, KeysAssumption DEF HotInv, NewTracked, OfKeys
<1>6. conn_infos_[lkey[l]] = None
  BY <1>3, <1>4 DEF RetryTimer, Tracked, Alive
<1>7. phase'[l] = "done"
  BY <1>0, <1>3, <1>6 DEF RetryTimer, DoConnect, TypeOK
<1> QED
  BY <1>3, <1>5, <1>7 DEF OfKeys, RetryTimer

\* Only an old lineage that survives the reload can end the program: adding,
\* losing and retrying the new servers never does.
THEOREM OnlyOrphansAbortCorrect == ASSUME RunsMain PROVE Spec => OnlyOrphansAbort
<1>1. Init => HotInv
  BY HotInit
<1>2. HotInv /\ [Next]_vars =>
         [aborted' /\ ~aborted =>
            \E l \in OfKeys(OldKey) : phase[l] = "backoff" /\ phase'[l] = "done"]_vars
  BY AbortStep
<1> QED
  BY <1>1, <1>2, HotStep, PTL DEF Spec, OnlyOrphansAbort

-----------------------------------------------------------------------------
(* What the reload asks to close is not replaced.                          *)

\* By the time there is something to close, main has made its other calls.
ReloadInv ==
    (\E i \in DOMAIN script : script[i].op \in {"close", "clear"})
        => \A j \in DOMAIN script : script[j].op \notin {"run", "reload"}

\* The parameters of l's key are off or gone, nobody adds the key again, and a
\* retry that has been decided, or will be, finds them gone.
Doomed(l) ==
    /\ lkey[l] \in Key /\ phase[l] \notin {"idle", "connecting"}
    /\ \A i \in DOMAIN script :
          /\ script[i].op # "reload"
          /\ Adds(script[i]) => script[i].key # lkey[l]
    /\ \/ conn_infos_[lkey[l]] = None
       \/ /\ conn_infos_[lkey[l]] \in Info
          /\ conn_infos_[lkey[l]].auto = FALSE
          /\ phase[l] # "backoff"
          /\ phase[l] = "erased" => snap[l].auto = FALSE

\* ... unless that retry has ended the program.
NoneFollows(l) ==
    \/ Doomed(l)
    \/ aborted /\ phase[l] \notin {"idle", "connecting"}

Closing(l) == \E i \in DOMAIN strand[l] : strand[l][i] = "close"

ClosingInv == \A l \in Lineage : Closing(l) => NoneFollows(l)

LEMMA ReloadInvInit == RunsMain /\ Init => ReloadInv
<1> SUFFICES ASSUME RunsMain, Init, NEW i \in DOMAIN script,
                    script[i].op \in {"close", "clear"}
             PROVE  FALSE
  BY DEF ReloadInv
<1> DEFINE n == Len(script)
<1>1. /\ script \in Seq(Call) /\ n >= 2 /\ script[n].op = "reload"
      /\ script[n - 1].op = "run"
      /\ \A j \in 1 .. n - 2 : script[j].op = "add"
  BY ConstantsAssumption DEF Init, RunsMain
<1>2. n \in Nat /\ i \in 1..n
  BY <1>1
<1> HIDE DEF n
<1>3. i = n \/ i = n - 1 \/ i \in 1 .. n - 2
  BY <1>2
<1> QED
  BY <1>1, <1>3

LEMMA ReloadInvStep == HotInv /\ ReloadInv /\ [Next]_vars => ReloadInv'
<1> SUFFICES ASSUME HotInv, ReloadInv, [Next]_vars PROVE ReloadInv'
  OBVIOUS
<1>0. TypeOK /\ script \in Seq(Call)
  BY DEF HotInv, TypeOK
<1>1. CASE script' = script
  BY <1>1 DEF ReloadInv
<1>2. CASE script # <<>> /\ script' = Tail(script)
  <2>1. \A i \in DOMAIN script' :
           i + 1 \in DOMAIN script /\ script'[i] = script[i + 1]
    BY <1>0, <1>2
  <2> QED
    BY <2>1 DEF ReloadInv
<1>3. CASE AddConnection
  <2>1. /\ script # <<>>
        /\ script' = <<[op |-> "connect", key |-> Head(script).key,
                        type |-> Head(script).info.type]>> \o Tail(script)
    BY <1>3 DEF AddConnection, Calling
  <2> DEFINE c == [op |-> "connect", key |-> Head(script).key,
                   type |-> Head(script).info.type]
  <2>2. c.op = "connect"
    OBVIOUS
  <2> HIDE DEF c
  <2>3. script' = <<c>> \o Tail(script)
    BY <2>1 DEF c
  <2>4. \A i \in DOMAIN script' :
           \/ script'[i] = c
           \/ i \in DOMAIN script /\ script'[i] = script[i]
    BY <1>0, <2>1, <2>3
  <2> QED
    BY <2>2, <2>4 DEF ReloadInv
<1>4. CASE ReloadConnections
  <2>1. \A i \in DOMAIN script' : script'[i].op \in {"close", "clear", "add"}
    BY <1>4, HotReloadStep
  <2> QED
    BY <2>1 DEF ReloadInv
<1>5. ASSUME NEW l \in Lineage, Io(l) PROVE script' = script
  BY <1>0, <1>5, IoFrame
<1>6. CASE SendMessages \/ UNCHANGED vars
  BY <1>1, <1>6 DEF SendMessages, vars
<1>7. CASE StartThreads \/ (\E l \in Lineage : Connect(l)) \/ CloseConnection
           \/ ClearInfos
  BY <1>2, <1>7 DEF StartThreads, Connect, CloseConnection, ClearInfos, Calling
<1> QED
  BY <1>1, <1>3, <1>4, <1>5, <1>6, <1>7 DEF Next, Caller

\* A doomed lineage is not disturbed by the caller, who adds other keys,
LEMMA DoomedCaller ==
    ASSUME TypeOK, NEW l \in Lineage, Doomed(l), Caller
    PROVE  Doomed(l)'
<1> DEFINE k == lkey[l]
<1>0. /\ script \in Seq(Call) /\ k \in Key
      /\ conn_infos_ \in [Key -> Info \cup {None}]
  BY DEF TypeOK, Doomed
<1>1. SUFFICES ASSUME script # <<>>
               PROVE  Doomed(l)'
  BY DEF Caller, StartThreads, AddConnection, Connect, CloseConnection,
         ReloadConnections, ClearInfos, Calling
<1>2. 1 \in DOMAIN script /\ script[1] = Head(script)
  BY <1>0, <1>1
<1>3. \A i \in DOMAIN Tail(script) :
         i + 1 \in DOMAIN script /\ Tail(script)[i] = script[i + 1]
  BY <1>0, <1>1
<1>4. ASSUME script' = Tail(script)
      PROVE  \A i \in DOMAIN script' :
                /\ script'[i].op # "reload"
                /\ Adds(script'[i]) => script'[i].key # k
  BY <1>3, <1>4 DEF Doomed
<1>5. CASE StartThreads
  BY <1>4, <1>5, Zenon DEF StartThreads, Doomed, lineageVars, Adds
<1>6. CASE AddConnection
  <2> DEFINE c == [op |-> "connect", key |-> Head(script).key,
                   type |-> Head(script).info.type]
  <2>1. /\ script' = <<c>> \o Tail(script)
        /\ conn_infos_' = [conn_infos_ EXCEPT ![Head(script).key] = Head(script).info]
        /\ Head(script).op = "add"
        /\ UNCHANGED <<phase, lkey, snap>>
    BY <1>6 DEF AddConnection, Calling, lineageVars
  <2>2. Head(script).key # k
    BY <1>2, <2>1 DEF Doomed, Adds
  <2>3. c.op = "connect" /\ c.key # k
    BY <2>2
  <2>4. conn_infos_'[k] = conn_infos_[k]
    BY <1>0, <2>1, <2>2
  <2> HIDE DEF c
  <2>5. \A i \in DOMAIN script' :
           \/ script'[i] = c
           \/ i \in DOMAIN script /\ script'[i] = script[i]
    BY <1>0, <1>1, <2>1
  <2>6. \A i \in DOMAIN script' :
           /\ script'[i].op # "reload"
           /\ Adds(script'[i]) => script'[i].key # k
    BY <2>3, <2>5 DEF Doomed
  <2> QED
    BY <2>1, <2>4, <2>6, Zenon DEF Doomed, Adds
<1>7. ASSUME NEW m \in Lineage, Connect(m) PROVE Doomed(l)'
  <2>1. m # l
    BY <1>7 DEF Connect, Doomed
  <2>2. Head(script).key # k
    BY <1>2, <1>7 DEF Connect, Calling, Doomed, Adds
  <2>3. /\ phase'[l] = phase[l] /\ lkey'[l] = lkey[l] /\ snap' = snap
        /\ conn_infos_'[k] = conn_infos_[k] /\ script' = Tail(script)
    BY <1>0, <1>7, <2>1, <2>2 DEF Connect, DoConnect, TypeOK
  <2> QED
    BY <1>4, <2>3, Zenon DEF Doomed, Adds
<1>8. CASE CloseConnection
  <2>1. /\ UNCHANGED <<phase, lkey, snap>> /\ script' = Tail(script)
        /\ \/ conn_infos_' = conn_infos_
           \/ conn_infos_' = [conn_infos_ EXCEPT ![Head(script).key].auto = FALSE]
              /\ conn_infos_[Head(script).key] # None
    BY <1>8 DEF CloseConnection, lineageVars
  <2>2. \/ conn_infos_'[k] = conn_infos_[k]
        \/ /\ conn_infos_[k] # None
           /\ conn_infos_'[k] = [conn_infos_[k] EXCEPT !.auto = FALSE]
    BY <1>0, <2>1
  <2>3. conn_infos_[k] # None =>
           /\ [conn_infos_[k] EXCEPT !.auto = FALSE] \in Info
           /\ [conn_infos_[k] EXCEPT !.auto = FALSE].auto = FALSE
    BY <1>0, InfoFields DEF Info
  <2> QED
    BY <1>4, <2>1, <2>2, <2>3, Zenon DEF Doomed, Adds
<1>9. ~ReloadConnections
  BY <1>2 DEF ReloadConnections, Calling, Doomed
<1>10. CASE ClearInfos
  <2>1. /\ UNCHANGED <<phase, lkey, snap>> /\ script' = Tail(script)
        /\ conn_infos_'[k] = None
    BY <1>0, <1>10 DEF ClearInfos, lineageVars
  <2> QED
    BY <1>4, <2>1, Zenon DEF Doomed, Adds
<1> QED
  BY <1>5, <1>6, <1>7, <1>8, <1>9, <1>10 DEF Caller

\* nor by other lineages, unless one of the same key ends the program,
LEMMA DoomedOthers ==
    ASSUME TypeOK, NEW l \in Lineage, Doomed(l),
           NEW m \in Lineage, m # l, Io(m)
    PROVE  NoneFollows(l)'
<1> DEFINE k == lkey[l]
<1>1. /\ lkey[m] \in Key /\ UNCHANGED <<script, lkey>>
      /\ \A i \in Key \ {lkey[m]} : conn_infos_'[i] = conn_infos_[i]
      /\ phase'[l] \in {phase[l], "done"}
  BY IoFrame
<1>2. k \in Key /\ phase[l] \notin {"idle", "connecting"}
  BY DEF Doomed
<1>3. snap'[l] = snap[l]
  BY DEF Io, Handlers, Connected, ConnectFailed, CycleEnds, RunError, RunPush,
         RunClose, Die, EraseClosed, FinishClosed, RetryTimer, lineageVars, TypeOK
<1>4. ASSUME conn_infos_'[k] \in {None, conn_infos_[k]}
      PROVE  Doomed(l)'
  <2>1. /\ lkey'[l] = k /\ script' = script
        /\ phase'[l] \notin {"idle", "connecting"}
        /\ phase'[l] = phase[l] \/ phase'[l] = "done"
    BY <1>1, <1>2
  <2> QED
    BY <1>3, <1>4, <2>1 DEF Doomed, Adds
<1>5. CASE ~RetryTimer(m)
  <2>1. conn_infos_' = conn_infos_
           \/ conn_infos_' = [conn_infos_ EXCEPT ![lkey[m]] = None]
    BY <1>5 DEF Io, Handlers, Connected, ConnectFailed, CycleEnds, RunError,
                RunPush, RunClose, Die, EraseClosed, FinishClosed
  <2>2. conn_infos_'[k] \in {None, conn_infos_[k]}
    BY <1>1, <1>2, <2>1 DEF TypeOK
  <2>3. Doomed(l)'
    BY <1>4, <2>2, Zenon
  <2> QED
    BY <2>3, Zenon DEF NoneFollows
<1>6. CASE RetryTimer(m) /\ lkey[m] = k /\ conn_infos_[k] = None
  <2>1. aborted'
    BY <1>6 DEF RetryTimer, DoConnect
  <2>2. phase'[l] \notin {"idle", "connecting"}
    BY <1>1, <1>2
  <2> QED
    BY <2>1, <2>2 DEF NoneFollows
<1>7. CASE RetryTimer(m) /\ ~(lkey[m] = k /\ conn_infos_[k] = None)
  <2>1. conn_infos_'[k] = conn_infos_[k]
    BY <1>2, <1>7 DEF RetryTimer, DoConnect, TypeOK
  <2>3. Doomed(l)'
    BY <1>4, <2>1, Zenon
  <2> QED
    BY <2>3, Zenon DEF NoneFollows
<1> QED
  BY <1>5, <1>6, <1>7

\* and its own way leads to its end.
LEMMA DoomedOwn ==
    ASSUME TypeOK, NEW l \in Lineage, Doomed(l), Io(l)
    PROVE  NoneFollows(l)'
<1> DEFINE k == lkey[l]
<1>0. /\ k \in Key /\ phase[l] \notin {"idle", "connecting"}
      /\ UNCHANGED <<script, lkey>>
  BY IoFrame DEF Doomed
<1>1. CASE RetryTimer(l)
  <2>1. phase[l] = "backoff" /\ DoConnect(l, k, ltype[l])
    BY <1>1 DEF RetryTimer
  <2>2. conn_infos_[k] = None
    BY <2>1 DEF Doomed
  <2>3. aborted' /\ phase'[l] = "done"
    BY <2>1, <2>2 DEF DoConnect, TypeOK
  <2> QED
    BY <2>3 DEF NoneFollows
<1>2. CASE FinishClosed(l)
  <2>1. CASE ~WillRetry(l) /\ phase'[l] = "done" /\ conn_infos_'[k] = None
    BY <1>0, <2>1, Zenon DEF NoneFollows, Doomed, Adds
  <2>2. CASE WillRetry(l) /\ phase'[l] = "backoff" /\ conn_infos_' = conn_infos_
    <3>1. phase[l] = "erased" /\ snap[l].auto # FALSE
      BY <1>2, <2>2 DEF FinishClosed, WillRetry
    <3>2. conn_infos_[k] = None
      BY <3>1 DEF Doomed
    <3>3. phase'[l] \notin {"idle", "connecting"}
      BY <2>2
    <3> QED
      BY <1>0, <2>2, <3>2, <3>3, Zenon DEF NoneFollows, Doomed, Adds
  <2> QED
    BY <1>0, <1>2, <2>1, <2>2 DEF FinishClosed, TypeOK
<1>3. CASE EraseClosed(l)
  <2>1. /\ phase[l] = "lost" /\ phase'[l] = "erased"
        /\ conn_infos_' = conn_infos_
        /\ snap'[l] = IF conn_infos_[k] = None THEN DefaultInfo
                                               ELSE conn_infos_[k]
    BY <1>3 DEF EraseClosed, Advance, TypeOK
  <2>2. \/ conn_infos_[k] = None
        \/ conn_infos_[k] \in Info /\ snap'[l].auto = FALSE
           /\ conn_infos_[k].auto = FALSE
    BY <2>1, InfoFields DEF Doomed
  <2>3. phase'[l] \notin {"idle", "connecting", "backoff"}
    BY <2>1
  <2> QED
    BY <1>0, <2>1, <2>2, <2>3, Zenon DEF NoneFollows, Doomed, Adds
<1>4. CASE CycleEnds(l) \/ RunPush(l) \/ RunClose(l) \/ RunError(l)
  <2>1. phase'[l] \in {"open", "lost", "done"}
    BY <1>4 DEF CycleEnds, RunPush, RunClose, RunError, Die, Advance, TypeOK
  <2>2. conn_infos_' = conn_infos_
    BY <1>4 DEF CycleEnds, RunPush, RunClose, RunError, Die
  <2>3. phase'[l] \notin {"idle", "connecting", "backoff", "erased"}
    BY <2>1
  <2> QED
    BY <1>0, <2>2, <2>3, Zenon DEF NoneFollows, Doomed, Adds
<1>5. ~Connected(l) /\ ~ConnectFailed(l)
  BY <1>0 DEF Connected, ConnectFailed
<1> QED
  BY <1>1, <1>2, <1>3, <1>4, <1>5 DEF Io, Handlers

\* Nothing brings it back.
LEMMA NoneFollowsStep ==
    ASSUME TypeOK, NEW l \in Lineage, NoneFollows(l), [Next]_vars
    PROVE  NoneFollows(l)'
<1>1. CASE UNCHANGED vars
  BY <1>1 DEF vars, lineageVars, NoneFollows, Doomed, Adds
<1>2. CASE Next
  <2>1. ~aborted
    BY <1>2 DEF Next
  <2>2. Doomed(l)
    BY <2>1 DEF NoneFollows
  <2>3. CASE Caller
    <3>1. Doomed(l)'
      BY <2>2, <2>3, DoomedCaller, Zenon
    <3> QED
      BY <3>1, Zenon DEF NoneFollows
  <2>4. CASE SendMessages
    BY <2>2, <2>4 DEF SendMessages, lineageVars, NoneFollows, Doomed, Adds
  <2>5. ASSUME NEW m \in Lineage, Io(m) PROVE NoneFollows(l)'
    <3>1. CASE m = l
      BY <2>2, <2>5, <3>1, DoomedOwn, Zenon
    <3>2. CASE m # l
      BY <2>2, <2>5, <3>2, DoomedOthers, Zenon
    <3> QED
      BY <3>1, <3>2
  <2> QED
    BY <1>2, <2>3, <2>4, <2>5, Zenon DEF Next
<1> QED
  BY <1>1, <1>2

\* A request to close is posted once the switch is off, by a caller that has
\* only new servers left to add.
LEMMA CloseDooms ==
    ASSUME HotInv, RegistrySound, ReloadInv, CloseConnection,
           NEW l \in Lineage, strand'[l] # strand[l]
    PROVE  Doomed(l)'
<1> DEFINE k == Head(script).key
<1>0. TypeOK /\ script \in Seq(Call)
  BY DEF HotInv, TypeOK
<1>1. /\ script # <<>> /\ 1 \in DOMAIN script /\ script[1].op = "close"
      /\ k \in Key /\ script' = Tail(script)
  <2>1. Calling("close") /\ script' = Tail(script)
    BY DEF CloseConnection
  <2>2. script # <<>> /\ Head(script) \in Call /\ Head(script).op = "close"
    BY <1>0, <2>1, CurrentCall
  <2>3. 1 \in DOMAIN script /\ script[1] = Head(script)
    BY <1>0, <2>2
  <2> QED
    BY <2>1, <2>2, <2>3, CallFields
<1>2. l \in Registered({k}) /\ phase[l] = "open"
  BY <1>0 DEF CloseConnection, Post, TypeOK
<1>3. connections_[k] = l /\ lkey[l] = k
  <2>1. connections_[k] = l /\ connections_[k] # None
    BY <1>2 DEF Registered
  <2> QED
    BY <1>1, <2>1 DEF RegistrySound
<1>4. UNCHANGED <<phase, lkey, snap>>
  BY DEF CloseConnection, lineageVars
<1>5. ASSUME NEW i \in DOMAIN script, Adds(script[i]) PROVE script[i].key # k
  <2>1. \A j \in DOMAIN script : script[j].op # "run"
    BY <1>1 DEF ReloadInv
  <2>2. CallOK(i)
    BY DEF HotInv, MainInv
  <2>3. NewCall(script[i])
    BY <1>5, <2>1, <2>2 DEF CallOK
  <2> QED
    BY <1>3, <2>2, <2>3 DEF CallOK
<1>6. \A i \in DOMAIN script' :
         /\ script'[i].op # "reload"
         /\ Adds(script'[i]) => script'[i].key # k
  <2>1. \A i \in DOMAIN script' :
           i + 1 \in DOMAIN script /\ script'[i] = script[i + 1]
    BY <1>0, <1>1
  <2>2. \A i \in DOMAIN script : script[i].op # "reload"
    BY <1>1 DEF ReloadInv
  <2> QED
    BY <1>5, <2>1, <2>2
<1>7. \/ conn_infos_'[k] = None
      \/ conn_infos_'[k] \in Info /\ conn_infos_'[k].auto = FALSE
  <2>1. conn_infos_' = IF conn_infos_[k] = None THEN conn_infos_
                       ELSE [conn_infos_ EXCEPT ![k].auto = FALSE]
    BY DEF CloseConnection
  <2>2. CASE conn_infos_[k] = None
    BY <2>1, <2>2
  <2>3. CASE conn_infos_[k] # None
    <3>1. conn_infos_[k] \in Info
      BY <1>0, <1>1, <2>3 DEF TypeOK
    <3>2. conn_infos_'[k] = [conn_infos_[k] EXCEPT !.auto = FALSE]
      BY <1>0, <1>1, <2>1, <2>3 DEF TypeOK
    <3>3. [conn_infos_[k] EXCEPT !.auto = FALSE].auto = FALSE
      BY <3>1 DEF Info
    <3> QED
      BY <3>1, <3>2, <3>3, InfoFields
  <2> QED
    BY <2>2, <2>3
<1>8. lkey'[l] = k /\ phase'[l] = "open"
  BY <1>2, <1>3, <1>4
<1>9. phase'[l] \notin {"idle", "connecting", "backoff", "erased"}
  BY <1>8
<1> HIDE DEF k
<1> QED
  BY <1>1, <1>6, <1>7, <1>8, <1>9, Zenon DEF Doomed, Adds

\* No other step posts one.
LEMMA NewClose ==
    ASSUME TypeOK, [Next]_vars, ~CloseConnection, NEW l \in Lineage, Closing(l)'
    PROVE  Closing(l)
<1>1. CASE strand'[l] = strand[l]
  BY <1>1 DEF Closing
<1>2. CASE strand'[l] = <<>>
  BY <1>2 DEF Closing
<1>3. CASE strand'[l] = Append(strand[l], "push")
  <2>1. PICK i \in DOMAIN strand'[l] : strand'[l][i] = "close"
    BY DEF Closing
  <2>2. strand[l] \in Seq({"push", "close"})
    BY DEF TypeOK
  <2>3. i \in DOMAIN strand[l] /\ strand'[l][i] = strand[l][i]
    BY <1>3, <2>1, <2>2
  <2> QED
    BY <2>1, <2>3 DEF Closing
<1>4. CASE strand[l] # <<>> /\ strand'[l] = Tail(strand[l])
  <2>1. PICK i \in DOMAIN strand'[l] : strand'[l][i] = "close"
    BY DEF Closing
  <2>2. strand[l] \in Seq({"push", "close"})
    BY DEF TypeOK
  <2>3. i + 1 \in DOMAIN strand[l] /\ strand'[l][i] = strand[l][i + 1]
    BY <1>4, <2>1, <2>2
  <2> QED
    BY <2>1, <2>3 DEF Closing
<1>5. CASE Caller \/ UNCHANGED vars
  BY <1>1, <1>5 DEF Caller, StartThreads, AddConnection, Connect,
     ReloadConnections, ClearInfos, vars
<1>6. CASE SendMessages
  BY <1>1, <1>3, <1>6 DEF SendMessages, Post, TypeOK
<1>7. ASSUME NEW m \in Lineage, Io(m) PROVE Closing(l)
  <2>1. CASE RunPush(m)
    BY <1>1, <1>4, <2>1 DEF RunPush, TypeOK
  <2>2. CASE RunClose(m) \/ RunError(m)
    BY <1>1, <1>2, <2>2 DEF RunClose, RunError, Die, TypeOK
  <2>3. CASE ~RunPush(m) /\ ~RunClose(m) /\ ~RunError(m)
    BY <1>1, <1>7, <2>3 DEF Io, Handlers, Connected, ConnectFailed, CycleEnds,
       EraseClosed, FinishClosed, RetryTimer
  <2> QED
    BY <2>1, <2>2, <2>3
<1> QED
  BY <1>5, <1>6, <1>7 DEF Next

LEMMA ClosingStep ==
    HotInv /\ RegistrySound /\ ReloadInv /\ ClosingInv /\ [Next]_vars
        => ClosingInv'
<1> SUFFICES ASSUME HotInv, RegistrySound, ReloadInv, ClosingInv, [Next]_vars,
                    NEW l \in Lineage, Closing(l)'
             PROVE  NoneFollows(l)'
  BY Zenon DEF ClosingInv
<1>0. TypeOK
  BY DEF HotInv
<1>1. CASE Closing(l)
  <2>1. NoneFollows(l)
    BY <1>1 DEF ClosingInv
  <2> QED
    BY <1>0, <2>1, NoneFollowsStep, Zenon
<1>2. CASE ~Closing(l)
  <2>1. CloseConnection
    BY <1>0, <1>2, NewClose, Zenon
  <2>2. strand'[l] # strand[l]
    BY <1>2 DEF Closing
  <2>3. Doomed(l)'
    BY <2>1, <2>2, CloseDooms, Zenon
  <2> QED
    BY <2>3, Zenon DEF NoneFollows
<1> QED
  BY <1>1, <1>2

\* A connection that the reload asks to close is never replaced, whatever error
\* comes before the request, and whenever the retry is decided.
THEOREM NotReplacedCorrect == ASSUME RunsMain PROVE Spec => NotReplaced
<1>1. Init => HotInv /\ ReloadInv
  BY HotInit, ReloadInvInit
<1>2. Init => ClosingInv
  BY DEF Init, ClosingInv, Closing
<1>3. Spec => [](TypeOK /\ ClosingInv)
  <2>1. HotInv => TypeOK
    BY DEF HotInv
  <2> QED
    BY <1>1, <1>2, <2>1, HotStep, ReloadInvStep, ClosingStep, RegistryCorrect,
       PTL DEF Spec
<1>4. ASSUME NEW l \in Lineage
      PROVE  Spec => []((\E i \in DOMAIN strand[l] : strand[l][i] = "close")
                          => [](phase[l] # "connecting"))
  <2>1. ClosingInv /\ (\E i \in DOMAIN strand[l] : strand[l][i] = "close")
           => NoneFollows(l)
    BY DEF ClosingInv, Closing
  <2>2. NoneFollows(l) => phase[l] # "connecting"
    BY DEF NoneFollows, Doomed
  <2>3. TypeOK /\ NoneFollows(l) /\ [Next]_vars => NoneFollows(l)'
    BY NoneFollowsStep
  <2> QED
    BY <1>3, <2>1, <2>2, <2>3, PTL DEF Spec
<1> QED
  BY <1>4 DEF NotReplaced
=============================================================================
