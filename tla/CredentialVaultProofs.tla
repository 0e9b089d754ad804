----------------------- MODULE CredentialVaultProofs -----------------------
(***************************************************************************)
(* For any set of namespaces and values: what the vault acknowledged stays *)
(* acknowledged, and every owner sees a durable register.                  *)
(***************************************************************************)
EXTENDS MCCredentials, TLAPS

(* Only the thread holding the lock is past the staging of its file. *)
LockHeld ==
    \A n \in Namespaces : pc[n] \in {"staged", "replaced"} <=> holder = n

(* Outside a replace, and unless sealed, the vault's memory is the disk.   *)
StateIsDisk ==
    /\ disk \in durable
    /\ (~failed /\ \A n \in Namespaces : pc[n] # "replaced") => disk = state
    /\ failed => holder = Idle
    /\ \A n \in Namespaces : pc[n] = "replaced" => disk = Updated(n)

(* Between the sync and the owner's change of memory, only the new value   *)
(* can come back; until then the namespace is in doubt.                    *)
InFlight ==
    \A n \in Namespaces :
        /\ pc[n] \in {"replaced", "synced"} => inDoubt[n]
        /\ pc[n] = "synced" => /\ state[n] = pending[n]
                               /\ disk[n] = pending[n]
                               /\ \A d \in durable : d[n] = pending[n]

(* The vault's memory agrees with every owner that is not in doubt. *)
StateAgrees == \A n \in Namespaces : ~inDoubt[n] => state[n] = owner[n]

IInv == TypeOK /\ LockHeld /\ StateIsDisk /\ InFlight /\ StateAgrees /\ AckedSurvives

USE VaultAssumption

LEMMA UpdatedType ==
    ASSUME TypeOK, NEW n \in Namespaces
    PROVE  /\ Updated(n) \in Contents
           /\ Updated(n)[n] = pending[n]
           /\ \A m \in Namespaces \ {n} : Updated(n)[m] = state[m]
  BY DEF TypeOK, Updated, Contents

LEMMA InitIInv == Init => IInv
  BY DEF Init, IInv, TypeOK, LockHeld, StateIsDisk, InFlight, StateAgrees,
         AckedSurvives, Contents

(* The steps that touch neither the disk nor the owners' memories. *)
LEMMA QuietStep ==
    ASSUME IInv, NEW n \in Namespaces,
           (\E v \in Values : Begin(n, v)) \/ Refuse(n) \/ Stage(n) \/ AbortStaged(n),
           UNCHANGED process
    PROVE  IInv'
<1> USE DEF IInv
<1>1. CASE \E v \in Values : Begin(n, v)
  BY <1>1 DEF Begin, TypeOK, LockHeld, StateIsDisk, InFlight, StateAgrees,
              AckedSurvives, Contents, Updated
<1>2. CASE Refuse(n)
  BY <1>2 DEF Refuse, TypeOK, LockHeld, StateIsDisk, InFlight, StateAgrees,
              AckedSurvives, Contents, Updated
<1>3. CASE Stage(n)
  BY <1>3 DEF Stage, MayWrite, TypeOK, LockHeld, StateIsDisk, InFlight, StateAgrees,
              AckedSurvives, Contents, Updated
<1>4. CASE AbortStaged(n)
  BY <1>4 DEF AbortStaged, TypeOK, LockHeld, StateIsDisk, InFlight, StateAgrees,
              AckedSurvives, Contents, Updated
<1>5. QED BY <1>1, <1>2, <1>3, <1>4

LEMMA ReplaceStep ==
    ASSUME IInv, NEW n \in Namespaces, Replace(n), UNCHANGED process
    PROVE  IInv'
<1> USE DEF IInv
<1>1. disk = state
  BY DEF Replace, LockHeld, StateIsDisk
<1>2. Updated(n)' = Updated(n)
  BY DEF Replace, Updated
<1>3. TypeOK' BY UpdatedType DEF Replace, TypeOK
<1>4. LockHeld' BY DEF Replace, LockHeld, TypeOK
<1>5. StateIsDisk'
  BY <1>2 DEF Replace, StateIsDisk, LockHeld, TypeOK, Updated
<1>6. InFlight'
  <2> SUFFICES ASSUME NEW m \in Namespaces
               PROVE  /\ pc'[m] \in {"replaced", "synced"} => inDoubt'[m]
                      /\ pc'[m] = "synced" => /\ state'[m] = pending'[m]
                                              /\ disk'[m] = pending'[m]
                                              /\ \A d \in durable' : d[m] = pending'[m]
    BY DEF InFlight
  <2>1. CASE m = n  BY <2>1 DEF Replace, TypeOK
  <2>2. CASE m # n
    <3>1. Updated(n)[m] = state[m] BY <2>2, UpdatedType
    <3>2. QED BY <2>2, <3>1 DEF Replace, InFlight, TypeOK
  <2>3. QED BY <2>1, <2>2
<1>7. StateAgrees' BY DEF Replace, StateAgrees, TypeOK
<1>8. AckedSurvives'
  <2> SUFFICES ASSUME NEW m \in Namespaces, ~inDoubt'[m]
               PROVE  /\ disk'[m] = owner'[m]
                      /\ \A d \in durable' : d[m] = owner'[m]
    BY DEF AckedSurvives
  <2>1. m # n /\ ~inDoubt[m]  BY DEF Replace, TypeOK
  <2>2. Updated(n)[m] = owner[m]  BY <2>1, UpdatedType DEF StateAgrees
  <2>3. QED BY <2>1, <2>2 DEF Replace, AckedSurvives
<1>9. QED BY <1>3, <1>4, <1>5, <1>6, <1>7, <1>8

LEMMA SyncStep ==
    ASSUME IInv, NEW n \in Namespaces, SyncDirectory(n) \/ SyncFails(n) \/ Publish(n),
           UNCHANGED process
    PROVE  IInv'
<1> USE DEF IInv
<1>1. CASE SyncDirectory(n)
  <2>1. disk = Updated(n) /\ inDoubt[n]
    BY <1>1 DEF SyncDirectory, StateIsDisk, InFlight
  <2>2. TypeOK' BY <1>1, UpdatedType DEF SyncDirectory, TypeOK
  <2>3. LockHeld' BY <1>1 DEF SyncDirectory, LockHeld, TypeOK
  <2>4. StateIsDisk'
    <3>1. \A m \in Namespaces : pc'[m] # "replaced"
      BY <1>1 DEF SyncDirectory, LockHeld, TypeOK
    <3>2. QED BY <1>1, <2>1, <3>1 DEF SyncDirectory, StateIsDisk
  <2>5. InFlight'
    <3> SUFFICES ASSUME NEW m \in Namespaces
                 PROVE  /\ pc'[m] \in {"replaced", "synced"} => inDoubt'[m]
                        /\ pc'[m] = "synced" => /\ state'[m] = pending'[m]
                                                /\ disk'[m] = pending'[m]
                                                /\ \A d \in durable' : d[m] = pending'[m]
      BY DEF InFlight
    <3>1. CASE m = n  BY <1>1, <2>1, <3>1, UpdatedType DEF SyncDirectory, TypeOK
    <3>2. CASE m # n
      <4>1. Updated(n)[m] = state[m] BY <3>2, UpdatedType
      <4>2. QED BY <1>1, <2>1, <3>2, <4>1 DEF SyncDirectory, InFlight, TypeOK
    <3>3. QED BY <3>1, <3>2
  <2>6. StateAgrees'
    <3> SUFFICES ASSUME NEW m \in Namespaces, ~inDoubt[m]
                 PROVE  Updated(n)[m] = owner[m]
      BY <1>1 DEF SyncDirectory, StateAgrees
    <3>1. m # n BY <2>1
    <3>2. QED BY <3>1, UpdatedType DEF StateAgrees
  <2>7. AckedSurvives' BY <1>1 DEF SyncDirectory, AckedSurvives, StateIsDisk
  <2>8. QED BY <2>2, <2>3, <2>4, <2>5, <2>6, <2>7
<1>2. CASE SyncFails(n)
  BY <1>2 DEF SyncFails, TypeOK, LockHeld, StateIsDisk, InFlight, StateAgrees,
              AckedSurvives, Updated
<1>3. CASE Publish(n)
  <2>1. TypeOK' BY <1>3 DEF Publish, TypeOK, Contents
  <2>2. LockHeld' /\ StateIsDisk'
    BY <1>3 DEF Publish, TypeOK, LockHeld, StateIsDisk, Updated
  <2>3. InFlight' /\ StateAgrees' /\ AckedSurvives'
    BY <1>3 DEF Publish, TypeOK, Contents, InFlight, StateAgrees, AckedSurvives
  <2>4. QED BY <2>1, <2>2, <2>3
<1>4. QED BY <1>1, <1>2, <1>3

LEMMA LoadStep ==
    ASSUME IInv, ProcessRestart \/ PowerLoss
    PROVE  IInv'
<1> USE DEF IInv
<1>1. CASE ProcessRestart
  BY <1>1 DEF ProcessRestart, Load, TypeOK, LockHeld, StateIsDisk, InFlight,
              StateAgrees, AckedSurvives, Contents, Updated
<1>2. CASE PowerLoss
  <2>1. PICK d \in durable : Load(d) /\ durable' = {d}
                            /\ inDoubt' = [n \in Namespaces |-> FALSE]
    BY <1>2 DEF PowerLoss
  <2>2. TypeOK' BY <2>1 DEF Load, TypeOK
  <2>3. LockHeld' /\ StateIsDisk'
    BY <2>1 DEF Load, TypeOK, LockHeld, StateIsDisk
  <2>4. InFlight' /\ StateAgrees' /\ AckedSurvives'
    BY <2>1 DEF Load, InFlight, StateAgrees, AckedSurvives
  <2>5. QED BY <2>2, <2>3, <2>4
<1>3. QED BY <1>1, <1>2

LEMMA NextIInv == IInv /\ [Next]_vars => IInv'
<1> SUFFICES ASSUME IInv, [Next]_vars PROVE IInv'
  OBVIOUS
<1>1. CASE (\E n \in Namespaces : Write(n)) /\ UNCHANGED process
  BY <1>1, QuietStep, ReplaceStep, SyncStep DEF Write
<1>2. CASE ProcessRestart \/ PowerLoss
  BY <1>2, LoadStep
<1>3. CASE UNCHANGED vars
  BY <1>3 DEF vars, IInv, TypeOK, LockHeld, StateIsDisk, InFlight, StateAgrees,
              AckedSurvives, Contents, Updated
<1>4. QED BY <1>1, <1>2, <1>3 DEF Next

LEMMA SpecIInv == Spec => []IInv
  BY InitIInv, NextIInv, PTL DEF Spec

(* Every variable keeps its type through writes, failures and restarts. *)
THEOREM VaultTypeCorrect == Spec => []TypeOK
  BY SpecIInv, PTL DEF IInv

(* An acknowledged write is what every restart and every power loss comes  *)
(* back with, for any number of namespaces writing concurrently.           *)
THEOREM AcknowledgedWritesSurvive == Spec => []AckedSurvives
  BY SpecIInv, PTL DEF IInv

(* A write never changes on disk a namespace other than its own, even after *)
(* an earlier write was sealed half-way.                                    *)
THEOREM WritesKeepOtherNamespaces == Spec => OtherNamespacesKept
<1>1. ASSUME IInv
      PROVE  \A n \in Namespaces : Replace(n) =>
                 \A m \in Namespaces \ {n} : disk'[m] = disk[m]
  <2> SUFFICES ASSUME NEW n \in Namespaces, Replace(n), NEW m \in Namespaces \ {n}
               PROVE  disk'[m] = disk[m]
    OBVIOUS
  <2>1. disk = state
    BY <1>1 DEF Replace, IInv, LockHeld, StateIsDisk
  <2>2. QED BY <1>1, <2>1, UpdatedType DEF Replace, IInv
<1>2. QED BY <1>1, SpecIInv, PTL DEF OtherNamespacesKept

-----------------------------------------------------------------------------
(* The vault implements the abstract register. *)

Survivors == {d[Observed] : d \in durable}

LEMMA RegisterInit == Init => Register!Init
<1> SUFFICES ASSUME Init PROVE Register!Init
  OBVIOUS
<1>1. owner[Observed] \in Values /\ {d[Observed] : d \in durable} = {owner[Observed]}
  BY DEF Init
<1>2. process \in BOOLEAN
  BY DEF Init
<1>3. QED BY <1>1, <1>2 DEF Register!Init

LEMMA RegisterNext ==
    ASSUME NEW v \in Values,
           \/ Register!Expose(v) \/ Register!Settle(v) \/ Register!Serve(v)
           \/ Register!Write(v) \/ Register!Recover(v)
    PROVE  Register!Next
<1>1. v \in Survivors'
  BY DEF Register!Expose, Register!Settle, Register!Serve, Register!Write,
         Register!Recover, Survivors
<1>2. QED BY <1>1 DEF Register!Next, Survivors

LEMMA RegisterStep == IInv /\ [Next]_vars => [Register!Next]_(Register!registerVars)
<1> SUFFICES ASSUME IInv, [Next]_vars
             PROVE  [Register!Next]_(Register!registerVars)
  OBVIOUS
<1> USE DEF Register!registerVars
<1>0. TypeOK /\ owner[Observed] \in Values /\ disk[Observed] \in Values
      /\ disk[Observed] \in {d[Observed] : d \in durable}
  BY DEF IInv, TypeOK, Contents, StateIsDisk
<1>1. ASSUME NEW n \in Namespaces, Write(n), UNCHANGED process
      PROVE  [Register!Next]_(Register!registerVars)
  <2>1. CASE (\E v \in Values : Begin(n, v)) \/ Refuse(n) \/ Stage(n)
             \/ AbortStaged(n) \/ SyncFails(n)
    BY <1>1, <2>1 DEF Begin, Refuse, Stage, AbortStaged, SyncFails
  <2>2. CASE Replace(n)
    <3>1. PICK v \in Values : v = Updated(n)[Observed]
      BY <1>0, UpdatedType DEF Contents
    <3>2. Register!Expose(v)
      BY <1>1, <2>2, <3>1 DEF Replace, Register!Expose
    <3>3. QED BY <3>2, RegisterNext
  <2>3. CASE SyncDirectory(n)
    <3>1. PICK v \in Values : v = disk[Observed]
      BY <1>0
    <3>2. Register!Settle(v)
      BY <1>1, <2>3, <1>0, <3>1 DEF SyncDirectory, Register!Settle
    <3>3. QED BY <3>2, RegisterNext
  <2>4. CASE Publish(n)
    <3>1. CASE n # Observed
      BY <1>1, <2>4, <3>1, <1>0 DEF Publish, TypeOK, Contents
    <3>2. CASE n = Observed
      <4>1. pending[n] \in Values /\ owner'[n] = pending[n]
        BY <2>4, <1>0 DEF Publish, TypeOK, Contents
      <4>2. \A d \in durable : d[n] = pending[n]
        BY <2>4 DEF Publish, IInv, InFlight
      <4>3. {d[Observed] : d \in durable} = {pending[n]}
        BY <1>0, <3>2, <4>2
      <4>4. Register!Serve(pending[n])
        BY <1>1, <2>4, <3>2, <4>1, <4>3 DEF Publish, Register!Serve
      <4>5. QED BY <4>1, <4>4, RegisterNext
    <3>3. QED BY <3>1, <3>2
  <2>5. QED BY <1>1, <2>1, <2>2, <2>3, <2>4 DEF Write
<1>2. CASE ProcessRestart
  <2>1. PICK v \in Values : v = disk[Observed]
    BY <1>0
  <2>2. Register!Recover(v)
    BY <1>2, <1>0, <2>1 DEF ProcessRestart, Load, Register!Recover
  <2>3. QED BY <2>2, RegisterNext
<1>3. CASE PowerLoss
  <2>1. PICK d \in durable : Load(d) /\ durable' = {d}
    BY <1>3 DEF PowerLoss
  <2>2. d[Observed] \in Values
    BY <1>0, <2>1 DEF TypeOK, Contents
  <2>3. Register!Recover(d[Observed])
    BY <2>1 DEF Load, Register!Recover
  <2>4. QED BY <2>2, <2>3, RegisterNext
<1>4. CASE UNCHANGED vars
  BY <1>4 DEF vars
<1>5. QED BY <1>1, <1>2, <1>3, <1>4 DEF Next

(* Any one namespace of the vault behaves as a durable register. *)
THEOREM VaultIsDurableRegister == Spec => RefinesRegister
  BY RegisterInit, RegisterStep, SpecIInv, PTL DEF Spec, RefinesRegister, Register!Spec

-----------------------------------------------------------------------------
(* The connection of a Canvas profile.  An authorization that a disconnect *)
(* or a renewal of OAuth overtook has captured an older generation.        *)

Grants == [gen : Nat, cut : BOOLEAN]
Callbacks == [kind : {"callback"}, gen : Nat, account : Accounts, cut : BOOLEAN]

Behind(g) ==
    /\ g.gen <= gen["oauth"]
    /\ g.cut => g.gen < gen["oauth"]

GrantInv ==
    /\ gen \in [Canvas!Modes -> Nat] /\ DOMAIN slot = Canvas!Modes /\ DOMAIN req = Requests
    /\ grant # None => grant \in Grants /\ Behind(grant)
    /\ \A q \in Requests :
        /\ req[q].kind = "callback" => req[q] \in Callbacks /\ Behind(req[q])
        /\ req[q].kind = "verify" => "kind" \in DOMAIN req[q]

LEMMA CutsGrant ==
    ASSUME NEW g, g # None => g \in Grants
    PROVE  Canvas!Cut(g) # None => Canvas!Cut(g) \in Grants /\ Canvas!Cut(g).gen = g.gen
  BY DEF Canvas!Cut, Grants

LEMMA OvertakesRequest ==
    ASSUME NEW r, r.kind = "callback" => r \in Callbacks
    PROVE  /\ Canvas!Overtaken(r).kind = r.kind
           /\ r.kind = "callback" => /\ Canvas!Overtaken(r) \in Callbacks
                                     /\ Canvas!Overtaken(r).gen = r.gen
           /\ r.kind # "callback" => Canvas!Overtaken(r) = r
  BY DEF Canvas!Overtaken, Callbacks

\* What a request still reads, or does not: only its own step makes an attempt of it.
Keeps(others) == \A q \in Requests :
    /\ others[q].kind = "callback" => others[q] = req[q]
    /\ others[q].kind = "verify" => "kind" \in DOMAIN others[q]

LEMMA OAuthAdvances ==
    ASSUME GrantInv, NEW others, Keeps(others),
           gen' \in [Canvas!Modes -> Nat], DOMAIN slot' = Canvas!Modes,
           gen'["oauth"] = gen["oauth"] + 1, grant' = Canvas!Cut(grant),
           req' = [q \in Requests |-> Canvas!Overtaken(others[q])]
    PROVE  GrantInv'
<1>1. gen["oauth"] \in Nat
  BY DEF GrantInv, Canvas!Modes
<1>2. grant' # None => grant' \in Grants /\ Behind(grant)'
  <2>1. SUFFICES ASSUME grant' # None PROVE grant' \in Grants /\ Behind(grant)'
    OBVIOUS
  <2>2. grant # None /\ grant \in Grants /\ Behind(grant)
    BY <2>1 DEF GrantInv, Canvas!Cut
  <2>3. grant' \in Grants /\ grant'.gen = grant.gen
    BY <2>1, <2>2, CutsGrant
  <2>4. grant.gen \in Nat /\ grant.gen <= gen["oauth"]
    BY <2>2 DEF Grants, Behind
  <2> QED
    BY <1>1, <2>3, <2>4 DEF Behind
<1>3. ASSUME NEW q \in Requests
      PROVE  /\ req'[q].kind = "callback" => req'[q] \in Callbacks /\ Behind(req[q])'
             /\ req'[q].kind = "verify" => "kind" \in DOMAIN req'[q]
  <2>1. /\ others[q].kind = "callback" => others[q] \in Callbacks /\ Behind(others[q])
        /\ others[q].kind = "verify" => "kind" \in DOMAIN others[q]
    BY DEF GrantInv, Keeps
  <2>2. /\ req'[q].kind = others[q].kind
        /\ others[q].kind = "callback" => req'[q] \in Callbacks /\ req'[q].gen = others[q].gen
        /\ others[q].kind # "callback" => req'[q] = others[q]
    BY <2>1, OvertakesRequest
  <2>3. others[q].kind = "callback" => Behind(req[q])'
    <3>1. SUFFICES ASSUME others[q].kind = "callback" PROVE Behind(req[q])'
      OBVIOUS
    <3>2. others[q].gen \in Nat /\ others[q].gen <= gen["oauth"]
      BY <2>1, <3>1 DEF Callbacks, Behind
    <3> QED
      BY <1>1, <2>2, <3>1, <3>2 DEF Behind
  <2> QED
    BY <2>1, <2>2, <2>3
<1> QED
  BY <1>2, <1>3 DEF GrantInv

LEMMA OAuthStays ==
    ASSUME GrantInv, gen' \in [Canvas!Modes -> Nat], DOMAIN slot' = Canvas!Modes,
           gen'["oauth"] = gen["oauth"], grant' \in {grant, None}, DOMAIN req' = Requests,
           \A q \in Requests :
             /\ req'[q].kind = "callback" => req'[q] = req[q]
             /\ req'[q].kind = "verify" => "kind" \in DOMAIN req'[q]
    PROVE  GrantInv'
<1>1. grant' # None => grant' \in Grants /\ Behind(grant)'
  BY DEF GrantInv, Behind
<1>2. ASSUME NEW q \in Requests
      PROVE  /\ req'[q].kind = "callback" => req'[q] \in Callbacks /\ Behind(req[q])'
             /\ req'[q].kind = "verify" => "kind" \in DOMAIN req'[q]
  BY DEF GrantInv, Behind
<1> QED
  BY <1>1, <1>2 DEF GrantInv

LEMMA ChangeKeeps ==
    ASSUME GrantInv, NEW m, NEW a, NEW others, Keeps(others), Canvas!Change(m, a, others)
    PROVE  GrantInv'
<1>1. /\ gen \in [Canvas!Modes -> Nat] /\ DOMAIN slot = Canvas!Modes /\ "oauth" \in Canvas!Modes
  BY DEF GrantInv, Canvas!Modes
<1>2. /\ gen' = [gen EXCEPT ![m] = @ + 1] /\ slot' = [slot EXCEPT ![m] = a]
      /\ grant' = IF m = "oauth" THEN Canvas!Cut(grant) ELSE grant
      /\ req' = [q \in Requests |-> IF m = "oauth" THEN Canvas!Overtaken(others[q]) ELSE others[q]]
  BY DEF Canvas!Change
<1>3. /\ gen' \in [Canvas!Modes -> Nat] /\ DOMAIN slot' = Canvas!Modes
      /\ m = "oauth" => gen'["oauth"] = gen["oauth"] + 1
      /\ m # "oauth" => gen'["oauth"] = gen["oauth"]
  <2>1. DOMAIN slot' = Canvas!Modes
    BY <1>1, <1>2
  <2>2. CASE m \in Canvas!Modes
    BY <1>1, <1>2, <2>1, <2>2
  <2>3. CASE m \notin Canvas!Modes
    <3>1. DOMAIN gen' = Canvas!Modes /\ \A x \in Canvas!Modes : gen'[x] = gen[x]
      BY <1>1, <1>2, <2>3
    <3>2. gen' = [x \in Canvas!Modes |-> gen'[x]]
      BY <1>2, <3>1
    <3> QED
      BY <1>1, <2>1, <2>3, <3>1, <3>2
  <2> QED
    BY <2>2, <2>3
<1>4. CASE m = "oauth"
  <2>1. grant' = Canvas!Cut(grant) /\ req' = [q \in Requests |-> Canvas!Overtaken(others[q])]
    BY <1>2, <1>4
  <2> QED
    BY <1>3, <1>4, <2>1, OAuthAdvances
<1>5. CASE m # "oauth"
  <2>1. grant' = grant /\ DOMAIN req' = Requests /\ \A q \in Requests : req'[q] = others[q]
    BY <1>2, <1>5
  <2>2. gen'["oauth"] = gen["oauth"] /\ gen' \in [Canvas!Modes -> Nat] /\ DOMAIN slot' = Canvas!Modes
    BY <1>3, <1>5
  <2>3. grant' # None => grant' \in Grants /\ Behind(grant)'
    BY <2>1, <2>2 DEF GrantInv, Behind
  <2>4. ASSUME NEW q \in Requests
        PROVE  /\ req'[q].kind = "callback" => req'[q] \in Callbacks /\ Behind(req[q])'
               /\ req'[q].kind = "verify" => "kind" \in DOMAIN req'[q]
    BY <2>1, <2>2 DEF GrantInv, Behind, Keeps
  <2> QED
    BY <2>1, <2>2, <2>3, <2>4 DEF GrantInv
<1> QED
  BY <1>4, <1>5

\* Nothing of the store changes, and one request.
LEMMA OneRequestMoves ==
    ASSUME GrantInv, UNCHANGED <<slot, gen>>, grant' \in {grant, None},
           NEW q \in Requests, NEW r, req' = [req EXCEPT ![q] = r],
           r.kind = "callback" => r \in Callbacks /\ Behind(r),
           r.kind = "verify" => "kind" \in DOMAIN r
    PROVE  GrantInv'
<1>1. req'[q] = r /\ DOMAIN req' = Requests /\ \A p \in Requests \ {q} : req'[p] = req[p]
  BY DEF GrantInv
<1>2. grant' # None => grant' \in Grants /\ Behind(grant)'
  BY DEF GrantInv, Behind
<1>3. ASSUME NEW p \in Requests
      PROVE  /\ req'[p].kind = "callback" => req'[p] \in Callbacks /\ Behind(req[p])'
             /\ req'[p].kind = "verify" => "kind" \in DOMAIN req'[p]
  BY <1>1 DEF GrantInv, Behind
<1> QED
  BY <1>1, <1>2, <1>3 DEF GrantInv

LEMMA KeptRequests == ASSUME GrantInv PROVE Keeps(req) /\ \A q \in Requests : Keeps(Canvas!Done(q))
<1>1. Keeps(req)
  BY DEF GrantInv, Keeps
<1>2. ASSUME NEW q \in Requests PROVE Keeps(Canvas!Done(q))
  BY DEF GrantInv, Keeps, Canvas!Done, Canvas!NoRequest
<1> QED
  BY <1>1, <1>2

\* A request that asks reads what it will compare; the attempts are left alone.
LEMMA AsksOnly ==
    ASSUME GrantInv, NEW q \in Requests, UNCHANGED <<slot, gen, grant>>,
           \E r : Canvas!Begins(q, r) /\ r.kind # "callback" /\ "kind" \in DOMAIN r
    PROVE  GrantInv'
<1>1. PICK r : req' = [req EXCEPT ![q] = r] /\ r.kind # "callback" /\ "kind" \in DOMAIN r
  BY DEF Canvas!Begins
<1> QED
  BY <1>1, OneRequestMoves

LEMMA EndsOnly ==
    ASSUME GrantInv, NEW q \in Requests, req' = Canvas!Done(q), UNCHANGED <<slot, gen, grant>>
    PROVE  GrantInv'
<1>1. PICK r : r = Canvas!NoRequest
  OBVIOUS
<1>2. req' = [req EXCEPT ![q] = r] /\ r.kind # "callback" /\ r.kind # "verify"
  BY <1>1 DEF Canvas!Done, Canvas!NoRequest
<1> QED
  BY <1>2, OneRequestMoves

LEMMA StoreUntouched ==
    ASSUME GrantInv, UNCHANGED <<slot, gen, grant, req>>
    PROVE  GrantInv'
  BY DEF GrantInv, Behind

\* Who awaits the exchange of a code goes on awaiting it.
Pending == \A q \in Requests : req[q].kind = "callback" => req'[q].kind = "callback"

LEMMA ChangePends ==
    ASSUME GrantInv, NEW m, NEW a, NEW others, Canvas!Change(m, a, others), NEW q \in Requests,
           req[q].kind = "callback", others[q] = req[q]
    PROVE  req'[q].kind = "callback"
<1>1. req[q] \in Callbacks
  BY DEF GrantInv
<1>2. req'[q] = Canvas!Overtaken(others[q]) \/ req'[q] = others[q]
  BY DEF Canvas!Change
<1> QED
  BY <1>1, <1>2, OvertakesRequest

LEMMA Changes ==
    ASSUME GrantInv, NEW m, NEW a, Canvas!Change(m, a, req)
    PROVE  GrantInv' /\ Pending
<1>1. PICK others : others = req
  OBVIOUS
<1>2. Keeps(others) /\ Canvas!Change(m, a, others)
  BY <1>1, KeptRequests
<1>3. Pending
  BY <1>1, <1>2, ChangePends DEF Pending
<1> QED
  BY <1>2, <1>3, ChangeKeeps

LEMMA ChangesAndEnds ==
    ASSUME GrantInv, NEW m, NEW a, NEW q \in Requests, Canvas!Change(m, a, Canvas!Done(q))
    PROVE  /\ GrantInv'
           /\ \A p \in Requests \ {q} : req[p].kind = "callback" => req'[p].kind = "callback"
<1>1. PICK others : others = Canvas!Done(q)
  OBVIOUS
<1>2. Keeps(others) /\ Canvas!Change(m, a, others)
  BY <1>1, KeptRequests
<1>3. ASSUME NEW p \in Requests \ {q}, req[p].kind = "callback" PROVE req'[p].kind = "callback"
  <2>1. others[p] = req[p]
    BY <1>1, <1>3 DEF Canvas!Done, GrantInv
  <2> QED
    BY <1>2, <1>3, <2>1, ChangePends
<1> QED
  BY <1>2, <1>3, ChangeKeeps

LEMMA RenewsOnly ==
    ASSUME GrantInv, NEW q \in Requests, Canvas!Renew(q)
    PROVE  GrantInv' /\ slot'["oauth"] = slot["oauth"]
<1> DEFINE o(n) == [req EXCEPT ![q].gen = n, ![q].account = slot["oauth"], ![q].renewing = FALSE]
<1>1. /\ DOMAIN req = Requests /\ req[q].kind = "verify" /\ "kind" \in DOMAIN req[q]
      /\ gen \in [Canvas!Modes -> Nat] /\ DOMAIN slot = Canvas!Modes /\ "oauth" \in Canvas!Modes
  BY DEF GrantInv, Canvas!Renew, Canvas!Modes
<1>2. ASSUME NEW n
      PROVE  /\ DOMAIN o(n) = Requests /\ \A p \in Requests \ {q} : o(n)[p] = req[p]
             /\ o(n)[q].kind = "verify" /\ "kind" \in DOMAIN o(n)[q]
  BY <1>1
<1>3. CASE req' = o(gen["oauth"]) /\ UNCHANGED <<slot, gen, grant>>
  <2>1. \A p \in Requests : /\ req'[p].kind = "callback" => req'[p] = req[p]
                            /\ req'[p].kind = "verify" => "kind" \in DOMAIN req'[p]
    BY <1>2, <1>3 DEF GrantInv
  <2>2. DOMAIN req' = Requests /\ gen'["oauth"] = gen["oauth"] /\ grant' \in {grant, None}
        /\ gen' \in [Canvas!Modes -> Nat] /\ DOMAIN slot' = Canvas!Modes
    BY <1>1, <1>2, <1>3
  <2> QED
    BY <1>3, <2>1, <2>2, OAuthStays
<1>4. CASE Canvas!Change("oauth", slot["oauth"], o(gen["oauth"] + 1))
  <2>1. PICK others : others = o(gen["oauth"] + 1)
    OBVIOUS
  <2>2. Keeps(others)
    BY <1>2, <2>1 DEF GrantInv, Keeps
  <2>3. PICK x : x = slot["oauth"]
    OBVIOUS
  <2>4. Canvas!Change("oauth", x, others)
    BY <1>4, <2>1, <2>3
  <2>5. slot'["oauth"] = slot["oauth"]
    BY <1>1, <1>4 DEF Canvas!Change
  <2>6. GrantInv'
    BY <2>2, <2>4, ChangeKeeps
  <2> QED
    BY <2>5, <2>6
<1> QED
  BY <1>3, <1>4 DEF Canvas!Renew

LEMMA ClearsAll ==
    ASSUME GrantInv, Canvas!Clear
    PROVE  GrantInv' /\ slot'["oauth"] = None
<1>1. /\ slot' = [m \in Canvas!Modes |-> None] /\ gen' = [m \in Canvas!Modes |-> gen[m] + 1]
      /\ grant' = Canvas!Cut(grant) /\ req' = [q \in Requests |-> Canvas!Overtaken(req[q])]
      /\ gen \in [Canvas!Modes -> Nat] /\ "oauth" \in Canvas!Modes
  BY DEF GrantInv, Canvas!Clear, Canvas!Modes
<1>2. /\ gen' \in [Canvas!Modes -> Nat] /\ DOMAIN slot' = Canvas!Modes /\ slot'["oauth"] = None
      /\ gen'["oauth"] = gen["oauth"] + 1
  BY <1>1
<1>3. PICK others : others = req
  OBVIOUS
<1>4. Keeps(others) /\ req' = [q \in Requests |-> Canvas!Overtaken(others[q])]
  BY <1>1, <1>3, KeptRequests
<1> QED
  BY <1>1, <1>2, <1>4, OAuthAdvances

LEMMA AttemptsBegin ==
    ASSUME GrantInv,
           \/ Canvas!Authorize \/ Canvas!Expire
           \/ \E q \in Requests, a \in Accounts : Canvas!Callback(q, a)
    PROVE  GrantInv' /\ slot' = slot
<1>1. gen["oauth"] \in Nat
  BY DEF GrantInv, Canvas!Modes
<1>2. CASE Canvas!Authorize
  <2>1. /\ grant' = [gen |-> gen["oauth"], cut |-> FALSE] /\ UNCHANGED <<slot, gen, req>>
    BY <1>2 DEF Canvas!Authorize
  <2>2. grant' \in Grants /\ Behind(grant)'
    BY <1>1, <2>1 DEF Grants, Behind
  <2> QED
    BY <2>1, <2>2 DEF GrantInv, Behind
<1>3. CASE Canvas!Expire
  BY <1>3 DEF Canvas!Expire, GrantInv, Behind
<1>4. ASSUME NEW q \in Requests, NEW a \in Accounts, Canvas!Callback(q, a)
      PROVE  GrantInv' /\ slot' = slot
  <2>1. PICK r : r = [kind |-> "callback", gen |-> grant.gen, account |-> a, cut |-> grant.cut]
    OBVIOUS
  <2>2. grant \in Grants /\ Behind(grant)
    BY <1>4 DEF Canvas!Callback, GrantInv
  <2>3. r \in Callbacks /\ Behind(r) /\ r.kind = "callback"
    BY <2>1, <2>2 DEF Grants, Callbacks, Behind
  <2>4. req' = [req EXCEPT ![q] = r] /\ UNCHANGED <<slot, gen>> /\ grant' = None
    BY <1>4, <2>1 DEF Canvas!Callback
  <2> QED
    BY <2>3, <2>4, OneRequestMoves
<1> QED
  BY <1>2, <1>3, <1>4

LEMMA ComesBack ==
    ASSUME GrantInv, Canvas!Restart
    PROVE  GrantInv' /\ (slot' = slot \/ slot'["oauth"] = None)
<1>1. /\ slot' = slot \/ slot' = [m \in Canvas!Modes |-> None]
      /\ gen' = gen /\ grant' = None /\ req' = [q \in Requests |-> Canvas!NoRequest]
  BY DEF Canvas!Restart
<1>2. \A q \in Requests : req'[q].kind = "idle"
  BY <1>1 DEF Canvas!NoRequest
<1>3. /\ gen' \in [Canvas!Modes -> Nat] /\ DOMAIN slot' = Canvas!Modes /\ DOMAIN req' = Requests
      /\ slot' = slot \/ slot'["oauth"] = None
  BY <1>1 DEF GrantInv, Canvas!Modes
<1> QED
  BY <1>1, <1>2, <1>3 DEF GrantInv

LEMMA Publishes ==
    ASSUME GrantInv, NEW q \in Requests, Canvas!Publish(q)
    PROVE  GrantInv' /\ Canvas!OnlyCurrentGrants
<1>1. /\ GrantInv'
      /\ \A p \in Requests \ {q} : req[p].kind = "callback" => req'[p].kind = "callback"
  <2>1. PICK a : a = req[q].account
    OBVIOUS
  <2>2. Canvas!Change("oauth", a, Canvas!Done(q))
    BY <2>1 DEF Canvas!Publish
  <2> QED
    BY <2>2, ChangesAndEnds
<1>2. ~req[q].cut /\ bound \in {None, slot'["oauth"]}
  <2>1. /\ req[q] \in Callbacks /\ Behind(req[q]) /\ gen["oauth"] \in Nat
        /\ "oauth" \in DOMAIN slot
    BY DEF GrantInv, Canvas!Publish, Canvas!Modes
  <2>2. /\ gen["oauth"] = req[q].gen /\ bound \in {None, req[q].account}
        /\ slot'["oauth"] = req[q].account
    BY <2>1 DEF Canvas!Publish, Canvas!Publishable, Canvas!Fits, Canvas!Change
  <2> QED
    BY <2>1, <2>2 DEF Behind
<1> QED
  BY <1>1, <1>2 DEF Canvas!OnlyCurrentGrants, Canvas!NoRequest

LEMMA NotByOthers ==
    ASSUME slot'["oauth"] \in {slot["oauth"], None} \/ Pending
    PROVE  Canvas!OnlyCurrentGrants
  BY DEF Canvas!OnlyCurrentGrants, Pending, Canvas!NoRequest

LEMMA GrantStep ==
    ASSUME GrantInv, [Canvas!Next]_(Canvas!cvars)
    PROVE  GrantInv' /\ Canvas!OnlyCurrentGrants
<1>1. CASE UNCHANGED Canvas!cvars
  BY <1>1, StoreUntouched, NotByOthers DEF Canvas!cvars
<1>2. ASSUME NEW q \in Requests, NEW m \in Canvas!Modes, Canvas!Verify(q, m)
      PROVE  GrantInv' /\ slot' = slot
  BY <1>2, StoreUntouched, AsksOnly DEF Canvas!Verify
<1>3. ASSUME NEW q \in Requests, NEW a \in Accounts, Canvas!OfferToken(q, a) \/ Canvas!OfferSession(q, a)
      PROVE  GrantInv' /\ slot' = slot
  BY <1>3, AsksOnly DEF Canvas!OfferToken, Canvas!OfferSession, Canvas!Offer
<1>4. ASSUME NEW q \in Requests, Canvas!Accepted(q) \/ Canvas!Verified(q) \/ Canvas!VerifyFails(q)
                                     \/ Canvas!Refreshed(q)
      PROVE  GrantInv' /\ (slot' = slot \/ Pending)
  <2>1. req[q].kind # "callback"
    BY <1>4 DEF Canvas!Accepted, Canvas!Verified, Canvas!VerifyFails, Canvas!Refreshed
  <2>2. \/ req' = Canvas!Done(q) /\ UNCHANGED <<slot, gen, grant>>
        \/ \E m, a : Canvas!Change(m, a, Canvas!Done(q))
    BY <1>4 DEF Canvas!Accepted, Canvas!Verified, Canvas!VerifyFails, Canvas!Refreshed
  <2> QED
    BY <2>1, <2>2, EndsOnly, ChangesAndEnds DEF Pending
<1>5. ASSUME NEW q \in Requests, Canvas!Refused(q) \/ Canvas!PublishIsCut(q) \/ Canvas!CallbackFails(q)
      PROVE  GrantInv' /\ slot' = slot
  BY <1>5, EndsOnly DEF Canvas!Refused, Canvas!PublishIsCut, Canvas!CallbackFails
<1>6. ASSUME NEW q \in Requests, Canvas!Refresh(q) \/ Canvas!VerifyEnvironment(q)
      PROVE  GrantInv' /\ slot' = slot
  BY <1>6, AsksOnly DEF Canvas!Refresh, Canvas!VerifyEnvironment
<1>7. ASSUME NEW m \in Canvas!Modes, Canvas!Remove(m) \/ Canvas!Lapse(m)
      PROVE  GrantInv' /\ Pending
  BY <1>7, Changes DEF Canvas!Remove, Canvas!Lapse
<1>8. ASSUME NEW e \in BOOLEAN, Canvas!Ensure(e)
      PROVE  GrantInv' /\ (slot' = slot \/ Pending)
  BY <1>8, Changes, StoreUntouched DEF Canvas!Ensure
<1>9. CASE Canvas!Mark
  BY <1>9, StoreUntouched, NotByOthers DEF Canvas!Mark
<1> QED
  BY <1>1, <1>2, <1>3, <1>4, <1>5, <1>6, <1>7, <1>8, <1>9, RenewsOnly, ClearsAll, AttemptsBegin,
     ComesBack, Publishes, NotByOthers DEF Canvas!Next

\* A callback installs a token only while its authorization stands: OAuth was neither
\* disconnected nor renewed since it was asked for, and the account is the bound one
\* (CanvasOAuth.callback and publish, api/canvas_oauth.py:59-70).
THEOREM GrantsAreCurrent == Canvas!Spec => GrantIsCurrent
<1>1. Canvas!Init => GrantInv
  BY DEF Canvas!Init, GrantInv, Canvas!NoRequest, Canvas!Modes
<1>2. GrantInv /\ [Canvas!Next]_(Canvas!cvars) => GrantInv' /\ [Canvas!OnlyCurrentGrants]_(Canvas!cvars)
  BY GrantStep
<1>3. GrantIsCurrent <=> [][Canvas!OnlyCurrentGrants]_(Canvas!cvars)
  BY DEF GrantIsCurrent, Canvas!GrantIsCurrent
<1> QED
  BY <1>1, <1>2, <1>3, PTL DEF Canvas!Spec

-----------------------------------------------------------------------------
(* The desktop broker works on one attempt.  Whether it claims, or has the *)
(* window open: start_lock is taken for the claim only.                    *)

AtClaim == {"claiming", "claimed"}

DesktopInv ==
    /\ DOMAIN job = Attempts
    /\ \A a \in Attempts : job[a] \in AtClaim => gate = a
    /\ \A a, b \in Attempts :
          job[a] \in AtClaim \union Browser!Running /\ job[b] \in AtClaim \union Browser!Running => a = b

LEMMA ClaimsOne ==
    ASSUME DesktopInv, NEW c \in Attempts, Browser!StartLogin(c)
    PROVE  DesktopInv'
<1>1. CASE UNCHANGED <<gate, job>>
  BY <1>1 DEF DesktopInv
<1>2. CASE Browser!MayEnter /\ gate' = c /\ job' = [job EXCEPT ![c] = "claiming"]
  <2>1. \A a \in Attempts : job[a] \notin AtClaim \union Browser!Running
    BY <1>2, NoneIsApart DEF DesktopInv, Browser!MayEnter
  <2>2. DOMAIN job' = Attempts /\ \A a \in Attempts : job'[a] = IF a = c THEN "claiming" ELSE job[a]
    BY <1>2 DEF DesktopInv
  <2> QED
    BY <1>2, <2>1, <2>2 DEF DesktopInv
<1> QED
  BY <1>1, <1>2 DEF Browser!StartLogin, Browser!desktop

\* An attempt at work goes on, or is let go of; nobody else begins.
LEMMA GoesOn ==
    ASSUME DesktopInv, NEW c \in Attempts, DOMAIN job' = Attempts,
           job[c] \in AtClaim \union Browser!Running \/ job'[c] \notin AtClaim \union Browser!Running,
           job'[c] \in AtClaim => gate' = c,
           \A b \in Attempts \ {c} : job'[b] \in {job[b], "none"},
           gate' = gate \/ job[c] \in AtClaim
    PROVE  DesktopInv'
<1>1. \A b \in Attempts : job'[b] \in AtClaim \union Browser!Running
                           => job[b] \in AtClaim \union Browser!Running
  BY DEF AtClaim, Browser!Running
<1>2. ASSUME NEW b \in Attempts, job'[b] \in AtClaim PROVE gate' = b
  <2>1. CASE b = c
    BY <1>2, <2>1
  <2>2. CASE b # c
    <3>1. job[b] \in AtClaim
      BY <1>2, <2>2 DEF AtClaim
    <3> QED
      BY <2>2, <3>1 DEF DesktopInv
  <2> QED
    BY <2>1, <2>2
<1> QED
  BY <1>1, <1>2 DEF DesktopInv

LEMMA DesktopMoves ==
    ASSUME DesktopInv, NEW a \in Attempts,
           \/ Browser!Complete(a) \/ Browser!ClaimTaken(a) \/ Browser!ClaimAnswered(a)
           \/ Browser!ClaimFails(a) \/ Browser!LoginEnds(a) \/ Browser!ReportFailed(a)
           \/ Browser!DesktopCancels(a)
    PROVE  DesktopInv'
<1>1. CASE Browser!Complete(a)
  <2>1. job[a] = "login" /\ gate' = gate /\ \E s \in {"done", "failing"} : job' = [job EXCEPT ![a] = s]
    BY <1>1 DEF Browser!Complete
  <2> QED
    BY <2>1, GoesOn DEF DesktopInv, AtClaim, Browser!Running
<1>2. CASE Browser!ClaimTaken(a)
  <2>1. job[a] = "claiming" /\ gate' = gate /\ job' = [job EXCEPT ![a] = "claimed"]
    BY <1>2 DEF Browser!ClaimTaken
  <2> QED
    BY <2>1, GoesOn DEF DesktopInv, AtClaim
<1>3. CASE Browser!ClaimAnswered(a)
  <2>1. /\ job[a] = "claimed" /\ DOMAIN job' = Attempts /\ job'[a] = "login"
        /\ \A b \in Attempts \ {a} : job'[b] \in {job[b], "none"}
    BY <1>3 DEF Browser!ClaimAnswered
  <2> QED
    BY <2>1, GoesOn DEF AtClaim
<1>4. CASE Browser!ClaimFails(a)
  <2>1. job[a] \in AtClaim /\ job' = [job EXCEPT ![a] = "none"]
    BY <1>4 DEF Browser!ClaimFails, AtClaim
  <2> QED
    BY <2>1, GoesOn DEF DesktopInv, AtClaim
<1>5. CASE Browser!LoginEnds(a)
  <2>1. job[a] = "login" /\ gate' = gate /\ job' = [job EXCEPT ![a] = "failing"]
    BY <1>5 DEF Browser!LoginEnds
  <2> QED
    BY <2>1, GoesOn DEF DesktopInv, AtClaim, Browser!Running
<1>6. CASE Browser!ReportFailed(a)
  <2>1. gate' = gate /\ job' = [job EXCEPT ![a] = "done"]
    BY <1>6 DEF Browser!ReportFailed
  <2> QED
    BY <2>1, GoesOn DEF DesktopInv, AtClaim, Browser!Running
<1>7. CASE Browser!DesktopCancels(a)
  <2>1. PICK s : s = CASE job[a] = "login" -> "failing" [] job[a] = "failing" -> "done" [] OTHER -> job[a]
    OBVIOUS
  <2>2. gate' = gate /\ job' = [job EXCEPT ![a] = s]
    BY <1>7, <2>1 DEF Browser!DesktopCancels
  <2>3. s = job[a] \/ s = "done" \/ (job[a] = "login" /\ s = "failing")
    BY <2>1
  <2> QED
    BY <2>2, <2>3, GoesOn DEF DesktopInv, AtClaim, Browser!Running
<1> QED
  BY <1>1, <1>2, <1>3, <1>4, <1>5, <1>6, <1>7

LEMMA DesktopStep ==
    ASSUME DesktopInv, [Browser!Next]_(Browser!vars)
    PROVE  DesktopInv'
<1>1. CASE UNCHANGED <<gate, job>>
  BY <1>1 DEF DesktopInv
<1>2. CASE Browser!DesktopRestarts
  BY <1>2 DEF Browser!DesktopRestarts, DesktopInv, AtClaim, Browser!Running
<1>3. ASSUME NEW f \in Forms, Browser!PageStep(f) PROVE UNCHANGED <<gate, job>>
  BY <1>3 DEF Browser!PageStep, Browser!Start, Browser!Cancel, Browser!Unmount, Browser!GotTicket,
     Browser!Opened, Browser!StartFails, Browser!End, Browser!Poll, Browser!ServerCreates, Browser!desktop
<1>4. ASSUME NEW a \in Attempts, Browser!ServerCancels(a) \/ Browser!Deadline(a) \/ Browser!Lose(a)
      PROVE  UNCHANGED <<gate, job>>
  BY <1>4 DEF Browser!ServerCancels, Browser!Deadline, Browser!Lose, Browser!desktop
<1>5. CASE Browser!BackendRestarts \/ Browser!GatewayRestarts
  BY <1>1, <1>5 DEF Browser!BackendRestarts, Browser!GatewayRestarts, Browser!desktop
<1>6. CASE UNCHANGED Browser!vars
  BY <1>1, <1>6 DEF Browser!vars, Browser!desktop
<1> QED
  BY <1>1, <1>2, <1>3, <1>4, <1>5, <1>6, ClaimsOne, DesktopMoves DEF Browser!Next, Browser!AttemptStep

\* The desktop never shows two login windows: a login begins under start_lock and
\* looks for every job that runs (start and start_locked, auth-broker's server.py:148-163).
THEOREM OneWindow == Browser!Spec => []OneLogin
<1>1. Browser!Init => DesktopInv
  BY DEF Browser!Init, DesktopInv, AtClaim, Browser!Running
<1>2. DesktopInv /\ [Browser!Next]_(Browser!vars) => DesktopInv'
  BY DesktopStep
<1>3. DesktopInv => OneLogin
  BY DEF DesktopInv, OneLogin, Browser!OneLogin
<1> QED
  BY <1>1, <1>2, <1>3, PTL DEF Browser!Spec

-----------------------------------------------------------------------------
(* No attempt is left behind.  A form that is not in start() has none under *)
(* way, one under way has not become the ticket yet, and a live challenge   *)
(* without its row was hit by a restart of the gateway.                     *)

RowsHold ==
    \A a \in Attempts : gateway /\ chal[a] \in Browser!LiveStates => outer[a] # "none" \/ a \in lost

Minds(f, a) ==
    \/ at[f] = "created" /\ value[f] = a
    \/ f \in mounted /\ ticket[f] = a

FormsInv ==
    /\ DOMAIN at = Forms /\ DOMAIN ticket = Forms /\ DOMAIN value = Forms
    /\ \A f \in Forms : f \notin starting => at[f] = "idle"
    /\ \A f \in Forms : at[f] \in {"creating", "created"} => ticket[f] = None

StrayInv ==
    /\ FormsInv
    /\ DOMAIN chal = Attempts /\ DOMAIN outer = Attempts
    /\ RowsHold
    /\ NoStrayAttempt

\* What a step of the servers may do to the challenges when no form moves.
LEMMA ServersMove ==
    ASSUME StrayInv, UNCHANGED <<gateway, mounted, starting, ticket, at, value>>,
           DOMAIN chal' = Attempts, DOMAIN outer' = Attempts,
           \A a \in Attempts : chal'[a] \in Browser!LiveStates =>
             /\ chal[a] \in Browser!LiveStates
             /\ a \in toBackend \union lost => a \in toBackend' \union lost'
             /\ gateway /\ (outer[a] # "none" \/ a \in lost) => outer'[a] # "none" \/ a \in lost'
    PROVE  StrayInv'
<1>1. FormsInv'
  BY DEF StrayInv, FormsInv
<1>2. RowsHold'
  BY DEF StrayInv, RowsHold
<1>3. NoStrayAttempt'
  BY DEF StrayInv, NoStrayAttempt, Browser!NoStrayAttempt, Browser!Attended
<1> QED
  BY <1>1, <1>2, <1>3 DEF StrayInv

\* What a step of a form may do when no challenge changes.
LEMMA FormMoves ==
    ASSUME StrayInv, NEW f \in Forms, UNCHANGED <<gateway, chal, outer>>, FormsInv',
           lost \subseteq lost', toBackend \subseteq toBackend',
           mounted \ {f} \subseteq mounted',
           \A g \in Forms \ {f} : ticket'[g] = ticket[g] /\ value'[g] = value[g] /\ at'[g] = at[g],
           \A a \in Attempts : chal[a] \in Browser!LiveStates /\ Minds(f, a)
                               => a \in toBackend' \union lost' \/ Minds(f, a)'
    PROVE  StrayInv'
<1>1. RowsHold'
  BY DEF StrayInv, RowsHold
<1>2. NoStrayAttempt'
  <2>1. SUFFICES ASSUME NEW a \in Attempts, chal[a] \in Browser!LiveStates PROVE Browser!Attended(a)'
    BY DEF NoStrayAttempt, Browser!NoStrayAttempt
  <2>2. Browser!Attended(a)
    BY <2>1 DEF StrayInv, NoStrayAttempt, Browser!NoStrayAttempt
  <2>3. CASE a \in toBackend \union lost
    BY <2>3 DEF Browser!Attended
  <2>4. ASSUME NEW g \in Forms, Minds(g, a)
        PROVE  Browser!Attended(a)'
    <3>1. CASE g = f
      BY <2>1, <2>4, <3>1 DEF Browser!Attended, Minds
    <3>2. CASE g # f
      BY <2>4, <3>2 DEF Browser!Attended, Minds
    <3> QED
      BY <3>1, <3>2
  <2> QED
    BY <2>2, <2>3, <2>4 DEF Browser!Attended, Minds
<1> QED
  BY <1>1, <1>2 DEF StrayInv

\* cancel(a) puts a on its way to the backend.
LEMMA CancelsTicket ==
    ASSUME FormsInv, NEW f \in Forms, NEW a, Browser!Cancelling(f, a)
    PROVE  /\ ticket' = [ticket EXCEPT ![f] = None] /\ DOMAIN ticket' = Forms /\ ticket'[f] = None
           /\ \A g \in Forms \ {f} : ticket'[g] = ticket[g]
           /\ toBackend \subseteq toBackend' /\ (a # None => a \in toBackend')
<1>1. ticket' = [ticket EXCEPT ![f] = None]
  BY DEF Browser!Cancelling
<1>2. toBackend' = toBackend \/ toBackend' = toBackend \union {a}
  BY DEF Browser!Cancelling, Browser!net
<1>3. a # None => a \in toBackend'
  BY DEF Browser!Cancelling
<1> QED
  BY <1>1, <1>2, <1>3 DEF FormsInv

\* A form's own moves keep the shape of every form.
LEMMA FormsKeep ==
    ASSUME FormsInv, NEW f \in Forms, NEW p, at' = [at EXCEPT ![f] = p],
           DOMAIN ticket' = Forms, DOMAIN value' = Forms,
           \A g \in Forms \ {f} : ticket'[g] = ticket[g],
           starting \ {f} \subseteq starting', f \notin starting' => p = "idle",
           p \in {"creating", "created"} => ticket'[f] = None
    PROVE  FormsInv' /\ at'[f] = p /\ \A g \in Forms \ {f} : at'[g] = at[g]
<1>1. DOMAIN at' = Forms /\ at'[f] = p /\ \A g \in Forms \ {f} : at'[g] = at[g]
  BY DEF FormsInv
<1>2. ASSUME NEW g \in Forms
      PROVE  /\ g \notin starting' => at'[g] = "idle"
             /\ at'[g] \in {"creating", "created"} => ticket'[g] = None
  <2>1. CASE g = f
    BY <1>1, <2>1
  <2>2. CASE g # f
    BY <1>1, <2>2 DEF FormsInv
  <2> QED
    BY <2>1, <2>2
<1> QED
  BY <1>1, <1>2 DEF FormsInv

LEMMA StartStays ==
    ASSUME StrayInv, NEW f \in Forms, Browser!Start(f)
    PROVE  StrayInv'
<1>1. /\ at' = [at EXCEPT ![f] = "creating"] /\ starting' = starting \union {f} /\ ticket[f] = None
      /\ UNCHANGED <<gateway, chal, outer, mounted, ticket, value, lost, toBackend>>
      /\ FormsInv /\ at[f] # "created"
  BY DEF Browser!Start, Browser!server, Browser!fixed, Browser!fault, Browser!net, StrayInv, FormsInv
<1>2. FormsInv' /\ at'[f] = "creating" /\ \A g \in Forms \ {f} : at'[g] = at[g]
  BY <1>1, FormsKeep DEF FormsInv
<1>3. \A a \in Attempts : Minds(f, a) => Minds(f, a)'
  BY <1>1 DEF Minds
<1> QED
  BY <1>1, <1>2, <1>3, FormMoves

LEMMA LeaveStays ==
    ASSUME StrayInv, NEW f \in Forms, Browser!Cancel(f) \/ Browser!Unmount(f)
    PROVE  StrayInv'
<1>1. /\ Browser!Cancelling(f, ticket[f])
      /\ UNCHANGED <<gateway, chal, outer, starting, at, value, lost>>
      /\ mounted \ {f} \subseteq mounted' /\ FormsInv
  BY DEF Browser!Cancel, Browser!Unmount, Browser!server, Browser!fixed, Browser!fault, StrayInv
<1>2. PICK t : t = ticket[f]
  OBVIOUS
<1>3. /\ DOMAIN ticket' = Forms /\ ticket'[f] = None
      /\ \A g \in Forms \ {f} : ticket'[g] = ticket[g]
      /\ toBackend \subseteq toBackend' /\ (t # None => t \in toBackend')
  BY <1>1, <1>2, CancelsTicket
<1>4. FormsInv'
  BY <1>1, <1>3 DEF FormsInv
<1>5. \A a \in Attempts : Minds(f, a) => a \in toBackend' \/ Minds(f, a)'
  BY <1>1, <1>2, <1>3, NoneIsApart DEF Minds
<1> QED
  BY <1>1, <1>3, <1>4, <1>5, FormMoves

LEMMA GotTicketStays ==
    ASSUME StrayInv, NEW f \in Forms, Browser!GotTicket(f)
    PROVE  StrayInv'
<1>1. /\ at[f] = "created" /\ ticket[f] = None /\ FormsInv /\ f \in starting
      /\ UNCHANGED <<gateway, chal, outer, mounted, starting, value, lost>>
  BY DEF Browser!GotTicket, Browser!server, Browser!fixed, Browser!fault, StrayInv, FormsInv
<1>2. CASE Browser!Abandoned(f)
  <2>1. PICK v : v = value[f]
    OBVIOUS
  <2>2. Browser!Cancelling(f, v) /\ at' = [at EXCEPT ![f] = "ending"]
    BY <1>2, <2>1 DEF Browser!GotTicket
  <2>3. /\ DOMAIN ticket' = Forms /\ ticket'[f] = None
        /\ \A g \in Forms \ {f} : ticket'[g] = ticket[g]
        /\ toBackend \subseteq toBackend' /\ (v # None => v \in toBackend')
    BY <1>1, <2>2, CancelsTicket
  <2>4. FormsInv' /\ \A g \in Forms \ {f} : at'[g] = at[g]
    BY <1>1, <2>2, <2>3, FormsKeep DEF FormsInv
  <2>5. \A a \in Attempts : Minds(f, a) => a \in toBackend'
    BY <1>1, <2>1, <2>3, NoneIsApart DEF Minds
  <2> QED
    BY <1>1, <2>3, <2>4, <2>5, FormMoves
<1>3. CASE ~Browser!Abandoned(f)
  <2>1. /\ ticket' = [ticket EXCEPT ![f] = value[f]] /\ at' = [at EXCEPT ![f] = "opening"]
        /\ toBackend' = toBackend /\ f \in mounted
    BY <1>3 DEF Browser!GotTicket, Browser!Abandoned
  <2>2. DOMAIN ticket' = Forms /\ ticket'[f] = value[f] /\ \A g \in Forms \ {f} : ticket'[g] = ticket[g]
    BY <1>1, <2>1 DEF FormsInv
  <2>3. FormsInv' /\ \A g \in Forms \ {f} : at'[g] = at[g]
    BY <1>1, <2>1, <2>2, FormsKeep DEF FormsInv
  <2>4. \A a \in Attempts : Minds(f, a) => Minds(f, a)'
    BY <1>1, <2>1, <2>2, NoneIsApart DEF Minds
  <2> QED
    BY <1>1, <2>1, <2>2, <2>3, <2>4, FormMoves
<1> QED
  BY <1>2, <1>3

\* start() returns from a place where the attempt is no longer its own.
LEMMA ReturnStays ==
    ASSUME StrayInv, NEW f \in Forms, Browser!Opened(f) \/ Browser!End(f)
    PROVE  StrayInv'
<1>1. /\ at[f] # "created" /\ at' = [at EXCEPT ![f] = "idle"] /\ starting' = starting \ {f}
      /\ value' = [value EXCEPT ![f] = None] /\ FormsInv
      /\ UNCHANGED <<gateway, chal, outer, mounted, ticket, lost, toBackend>>
  BY DEF Browser!Opened, Browser!End, Browser!Returns, Browser!server, Browser!fixed, Browser!fault,
     Browser!net, StrayInv
<1>2. DOMAIN value' = Forms /\ \A g \in Forms \ {f} : value'[g] = value[g]
  BY <1>1 DEF FormsInv
<1>3. FormsInv' /\ \A g \in Forms \ {f} : at'[g] = at[g]
  BY <1>1, <1>2, FormsKeep DEF FormsInv
<1>4. \A a \in Attempts : Minds(f, a) => Minds(f, a)'
  BY <1>1 DEF Minds
<1> QED
  BY <1>1, <1>2, <1>3, <1>4, FormMoves

LEMMA StartFailsStays ==
    ASSUME StrayInv, NEW f \in Forms, Browser!StartFails(f)
    PROVE  StrayInv'
<1>1. /\ at' = [at EXCEPT ![f] = "ending"] /\ FormsInv /\ f \in starting
      /\ at[f] = "created" => lost' = lost \union {value[f]}
      /\ lost \subseteq lost'
      /\ UNCHANGED <<gateway, chal, outer, mounted, starting, value>>
  BY DEF Browser!StartFails, Browser!Fault, Browser!server, Browser!fixed, Browser!fault, StrayInv, FormsInv
<1>2. PICK t : t = ticket[f]
  OBVIOUS
<1>3. /\ DOMAIN ticket' = Forms /\ toBackend \subseteq toBackend'
      /\ \A g \in Forms \ {f} : ticket'[g] = ticket[g]
      /\ ticket'[f] = t \/ (t # None => t \in toBackend')
  <2>1. CASE mine[f]
    <3>1. Browser!Cancelling(f, t)
      BY <1>2, <2>1 DEF Browser!StartFails
    <3> QED
      BY <1>1, <3>1, CancelsTicket
  <2>2. CASE ~mine[f]
    BY <1>1, <1>2, <2>2 DEF Browser!StartFails, Browser!net, FormsInv
  <2> QED
    BY <2>1, <2>2
<1>4. FormsInv' /\ \A g \in Forms \ {f} : at'[g] = at[g]
  BY <1>1, <1>3, FormsKeep DEF FormsInv
<1>5. \A a \in Attempts : Minds(f, a) => a \in toBackend' \union lost' \/ Minds(f, a)'
  BY <1>1, <1>2, <1>3, NoneIsApart DEF Minds
<1> QED
  BY <1>1, <1>3, <1>4, <1>5, FormMoves

LEMMA PollStays ==
    ASSUME StrayInv, NEW f \in Forms, Browser!Poll(f)
    PROVE  StrayInv'
<1>1. /\ ticket' = [ticket EXCEPT ![f] = None] /\ FormsInv /\ chal[ticket[f]] \notin Browser!LiveStates
      /\ UNCHANGED <<gateway, chal, outer, mounted, starting, at, value, lost, toBackend>>
  BY DEF Browser!Poll, Browser!server, Browser!fixed, Browser!fault, Browser!net, StrayInv,
     Browser!Final, Browser!LiveStates
<1>2. DOMAIN ticket' = Forms /\ ticket'[f] = None /\ \A g \in Forms \ {f} : ticket'[g] = ticket[g]
  BY <1>1 DEF FormsInv
<1>3. FormsInv'
  BY <1>1, <1>2 DEF FormsInv
<1>4. \A a \in Attempts : chal[a] \in Browser!LiveStates /\ Minds(f, a) => Minds(f, a)'
  BY <1>1 DEF Minds
<1> QED
  BY <1>1, <1>2, <1>3, <1>4, FormMoves

LEMMA CreateStays ==
    ASSUME StrayInv, NEW f \in Forms, NEW a \in Attempts, Browser!ServerCreates(f, a)
    PROVE  StrayInv'
<1>1. /\ at[f] = "creating" /\ ticket[f] = None /\ FormsInv /\ f \in starting
      /\ at' = [at EXCEPT ![f] = "created"] /\ value' = [value EXCEPT ![f] = a]
      /\ UNCHANGED <<gateway, mounted, starting, ticket, lost, toBackend>>
  BY DEF Browser!ServerCreates, Browser!fixed, Browser!fault, Browser!net, StrayInv, FormsInv
<1>2. DOMAIN value' = Forms /\ value'[f] = a /\ \A g \in Forms \ {f} : value'[g] = value[g]
  BY <1>1 DEF FormsInv
<1>3. FormsInv' /\ at'[f] = "created" /\ \A g \in Forms \ {f} : at'[g] = at[g]
  BY <1>1, <1>2, FormsKeep DEF FormsInv
<1>4. /\ DOMAIN chal' = Attempts
      /\ \A b \in Attempts \ {a} : chal'[b] \in Browser!LiveStates => chal[b] \in Browser!LiveStates
  BY DEF Browser!ServerCreates, Browser!LiveStates
<1>5. /\ DOMAIN outer' = Attempts /\ (gateway => outer'[a] = "held")
      /\ \A b \in Attempts \ {a} : outer'[b] = outer[b]
  BY DEF Browser!ServerCreates, StrayInv
<1>6. RowsHold'
  BY <1>1, <1>4, <1>5 DEF StrayInv, RowsHold
<1>7. ASSUME NEW b \in Attempts, chal'[b] \in Browser!LiveStates PROVE Browser!Attended(b)'
  <2>1. CASE b = a
    BY <1>2, <1>3, <2>1 DEF Browser!Attended
  <2>2. CASE b # a
    <3>1. Browser!Attended(b)
      BY <1>4, <1>7, <2>2 DEF StrayInv, NoStrayAttempt, Browser!NoStrayAttempt
    <3> QED
      BY <1>1, <1>2, <1>3, <3>1 DEF Browser!Attended
  <2> QED
    BY <2>1, <2>2
<1> QED
  BY <1>3, <1>4, <1>5, <1>6, <1>7 DEF StrayInv, NoStrayAttempt, Browser!NoStrayAttempt

LEMMA RequestsStay ==
    ASSUME StrayInv, NEW a \in Attempts, Browser!ServerCancels(a) \/ Browser!Lose(a)
    PROVE  StrayInv'
<1>1. CASE Browser!ServerCancels(a)
  <2>1. /\ UNCHANGED <<gateway, outer, mounted, starting, ticket, at, value, lost>>
        /\ toBackend' = toBackend \ {a}
    BY <1>1 DEF Browser!ServerCancels, Browser!Settles, Browser!fixed, Browser!fault
  <2>2. /\ DOMAIN chal' = Attempts
        /\ \A b \in Attempts : chal'[b] \in Browser!LiveStates => chal[b] \in Browser!LiveStates
        /\ chal'[a] \in Browser!LiveStates => gateway /\ outer[a] = "none"
    BY <1>1 DEF Browser!ServerCancels, Browser!Rowed, Browser!LiveStates, StrayInv
  <2>3. chal'[a] \in Browser!LiveStates => a \in lost
    BY <2>2 DEF StrayInv, RowsHold
  <2> QED
    BY <2>1, <2>2, <2>3, ServersMove DEF StrayInv
<1>2. CASE Browser!Lose(a)
  <2>1. /\ UNCHANGED <<gateway, chal, outer, mounted, starting, ticket, at, value>>
        /\ lost' = lost \union {a} /\ toBackend \ {a} \subseteq toBackend'
    BY <1>2 DEF Browser!Lose, Browser!Settles, Browser!Fault, Browser!fixed, Browser!server, Browser!form
  <2> QED
    BY <2>1, ServersMove DEF StrayInv
<1> QED
  BY <1>1, <1>2

\* The challenge of an attempt comes to an end.
LEMMA EndingStays ==
    ASSUME StrayInv, NEW a \in Attempts,
           Browser!Deadline(a) \/ Browser!Complete(a) \/ Browser!ReportFailed(a)
    PROVE  StrayInv'
<1>1. /\ UNCHANGED <<gateway, mounted, starting, ticket, at, value, toBackend>>
      /\ lost \subseteq lost'
      /\ outer' = [outer EXCEPT ![a] = "none"] \/ outer' = outer
      /\ \/ chal' = chal /\ outer' = outer
         \/ \E s \in {"TIMED_OUT", "AUTHENTICATED", "FAILED"} : chal' = [chal EXCEPT ![a] = s]
  BY DEF Browser!Deadline, Browser!Complete, Browser!ReportFailed, Browser!Drop, Browser!Fault,
     Browser!fixed, Browser!fault, Browser!form, Browser!net
<1>2. DOMAIN outer' = Attempts /\ \A b \in Attempts \ {a} : outer'[b] = outer[b]
  BY <1>1 DEF StrayInv
<1>3. /\ DOMAIN chal' = Attempts
      /\ \A b \in Attempts : chal'[b] \in Browser!LiveStates => chal[b] \in Browser!LiveStates
      /\ chal'[a] \in Browser!LiveStates => outer' = outer
  BY <1>1 DEF StrayInv, Browser!LiveStates
<1> QED
  BY <1>1, <1>2, <1>3, ServersMove

LEMMA ClaimStays ==
    ASSUME StrayInv, NEW a \in Attempts, Browser!ClaimTaken(a) \/ Browser!ClaimAnswered(a)
    PROVE  StrayInv'
<1>1. UNCHANGED <<gateway, mounted, starting, ticket, at, value, toBackend, lost>>
  BY DEF Browser!ClaimTaken, Browser!ClaimAnswered, Browser!fixed, Browser!fault, Browser!form, Browser!net
<1>2. CASE Browser!ClaimTaken(a)
  <2>1. chal[a] = "WAITING" /\ chal' = [chal EXCEPT ![a] = "OPENED"] /\ outer' = outer
    BY <1>2 DEF Browser!ClaimTaken
  <2> QED
    BY <1>1, <2>1, ServersMove DEF StrayInv, Browser!LiveStates
<1>3. CASE Browser!ClaimAnswered(a)
  <2>1. chal' = chal /\ outer' = [outer EXCEPT ![a] = IF gateway THEN "exchanged" ELSE "none"]
    BY <1>3 DEF Browser!ClaimAnswered
  <2>2. DOMAIN outer' = Attempts /\ \A b \in Attempts : gateway => outer'[b] \in {outer[b], "exchanged"}
    BY <2>1 DEF StrayInv
  <2> QED
    BY <1>1, <2>1, <2>2, ServersMove DEF StrayInv
<1> QED
  BY <1>2, <1>3

LEMMA RestartStays ==
    ASSUME StrayInv, Browser!BackendRestarts \/ Browser!GatewayRestarts \/ Browser!DesktopRestarts
    PROVE  StrayInv'
<1>1. /\ UNCHANGED <<gateway, mounted, starting, ticket, at, value, toBackend>> /\ lost \subseteq lost'
  BY DEF Browser!BackendRestarts, Browser!GatewayRestarts, Browser!DesktopRestarts, Browser!Fault,
     Browser!fixed, Browser!form, Browser!net
<1>2. CASE Browser!BackendRestarts
  <2>1. /\ outer' = outer /\ DOMAIN chal' = Attempts
        /\ \A b \in Attempts : chal'[b] \in Browser!LiveStates => chal[b] \in Browser!LiveStates
    BY <1>2 DEF Browser!BackendRestarts, Browser!LiveStates
  <2> QED
    BY <1>1, <2>1, ServersMove DEF StrayInv
<1>3. CASE Browser!GatewayRestarts
  <2>1. /\ chal' = chal /\ DOMAIN outer' = Attempts
        /\ \A b \in Attempts : outer[b] # "none" => b \in lost'
    BY <1>3 DEF Browser!GatewayRestarts, Browser!Fault
  <2> QED
    BY <1>1, <2>1, ServersMove DEF StrayInv
<1>4. CASE Browser!DesktopRestarts
  <2>1. chal' = chal /\ outer' = outer
    BY <1>4 DEF Browser!DesktopRestarts, Browser!server
  <2> QED
    BY <1>1, <2>1, ServersMove DEF StrayInv
<1> QED
  BY <1>2, <1>3, <1>4

LEMMA StillStays ==
    ASSUME StrayInv,
           UNCHANGED <<gateway, chal, outer, mounted, starting, ticket, at, value, toBackend, lost>>
    PROVE  StrayInv'
  BY ServersMove DEF StrayInv

LEMMA StrayStep ==
    ASSUME StrayInv, [Browser!Next]_(Browser!vars)
    PROVE  StrayInv'
<1>1. CASE UNCHANGED Browser!vars
  BY <1>1, StillStays DEF Browser!vars, Browser!fixed, Browser!form, Browser!server, Browser!net, Browser!fault
<1>2. ASSUME NEW a \in Attempts,
             Browser!StartLogin(a) \/ Browser!ClaimFails(a) \/ Browser!LoginEnds(a) \/ Browser!DesktopCancels(a)
      PROVE  StrayInv'
  BY <1>2, StillStays DEF Browser!StartLogin, Browser!ClaimFails, Browser!LoginEnds, Browser!DesktopCancels,
     Browser!fixed, Browser!form, Browser!server, Browser!net, Browser!fault
<1>3. ASSUME NEW f \in Forms, Browser!PageStep(f) PROVE StrayInv'
  BY <1>3, StartStays, LeaveStays, GotTicketStays, ReturnStays, StartFailsStays, PollStays, CreateStays
     DEF Browser!PageStep
<1>4. ASSUME NEW a \in Attempts, Browser!AttemptStep(a) PROVE StrayInv'
  BY <1>2, <1>4, RequestsStay, EndingStays, ClaimStays DEF Browser!AttemptStep
<1> QED
  BY <1>1, <1>3, <1>4, RestartStays DEF Browser!Next

\* A challenge that can still be claimed or completed is some form's ticket, or on its way
\* to or from it, unless a request or a process was lost: whatever starts, cancels and
\* unmounts overlap with the answers (BrowserSignIn, AuthBroker.tsx:95-150).
THEOREM NothingStrays == Browser!Spec => []NoStrayAttempt
<1>1. Browser!Init => StrayInv
  BY DEF Browser!Init, StrayInv, FormsInv, RowsHold, Browser!LiveStates, NoStrayAttempt,
     Browser!NoStrayAttempt
<1>2. StrayInv /\ [Browser!Next]_(Browser!vars) => StrayInv'
  BY StrayStep
<1>3. StrayInv => NoStrayAttempt
  BY DEF StrayInv
<1> QED
  BY <1>1, <1>2, <1>3, PTL DEF Browser!Spec
=============================================================================
