----------------------------- MODULE AISettings -----------------------------
(***************************************************************************)
(* Which AI provider is used, and whether it may be: the saved provider    *)
(* and model (a database row), the key with what was tested (memory and    *)
(* vault), and tests of the connection, which overlap with everything      *)
(* (services/ai_settings.py).  The database and the vault are written one  *)
(* after the other, and the process may stop, or the vault fail, between.  *)
(***************************************************************************)
EXTENDS Integers

CONSTANTS Clouds, Local,   \* providers that need a key, and the local one
          Models, Keys, Probes,
          None,            \* no provider, no key, nothing tested
          MaxSaves,        \* bound on the revisions of the row
          MaxGeneration    \* bound on the generations of the secrets

VARIABLES
    setting,   \* the row: provider, model and revision
    secret,    \* the secrets in memory: key, its provider, what was tested
    generation,
    disk,      \* the records the vault may hold after a crash
    probe,     \* the tests under way, with what they were started for
    answered   \* history: the provider, model and key of each test that succeeded

settingsVars == <<setting, secret, generation, disk, probe, answered>>

Bases == Clouds \union {Local}
NoSecret == [key |-> None, base |-> None, verified |-> None]
Unsaved == [base |-> None, model |-> None, revision |-> 0]
Idle == [phase |-> "idle"]

Init ==
    /\ setting = Unsaved
    /\ secret = NoSecret
    /\ generation = 1
    /\ disk = {NoSecret}
    /\ probe = [p \in Probes |-> Idle]
    /\ answered = {}

\* What a test is valid for; the generation of the secrets is compared, but not saved.
IdentityUnstamped(g) ==  \* seeded: the secrets' generation is left out
    [base |-> setting.base, model |-> setting.model, revision |-> setting.revision, generation |-> 0]
IdentityAt(g) ==
    [base |-> setting.base, model |-> setting.model, revision |-> setting.revision, generation |-> g]
Identity == IdentityAt(generation)
Tested(identity) == [base |-> identity.base, model |-> identity.model,
                     revision |-> identity.revision]

Loaded == IF secret.base = setting.base THEN secret.key ELSE None
KeyUsed == IF setting.base = Local THEN Local ELSE Loaded

\* Chat is offered for a tested configuration.
Ready ==
    /\ setting.base # None /\ setting.model # None
    /\ KeyUsed # None
    /\ secret.verified = Tested(Identity)

\* A record is saved before memory follows; if the vault fails it may be on the disk or not.
Saves(record) == disk' = {record} /\ secret' = record
SaveFails(record) == disk' = disk \union {record} /\ UNCHANGED <<secret, generation>>

Unverified == [secret EXCEPT !.verified = None]

\* The row is committed first, and the secrets follow what changed in it.
Forgets(b) == IF b # setting.base THEN NoSecret ELSE Unverified
Save(b, m) ==
    /\ <<b, m>> # <<setting.base, setting.model>>
    /\ setting.revision < MaxSaves /\ generation < MaxGeneration
    /\ setting' = [base |-> b, model |-> m, revision |-> setting.revision + 1]
    /\ \/ /\ Saves(Forgets(b))
          /\ generation' = IF b # setting.base THEN generation + 1 ELSE generation
       \/ SaveFails(Forgets(b))
    /\ UNCHANGED <<probe, answered>>

SetKey(k) ==
    /\ setting.base \in Clouds
    /\ generation < MaxGeneration
    /\ LET record == [key |-> k, base |-> setting.base, verified |-> None]
       IN  (Saves(record) /\ generation' = generation + 1) \/ SaveFails(record)
    /\ UNCHANGED <<setting, probe, answered>>

ClearKey ==
    /\ generation < MaxGeneration
    /\ (Saves(NoSecret) /\ generation' = generation + 1) \/ SaveFails(NoSecret)
    /\ UNCHANGED <<setting, probe, answered>>

\* A test forgets the last one and remembers what it is started for.
StartProbe(p) ==
    /\ probe[p] = Idle
    /\ KeyUsed # None /\ setting.model # None
    /\ generation < MaxGeneration
    /\ \/ /\ Saves(Unverified)
          /\ generation' = generation + 1
          /\ probe' = [probe EXCEPT ![p] = [phase |-> "asked", key |-> KeyUsed,
                           identity |-> IdentityAt(generation + 1)]]
       \/ SaveFails(Unverified) /\ UNCHANGED probe
    /\ UNCHANGED <<setting, answered>>

\* The provider answers, whatever has changed meanwhile.
Succeed(p) ==
    /\ probe[p].phase = "asked"
    /\ LET i == probe[p].identity
           record == [secret EXCEPT !.verified = Tested(i)]
       IN  /\ answered' = answered \union {[base |-> i.base, model |-> i.model, key |-> probe[p].key]}
           /\ IF i = Identity
              THEN (Saves(record) /\ UNCHANGED generation) \/ SaveFails(record)
              ELSE UNCHANGED <<secret, generation, disk>>
    /\ probe' = [probe EXCEPT ![p] = Idle]
    /\ UNCHANGED setting

Refuse(p) ==
    /\ probe[p].phase = "asked"
    /\ probe' = [probe EXCEPT ![p] = Idle]
    /\ UNCHANGED <<setting, secret, generation, disk, answered>>

\* A new process reads one of the records the vault may hold.  It does not start with one
\* that tells of the test of another provider than the key's.
Loadable(record) ==
    record.verified # None /\ record.key # None => record.verified.base = record.base
Restart ==
    /\ \E record \in disk : Loadable(record) /\ secret' = record /\ disk' = {record}
    /\ generation' = 1
    /\ probe' = [p \in Probes |-> Idle]
    /\ UNCHANGED <<setting, answered>>

Next ==
    \/ \E b \in Bases, m \in Models : Save(b, m)
    \/ \E k \in Keys : SetKey(k)
    \/ ClearKey
    \/ \E p \in Probes : StartProbe(p) \/ Succeed(p) \/ Refuse(p)
    \/ Restart

Spec == Init /\ [][Next]_settingsVars

-----------------------------------------------------------------------------

\* Chat is offered only with a provider, a model and a key that passed a test together,
\* whatever was saved, imported or removed while the test was under way, and whichever
\* write the vault refused or a crash left behind.
ReadyMeansTested ==
    Ready => [base |-> setting.base, model |-> setting.model, key |-> KeyUsed] \in answered

\* Whatever the vault was given, the next process starts with it.
RestartIsPossible == \A record \in disk : Loadable(record)
=============================================================================
