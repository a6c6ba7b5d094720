------------------------------ MODULE HttpProvider ------------------------------
(***************************************************************************)
(* One provider of the openai_http family: the administrators who save its *)
(* settings, the job that tests its connection, the worker's cached        *)
(* catalog, and the normalization call that is routed from the cache and   *)
(* then reads the settings again.                                          *)
(*                                                                         *)
(* Every reader takes the provider row and the secret row in two queries,  *)
(* so it may see the settings of two revisions.  A configuration stands    *)
(* for base URL, network scope and model; its fingerprint with a key is    *)
(* the pair of them.                                                       *)
(***************************************************************************)
EXTENDS Naturals, FiniteSets

CONSTANTS Config,       \* configurations the provider may have
          Manual,       \* those whose model discovery is disabled
          Key,          \* API keys
          Admin,        \* browser windows with the settings form
          MaxRevision   \* bound: settings_revision

VARIABLES provider,  \* the ai_providers row
          secret,    \* the key in the provider_secrets row, or "none"
          form,      \* form[a]: what window a shows and is saving
          test,      \* the TEST_AI_PROVIDER_CONNECTION job
          catalog,   \* ProviderCatalogCache of the worker
          call,      \* the routed normalization call
          settings,  \* history: the <<config, key>> of each revision
          proved     \* history: fingerprints whose endpoint answered a test

vars == <<provider, secret, form, test, catalog, call, settings, proved>>

-----------------------------------------------------------------------------
MaybeKey == Key \cup {"none"}
Revision == 1..MaxRevision
Fingerprint(c, k) == <<c, k>>
Fingerprints == Config \X MaybeKey
NoProbe == [ok |-> FALSE, of |-> <<"none", "none">>]

Probe == {NoProbe} \cup [ok : BOOLEAN, of : Fingerprints]

\* What a program knows of the provider when it has read only its row.
Row == [pc |-> "reading", rev |-> provider.rev, config |-> provider.config, key |-> "none"]
Idle == [pc |-> "idle", rev |-> 0, config |-> "none", key |-> "none"]
Reader == [pc : {"idle", "reading", "ready", "passed", "failed", "executing"},
           rev : 0..MaxRevision, config : Config \cup {"none"}, key : MaybeKey]

Form(rev) == [pc |-> "open", rev |-> rev, config |-> "none", typed |-> "none",
              stored |-> "none"]

TypeOK == /\ provider \in [rev : Revision, enabled : BOOLEAN, config : Config,
                           identity : Fingerprints, probe : Probe]
          /\ secret \in MaybeKey
          /\ form \in [Admin -> [pc : {"open", "saving"}, rev : Revision,
                                 config : Config \cup {"none"}, typed : MaybeKey,
                                 stored : MaybeKey]]
          /\ test \in Reader /\ call \in Reader
          /\ catalog \in [pc : {"stale", "reading", "keyed", "fresh"},
                          config : Config \cup {"none"}, probe : Probe, key : MaybeKey,
                          listed : {<<>>} \cup Fingerprints]
          /\ proved \subseteq Fingerprints

NoCatalog == [pc |-> "stale", config |-> "none", probe |-> NoProbe, key |-> "none",
              listed |-> <<>>]

Init == \E c \in Config, k \in MaybeKey :
    /\ provider = [rev |-> 1, enabled |-> TRUE, config |-> c,
                   identity |-> Fingerprint(c, k), probe |-> NoProbe]
    /\ secret = k
    /\ form = [a \in Admin |-> Form(1)]
    /\ test = Idle
    /\ catalog = NoCatalog
    /\ call = Idle
    /\ settings = [r \in Revision |-> IF r = 1 THEN <<c, k>> ELSE <<>>]
    /\ proved = {}

-----------------------------------------------------------------------------
(***************************************************************************)
(* The settings form and its route.                                        *)
(***************************************************************************)

\* GET: the window shows the provider's settings and their revision.
Open(a) ==
    /\ form[a].pc = "open"
    /\ form' = [form EXCEPT ![a] = Form(provider.rev)]
    /\ UNCHANGED <<provider, secret, test, catalog, call, settings, proved>>

\* POST: the route reads the stored secret, of which it computes the identity
\* when no new key is typed.
Submit(a) ==
    /\ form[a].pc = "open"
    /\ \E c \in Config, k \in MaybeKey :
         form' = [form EXCEPT ![a].pc = "saving", ![a].config = c, ![a].typed = k,
                              ![a].stored = IF k = "none" THEN secret ELSE "none"]
    /\ UNCHANGED <<provider, secret, test, catalog, call, settings, proved>>

NextSecret(f) == IF f.typed = "none" THEN f.stored ELSE f.typed

\* The comparison of save_ai_provider_settings.  The route takes a request without a
\* revision, and then nothing is compared; the form sends one with every save of a
\* provider that exists.
CurrentRevision(f) == f.pc = "saving" /\ f.rev = provider.rev /\ provider.rev < MaxRevision

\* The probe is kept if the identity of the settings is the same.
KeptProbe(identity) == IF identity = provider.identity THEN provider.probe ELSE NoProbe

\* The settings, the secret and the model in one transaction.
Save(a) ==
    LET f == form[a]
        identity == Fingerprint(f.config, NextSecret(f)) IN
    /\ CurrentRevision(f)
    /\ \E on \in BOOLEAN :
         provider' = [rev |-> provider.rev + 1, enabled |-> on, config |-> f.config,
                      identity |-> identity, probe |-> KeptProbe(identity)]
    /\ secret' = IF f.typed = "none" THEN secret ELSE f.typed
    /\ settings' = [settings EXCEPT ![provider.rev + 1] = <<f.config, secret'>>]
    /\ form' = [form EXCEPT ![a] = Form(f.rev)]
    /\ UNCHANGED <<test, catalog, call, proved>>

\* settings_revision_conflict, shown as settings_conflict
SaveConflicts(a) ==
    /\ form[a].pc = "saving" /\ form[a].rev # provider.rev
    /\ form' = [form EXCEPT ![a] = Form(form[a].rev)]
    /\ UNCHANGED <<provider, secret, test, catalog, call, settings, proved>>

-----------------------------------------------------------------------------
(***************************************************************************)
(* The connection test.                                                    *)
(***************************************************************************)

TestFinds ==
    /\ test.pc = "idle"
    /\ test' = Row
    /\ UNCHANGED <<provider, secret, form, catalog, call, settings, proved>>

\* The secret, models and runtime state are read after the row.
TestReadsSecret ==
    /\ test.pc = "reading"
    /\ test' = [test EXCEPT !.pc = "ready", !.key = secret]
    /\ UNCHANGED <<provider, secret, form, catalog, call, settings, proved>>

\* The endpoint answers health, the list of models and, for a manual model,
\* the completion that is asked of it; then the models are saved, under the
\* revision that was read, which gives the settings a new one.
TestPasses ==
    /\ test.pc = "ready" /\ test.key # "none"
    /\ proved' = proved \cup ({Fingerprint(test.config, test.key)} \cap (Manual \X Key))
    /\ provider.rev < MaxRevision
    /\ IF test.rev = provider.rev
       THEN /\ provider' = [provider EXCEPT !.rev = @ + 1]
            /\ settings' = [settings EXCEPT ![provider.rev + 1] =
                              <<provider.config, secret>>]
            /\ test' = [test EXCEPT !.pc = "passed"]
       ELSE /\ test' = Idle
            /\ UNCHANGED <<provider, settings>>
    /\ UNCHANGED <<secret, form, catalog, call>>

\* The key is missing, or some answer is not what it should be.
TestFails ==
    /\ test.pc = "ready"
    /\ test' = [test EXCEPT !.pc = "failed"]
    /\ UNCHANGED <<provider, secret, form, catalog, call, settings, proved>>

\* record_ai_provider_execution_probe: only for the identity that was tested.
TestRecords ==
    /\ test.pc \in {"passed", "failed"}
    /\ LET of == Fingerprint(test.config, test.key) IN
         provider' = IF provider.identity = of
                     THEN [provider EXCEPT !.probe = [ok |-> test.pc = "passed", of |-> of]]
                     ELSE provider
    /\ test' = Idle
    /\ UNCHANGED <<secret, form, catalog, call, settings, proved>>

\* The job dies with its worker.
TestDies ==
    /\ test.pc # "idle"
    /\ test' = Idle
    /\ UNCHANGED <<provider, secret, form, catalog, call, settings, proved>>

-----------------------------------------------------------------------------
(***************************************************************************)
(* The catalog and the routed call.                                        *)
(***************************************************************************)

\* A bug for the mutants: any successful probe will do.
AnyProbe(row, k) == row.probe.ok

\* The probe on record is about the settings as they were read.
ProbeAvailable(row, k) == row.probe.ok /\ row.probe.of = Fingerprint(row.config, k)

\* The provider and the secret are asked for at once, and either may be read first.
CatalogReads ==
    /\ catalog.pc \in {"stale", "fresh"}
    /\ \/ /\ provider.enabled
          /\ catalog' = [NoCatalog EXCEPT !.pc = "reading", !.config = provider.config,
                                          !.probe = provider.probe]
       \/ catalog' = [NoCatalog EXCEPT !.pc = "keyed", !.key = secret]
    /\ UNCHANGED <<provider, secret, form, test, call, settings, proved>>

\* A discovered model is as healthy as its endpoint is at this moment; a
\* manual one needs a probe.
Lists(row, k, healthy) ==
    /\ k # "none"
    /\ IF row.config \in Manual THEN ProbeAvailable(row, k) ELSE healthy

CatalogResolves ==
    /\ catalog.pc \in {"reading", "keyed"}
    /\ LET row == IF catalog.pc = "reading" THEN catalog ELSE provider
           k == IF catalog.pc = "reading" THEN secret ELSE catalog.key IN
       \E healthy \in BOOLEAN :
         catalog' = [NoCatalog EXCEPT !.pc = "fresh",
           !.listed = IF /\ catalog.pc = "reading" \/ provider.enabled
                         /\ Lists(row, k, healthy)
                      THEN Fingerprint(row.config, k) ELSE <<>>]
    /\ UNCHANGED <<provider, secret, form, test, call, settings, proved>>

\* Sixty seconds pass.
CatalogLapses ==
    /\ catalog.pc = "fresh"
    /\ catalog' = NoCatalog
    /\ UNCHANGED <<provider, secret, form, test, call, settings, proved>>

\* The router selects from the cached catalog; the target is read anew.
Route ==
    /\ call.pc = "idle" /\ catalog.pc = "fresh" /\ catalog.listed # <<>>
    /\ call' = Row
    /\ UNCHANGED <<provider, secret, form, test, catalog, settings, proved>>

TargetReadsSecret ==
    /\ call.pc = "reading"
    /\ call' = [call EXCEPT !.pc = "ready", !.key = secret]
    /\ UNCHANGED <<provider, secret, form, test, catalog, settings, proved>>

\* A bug for the mutants: the attempt begins under any settings.
AnyAuthorized == TRUE

\* What begin_ai_provider_attempt asks of a provider of this family.
Authorized == provider.enabled /\ provider.rev = call.rev

Begin ==
    /\ call.pc = "ready"
    /\ call' = IF Authorized THEN [call EXCEPT !.pc = "executing"] ELSE Idle
    /\ UNCHANGED <<provider, secret, form, test, catalog, settings, proved>>

Answered ==
    /\ call.pc = "executing"
    /\ call' = Idle
    /\ UNCHANGED <<provider, secret, form, test, catalog, settings, proved>>

Next == \/ \E a \in Admin : Open(a) \/ Submit(a) \/ Save(a) \/ SaveConflicts(a)
        \/ TestFinds \/ TestReadsSecret \/ TestPasses \/ TestFails \/ TestRecords \/ TestDies
        \/ CatalogReads \/ CatalogResolves \/ CatalogLapses
        \/ Route \/ TargetReadsSecret \/ Begin \/ Answered

Spec == Init /\ [][Next]_vars

-----------------------------------------------------------------------------
\* Every provider row says of which settings it is, whatever windows were open
\* and whichever saved first: the comparison of revisions makes up for the
\* secret that the route read before its transaction.
IdentityTracksSettings == provider.identity = Fingerprint(provider.config, secret)

\* A call sends the key of one revision of the settings to the endpoint of the
\* same revision, although the two rows are read one after the other.
OneRevisionExecutes ==
    call.pc = "executing" => <<call.config, call.key>> = settings[call.rev]

\* A manual model is listed only if its endpoint answered a test with this very
\* configuration and key, even if rows were read across a save.
ListedWasTested ==
    (catalog.listed # <<>> /\ catalog.listed[1] \in Manual) => catalog.listed \in proved
=============================================================================
