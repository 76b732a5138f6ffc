------------------------------ MODULE SetupWizard ------------------------------
(***************************************************************************)
(* The setup wizard: a draft per administrator, the forms that fill it in, *)
(* the search for a backend, and the publication.                          *)
(*                                                                         *)
(* Forms are posted to coroutines, which run one at a time on the event    *)
(* loop: each loads the draft, works on its copy and saves it whole, and   *)
(* no form checks that the screens before it were answered.  Pages are     *)
(* functions, run by threads: that of the mapping saves a draft too, at    *)
(* any point of a form.                                                    *)
(*                                                                         *)
(* The draft keeps what decides what is published or which screen comes    *)
(* next.  The public fields are "structural" (id and type, which only come *)
(* together) and Extras.  The last test search, the choices of facets and  *)
(* sorts and the profile of limits are left out; forms that a guard, the   *)
(* CSRF check or the menu of values refuses change nothing.                *)
(***************************************************************************)
EXTENDS Integers, FiniteSets

CONSTANTS
  Admins,    \* administrators
  Extras,    \* public fields other than id and type
  Hosts,     \* the hosts the search for backends may find
  MaxPosts   \* bound: forms posted

ASSUME ExtrasAssumption == "structural" \notin Extras
ASSUME PostsAssumption == MaxPosts \in Nat

Fields == Extras \cup {"structural"}
Steps == {"backend", "source", "mapping", "security", "exposure", "keys", "test", "done"}
Types == {"elasticsearch", "opensearch"}
Modes == {"anonymous", "required"}

\* The host whose address the search tries and administrators type, by what GET / answers:
\* nothing, a refusal, JSON of a shape nothing expects, or a product with its major
\* version (0: not a number, which no product's is; -1: no version in the answer).
Answers == {"none", "refused", "odd"}
Products == Types \cup {"other"}
Servers == [answer: Answers, product: {"other"}, major: {0}]
           \cup [answer: {"json"}, product: Products, major: Nat \cup {-1}]
ASSUME HostsAssumption == Hosts \subseteq Servers

\* backend.auth: none, with a secret or the name of its variable, or without either.
Auths == {"none", "secret", "bare"}

Drafts == [url: BOOLEAN, type: Types, auth: Auths, index: BOOLEAN, fields: SUBSET Fields,
           custom: BOOLEAN, mapping: SUBSET Fields, mode: Modes, include: SUBSET Extras,
           key: BOOLEAN]

\* SetupDraft(): only the fields of the backend are unanswered.
NewDraft == [url |-> FALSE, type |-> "elasticsearch", auth |-> "none", index |-> FALSE,
             fields |-> {}, custom |-> FALSE, mapping |-> {}, mode |-> "anonymous",
             include |-> Extras, key |-> FALSE]

Absent == [step |-> "absent", draft |-> NewDraft]
DraftRows == {Absent} \cup [step: Steps, draft: Drafts]

Configs == [mapping: SUBSET Fields, include: SUBSET Extras, mode: Modes,
            auth: {"none", "secret"}, lang: {"unset", "picked"}]

Forms == {"start", "reset", "language", "discover", "use", "backend", "source", "profile",
          "mapping", "security", "exposure", "keys", "test", "publish"}
Idle == [form |-> "idle"]

VARIABLES
  server,   \* the host the search for backends looks at
  stored,   \* table setup_drafts
  config,   \* the configuration in use
  loop,     \* the event loop: the form it handles, for whom, and the draft it loaded
  page,     \* administrator -> the drafts that mapping pages are about to save
  shown,    \* administrator -> what the last search for backends reported
  told,     \* administrator -> what the last test of the connection answered
  adopted,  \* history: the backend of the draft is one the search reported as ok
  chosen,   \* history: administrator -> the public mode submitted last
  intact,   \* history: administrator -> nothing since may have undone that choice
  posts

wizard == <<server, stored, config, loop, page, shown, told, adopted, chosen, intact, posts>>

WizardInit ==
  /\ server \in Hosts
  /\ stored = [a \in Admins |-> Absent]
  /\ config = [mapping |-> Fields, include |-> Extras, mode |-> "anonymous",
               auth |-> "none", lang |-> "unset"]
  /\ loop = Idle
  /\ page = [a \in Admins |-> {}]
  /\ shown = [a \in Admins |-> "nothing"]
  /\ told = [a \in Admins |-> "nothing"]
  /\ adopted = [a \in Admins |-> FALSE]
  /\ chosen = [a \in Admins |-> "anonymous"]
  /\ intact = [a \in Admins |-> FALSE]
  /\ posts = 0

-----------------------------------------------------------------------------
(* The search for a backend and the test of a connection *)

\* _interpret_probe: a product is known by its tagline or distribution; the version
\* gate is 7 for Elasticsearch and 1 for OpenSearch, and open to an answer without a
\* version.  JSON in which version is not an object, or that is not an object, raises in
\* the pool and out of the search.
Interpret(s) ==
  CASE s.answer = "refused" -> "needs_auth"
    [] s.answer = "odd" -> "raises"
    [] s.answer = "json" /\ s.product = "other" -> "unreachable"
    [] OTHER -> IF s.major \in 0..(IF s.product = "elasticsearch" THEN 6 ELSE 0)
                THEN "unsupported_version" ELSE "ok"

\* _probe_one: a host that does not answer is a row of the report, not an error.
Probe(s) == IF s.answer = "none" THEN "unreachable" ELSE Interpret(s)

\* Whether requests with the draft's address and credentials may be answered.
Reaches(d) ==
  /\ d.url /\ d.auth # "bare" /\ server.answer # "none"
  /\ server.answer = "refused" => d.auth = "secret"

\* build_probe_adapter and detect: a version that is none or not a number passes, and
\* the gate is the one of the adapter chosen, whatever the product.  A secret may be wrong.
Detects(d) ==
  CASE ~Reaches(d) \/ server.answer = "odd" -> {FALSE}
    [] server.answer = "refused" -> BOOLEAN
    [] OTHER -> {server.major <= 0 \/ server.major >= (IF d.type = "elasticsearch" THEN 7 ELSE 1)}

\* SetupDraftService.load: no row reads as a new draft.
Load(a) == stored[a].draft

\* The form being handled, and the end of its handling.
Handling(a, form) == loop.form = form /\ loop.by = a
Save(a, d, step) == stored' = [stored EXCEPT ![a] = [step |-> step, draft |-> d]]
Handled == loop' = Idle /\ UNCHANGED <<server, page, posts>>

\* A form of an administrator reaches its handler, which loads the draft.
Post(a) ==
  /\ loop = Idle
  /\ posts < MaxPosts
  /\ \E form \in Forms : loop' = [form |-> form, by |-> a, draft |-> Load(a)]
  /\ posts' = posts + 1
  /\ UNCHANGED <<server, stored, config, page, shown, told, adopted, chosen, intact>>

\* setup_start and setup_reset.
StartDraft(a) ==
  /\ Handling(a, "start")
  /\ Save(a, NewDraft, "backend")
  /\ adopted' = [adopted EXCEPT ![a] = FALSE]
  /\ intact' = [intact EXCEPT ![a] = FALSE]
  /\ Handled /\ UNCHANGED <<config, shown, told, chosen>>

ResetDraft(a) ==
  /\ Handling(a, "reset")
  /\ stored' = [stored EXCEPT ![a] = Absent]
  /\ adopted' = [adopted EXCEPT ![a] = FALSE]
  /\ intact' = [intact EXCEPT ![a] = FALSE]
  /\ Handled /\ UNCHANGED <<config, shown, told, chosen>>

\* setup_language: the one form besides the publication that changes the configuration.
SetLanguage(a) ==
  /\ Handling(a, "language")
  /\ config' = [config EXCEPT !.lang = "picked"]
  /\ Handled /\ UNCHANGED <<stored, shown, told, adopted, chosen, intact>>

\* setup_discover; a host that answers odd JSON makes it answer 500.
Discover(a) ==
  /\ Handling(a, "discover")
  /\ shown' = [shown EXCEPT ![a] = IF Probe(server) = "raises" THEN "nothing" ELSE Probe(server)]
  /\ Handled /\ UNCHANGED <<stored, config, told, adopted, chosen, intact>>

\* Mutant: the adapter stays the one of the draft.
UseCandidateUrl(a) ==
  /\ Handling(a, "use") /\ shown[a] \in {"ok", "needs_auth", "unsupported_version"}
  /\ Save(a, [loop.draft EXCEPT !.url = TRUE], "backend")
  /\ adopted' = [adopted EXCEPT ![a] = shown[a] = "ok" /\ loop.draft.auth = "none"]
  /\ Handled /\ UNCHANGED <<config, shown, told, chosen, intact>>

\* setup_discover_use: the type of a candidate that did not give it is Elasticsearch.
UseCandidate(a) ==
  /\ Handling(a, "use") /\ shown[a] \in {"ok", "needs_auth", "unsupported_version"}
  /\ Save(a, [loop.draft EXCEPT !.url = TRUE,
                !.type = IF server.product = "opensearch" THEN "opensearch" ELSE "elasticsearch"],
          "backend")
  /\ adopted' = [adopted EXCEPT ![a] = shown[a] = "ok" /\ loop.draft.auth = "none"]
  /\ Handled /\ UNCHANGED <<config, shown, told, chosen, intact>>

\* The page offers no candidate to use.
NoCandidate(a) ==
  /\ Handling(a, "use") /\ shown[a] \notin {"ok", "needs_auth", "unsupported_version"}
  /\ Handled /\ UNCHANGED <<stored, config, shown, told, adopted, chosen, intact>>

-----------------------------------------------------------------------------
(* Steps 1 and 2: backend and source *)

\* _draft_from_backend_form: a blank secret keeps the one of the draft; every answer
\* that is not about the backend, the source or the mapping is a new draft's.
FromBackendForm(d, url, type, mode, typed) ==
  [NewDraft EXCEPT
     !.url = url, !.type = type, !.index = d.index, !.fields = d.fields, !.mapping = d.mapping,
     !.auth = IF mode = "none" THEN "none"
              ELSE IF typed \/ d.auth = "secret" THEN "secret" ELSE "bare"]

\* The form as the page shows it, or with other values in it.
BackendForms(d) ==
  {FromBackendForm(d, url, type, mode, typed) :
     url \in BOOLEAN, type \in Types, mode \in {"none", "basic"}, typed \in BOOLEAN}

SameBackend(d, e) == <<d.url, d.type, d.auth>> = <<e.url, e.type, e.auth>>

\* setup_backend_submit: a test saves the draft whether it succeeds or not.
TestBackend(a) ==
  /\ Handling(a, "backend")
  /\ \E d \in BackendForms(loop.draft) :
       /\ Save(a, d, "backend")
       /\ \E ok \in Detects(d) : told' = [told EXCEPT ![a] = IF ok THEN "ok" ELSE "failed"]
       /\ adopted' = [adopted EXCEPT ![a] = adopted[a] /\ SameBackend(d, loop.draft)]
  /\ intact' = [intact EXCEPT ![a] = FALSE]
  /\ Handled /\ UNCHANGED <<config, shown, chosen>>

\* The same form, sent to go on; without an address it is shown again.
SubmitBackend(a) ==
  /\ Handling(a, "backend")
  /\ \E d \in BackendForms(loop.draft) :
       IF d.url
       THEN /\ Save(a, d, "source")
            /\ adopted' = [adopted EXCEPT ![a] = adopted[a] /\ SameBackend(d, loop.draft)]
            /\ intact' = [intact EXCEPT ![a] = FALSE]
       ELSE UNCHANGED <<stored, adopted, intact>>
  /\ Handled /\ UNCHANGED <<config, shown, told, chosen>>

\* propose_mapping: the fields whose names the backend has, none for a custom profile.
Propose(d) == IF d.custom THEN {} ELSE d.fields

\* What setup_source_submit sends on: a proposal when there is no mapping yet.
WithProposal(d) == IF d.mapping = {} THEN [d EXCEPT !.mapping = Propose(d)] ELSE d

\* setup_source_submit, to scan the backend (which fills an index in when there is one)
\* or to go on.  Without an address the form leads back to step 1.
SubmitSource(a) ==
  /\ Handling(a, "source")
  /\ LET d == loop.draft IN
     IF ~d.url THEN UNCHANGED stored
     ELSE \E index \in BOOLEAN :
       \/ Save(a, [d EXCEPT !.index = index], "source")
       \/ /\ Reaches(d)
          /\ \E fields \in SUBSET Fields, only \in BOOLEAN :
               Save(a, [d EXCEPT !.index = index \/ only, !.fields = fields], "source")
       \/ ~index /\ UNCHANGED stored
       \/ index /\ Save(a, WithProposal([d EXCEPT !.index = TRUE]), "mapping")
  /\ Handled /\ UNCHANGED <<config, shown, told, adopted, chosen, intact>>

-----------------------------------------------------------------------------
(* Step 3: mapping *)

\* setup_mapping_page: a thread loads the draft and proposes a mapping, ...
PageProposes(a) ==
  /\ Load(a).index /\ Load(a).mapping = {} /\ Load(a).fields # {}
  /\ page' = [page EXCEPT ![a] = @ \cup {WithProposal(Load(a))}]
  /\ UNCHANGED <<server, stored, config, loop, shown, told, adopted, chosen, intact, posts>>

\* ... and saves the draft it loaded, whatever has been saved since.
PageSaves(a) ==
  /\ \E d \in page[a] :
       /\ Save(a, d, "mapping")
       /\ page' = [page EXCEPT ![a] = @ \ {d}]
       /\ adopted' = [adopted EXCEPT ![a] = @ /\ SameBackend(d, Load(a))]
       /\ intact' = [intact EXCEPT ![a] = @ /\ d.mode = chosen[a]]
  /\ UNCHANGED <<server, config, loop, shown, told, chosen, posts>>

\* Mutant: the draft is rebuilt from its first steps, as the form of step 1 does.
SetProfileRebuilds(a) ==
  /\ Handling(a, "profile")
  /\ \E custom \in BOOLEAN :
       LET d == [NewDraft EXCEPT !.url = loop.draft.url, !.type = loop.draft.type,
                   !.auth = loop.draft.auth, !.index = loop.draft.index,
                   !.fields = loop.draft.fields, !.custom = custom]
       IN Save(a, [d EXCEPT !.mapping = Propose(d)], "mapping")
  /\ Handled /\ UNCHANGED <<config, shown, told, adopted, chosen, intact>>

\* setup_mapping_profile: without scanned fields the mapping stays.
SetProfile(a) ==
  /\ Handling(a, "profile")
  /\ \E custom \in BOOLEAN :
       LET d == [loop.draft EXCEPT !.custom = custom] IN
       Save(a, IF custom \/ d.fields # {} THEN [d EXCEPT !.mapping = Propose(d)] ELSE d,
            "mapping")
  /\ Handled /\ UNCHANGED <<config, shown, told, adopted, chosen, intact>>

\* setup_mapping_submit: an incomplete mapping is saved too.
SubmitMapping(a) ==
  /\ Handling(a, "mapping")
  /\ IF ~loop.draft.index THEN UNCHANGED stored
     ELSE \E m \in SUBSET Fields :
       Save(a, [loop.draft EXCEPT !.mapping = m],
            IF "structural" \in m THEN "security" ELSE "mapping")
  /\ Handled /\ UNCHANGED <<config, shown, told, adopted, chosen, intact>>

-----------------------------------------------------------------------------
(* Steps 4 to 7: security, exposure, first key, test search *)

\* setup_security_submit.
SubmitSecurity(a) ==
  /\ Handling(a, "security")
  /\ \E m \in Modes :
       /\ Save(a, [loop.draft EXCEPT !.mode = m], "exposure")
       /\ chosen' = [chosen EXCEPT ![a] = m]
  /\ intact' = [intact EXCEPT ![a] = TRUE]
  /\ Handled /\ UNCHANGED <<config, shown, told, adopted>>

\* setup_exposure_submit: any part of the menu, mapped or not.
SubmitExposure(a) ==
  /\ Handling(a, "exposure")
  /\ \E include \in SUBSET Extras : Save(a, [loop.draft EXCEPT !.include = include], "keys")
  /\ Handled /\ UNCHANGED <<config, shown, told, adopted, chosen, intact>>

\* setup_keys_submit: skip, go on with the key, create one, or create one whose label
\* is refused.
SubmitKeys(a) ==
  /\ Handling(a, "keys")
  /\ \/ Save(a, loop.draft, "test")
     \/ Save(a, [loop.draft EXCEPT !.key = TRUE], "keys")
     \/ UNCHANGED stored
  /\ Handled /\ UNCHANGED <<config, shown, told, adopted, chosen, intact>>

\* setup_test_submit: a search that answers is saved, one that fails is not.
SubmitTest(a) ==
  /\ Handling(a, "test")
  /\ \/ Reaches(loop.draft) /\ Save(a, loop.draft, "test")
     \/ UNCHANGED stored
     \/ Save(a, loop.draft, "done")
  /\ Handled /\ UNCHANGED <<config, shown, told, adopted, chosen, intact>>

-----------------------------------------------------------------------------
(* Step 8: publication *)

\* draft_to_config: only mapped fields are exposed; the language is not taken over from
\* the configuration in use.
DraftToConfig(d) ==
  [mapping |-> d.mapping \cup {"structural"}, include |-> d.include \cap d.mapping,
   mode |-> d.mode, auth |-> d.auth, lang |-> "unset"]

\* AppConfig's own checks, as far as a draft can fail them: complete credentials, and no
\* field exposed that is not mapped.
Validates(c) == c.auth # "bare" /\ c.include \subseteq c.mapping

\* setup_publish: the draft is discarded.  Nothing requires a draft to exist.
Publish(a) ==
  /\ Handling(a, "publish") /\ Validates(DraftToConfig(loop.draft))
  /\ config' = DraftToConfig(loop.draft)
  /\ stored' = [stored EXCEPT ![a] = Absent]
  /\ adopted' = [adopted EXCEPT ![a] = FALSE]
  /\ intact' = [intact EXCEPT ![a] = FALSE]
  /\ Handled /\ UNCHANGED <<shown, told, chosen>>

\* The configuration does not validate: nothing changes.
PublishRefused(a) ==
  /\ Handling(a, "publish") /\ ~Validates(DraftToConfig(loop.draft))
  /\ Handled /\ UNCHANGED <<stored, config, shown, told, adopted, chosen, intact>>

\* The new services cannot be built: the configuration is saved and the draft stays.
PublishHalfway(a) ==
  /\ Handling(a, "publish") /\ Validates(DraftToConfig(loop.draft))
  /\ config' = DraftToConfig(loop.draft)
  /\ Handled /\ UNCHANGED <<stored, shown, told, adopted, chosen, intact>>

\* Everybody has gone home.
Finished == loop = Idle /\ posts = MaxPosts /\ \A a \in Admins : page[a] = {}

WizardNext ==
  \/ \E a \in Admins :
       \/ Post(a) \/ StartDraft(a) \/ ResetDraft(a) \/ SetLanguage(a)
       \/ Discover(a) \/ UseCandidate(a) \/ NoCandidate(a)
       \/ TestBackend(a) \/ SubmitBackend(a) \/ SubmitSource(a)
       \/ PageProposes(a) \/ PageSaves(a) \/ SetProfile(a) \/ SubmitMapping(a)
       \/ SubmitSecurity(a) \/ SubmitExposure(a) \/ SubmitKeys(a) \/ SubmitTest(a)
       \/ Publish(a) \/ PublishRefused(a) \/ PublishHalfway(a)
  \/ Finished /\ UNCHANGED wizard

WizardSpec == WizardInit /\ [][WizardNext]_wizard

-----------------------------------------------------------------------------
(* Properties *)

\* Every variable keeps to its values.
WizardTypeOK ==
  /\ server \in Hosts
  /\ stored \in [Admins -> DraftRows]
  /\ config \in Configs
  /\ loop \in {Idle} \cup [form: Forms, by: Admins, draft: Drafts]
  /\ page \in [Admins -> SUBSET Drafts]
  /\ shown \in [Admins -> {"nothing", "ok", "needs_auth", "unsupported_version", "unreachable"}]
  /\ told \in [Admins -> {"nothing", "ok", "failed"}]
  /\ adopted \in [Admins -> BOOLEAN]
  /\ chosen \in [Admins -> Modes]
  /\ intact \in [Admins -> BOOLEAN]
  /\ posts \in 0..MaxPosts

\* The public mode that is published is the one the administrator submitted last,
\* whatever other screens were answered before and after, by whomever, unless step 1 was
\* sent again, the draft discarded, or a mapping page loaded before the choice was saved
\* after it (setup_security_submit, setup_publish, and every form that saves the draft).
ChoiceIsPublished ==
  [][\A a \in Admins :
       Handling(a, "publish") /\ config' # config /\ intact[a] => config'.mode = chosen[a]]_wizard

\* A backend that the search reported as ok and that was adopted as it is passes the
\* test of the connection: the gates of _interpret_probe are those of the adapters.
AdoptedConnects ==
  [][\A a \in Admins : adopted[a] /\ adopted'[a] /\ TestBackend(a) => told'[a] = "ok"]_wizard
=============================================================================
