--------------------------- MODULE ConsolePages_proofs ---------------------------
(***************************************************************************)
(* Proofs about the pages of the console, for every value of the           *)
(* constants: the template form, the policy form, the discovery page and   *)
(* the approval queue.  Each is a component of the composition MCConsole,   *)
(* whose steps leave the variables of the others alone.                    *)
(***************************************************************************)
EXTENDS MCConsole, TLAPS

\* A behaviour of the composition is about one component, to the end.
LEMMA SceneStays == [Next]_vars => scene' = scene
BY DEF Next, vars, LoginStep, DisruptionStep, SimulatedStep, QueueStep, PoliciesStep,
       TemplatesStep, DiscoveryStep, InsightStep

--------------------------------------------------------------------------------
(* The template form. *)

\* The types of TemplateForm's variables.
TemplateTypes ==
  /\ template \in Texts
  /\ editState \in [TemplateTabs -> [text : Texts, dirty : BOOLEAN, saving : BOOLEAN]]
  /\ editAt \in [TemplateTabs ->
                   {"loading", "read", "nothing", "shown", "put", "stored", "refused"}]
  /\ message \in [TemplateTabs -> Texts]
  /\ outdated \in [TemplateTabs -> BOOLEAN]

\* What an answer on its way to a tab, or a clean tab, says is the row.
SaysTheRow(t) ==
  /\ editAt[t] \in {"read", "stored"} => message[t] = template
  /\ editAt[t] = "shown" /\ editState[t].dirty = FALSE => editState[t].text = template

\* The inductive invariant: so it is in every tab that no other has overtaken.
TemplatesInv ==
  /\ TemplateTypes
  /\ \A t \in TemplateTabs : outdated[t] = FALSE => SaysTheRow(t)

LEMMA TemplatesInitially == Templates!Init => TemplatesInv
BY DEF Templates!Init, TemplatesInv, TemplateTypes, SaysTheRow

LEMMA TemplatesStepwise == TemplatesInv /\ [Templates!Next]_templatesVars => TemplatesInv'
<1> SUFFICES ASSUME TemplatesInv, [Templates!Next]_templatesVars PROVE TemplatesInv'
  OBVIOUS
<1> USE DEF TemplatesInv, TemplateTypes, SaysTheRow, Templates!EditTo
<1>1. ASSUME NEW t \in TemplateTabs, Templates!GetTemplate(t) PROVE TemplatesInv'
  BY <1>1 DEF Templates!GetTemplate
<1>2. ASSUME NEW t \in TemplateTabs, Templates!ShowTemplate(t) PROVE TemplatesInv'
  BY <1>2 DEF Templates!ShowTemplate
<1>3. ASSUME NEW t \in TemplateTabs, Templates!SaveTemplate(t) PROVE TemplatesInv'
  BY <1>3 DEF Templates!SaveTemplate
<1>4. ASSUME NEW t \in TemplateTabs, Templates!UpdateTemplate(t) PROVE TemplatesInv'
  <2>1. CASE editAt' = [editAt EXCEPT ![t] = "refused"]
    BY <1>4, <2>1 DEF Templates!UpdateTemplate
  <2>2. CASE /\ template' = message[t]
             /\ outdated' = [u \in TemplateTabs |-> u # t]
             /\ editAt' = [editAt EXCEPT ![t] = "stored"]
    <3>1. TemplateTypes' /\ message' = message
      BY <1>4, <2>2 DEF Templates!UpdateTemplate
    <3>2. SaysTheRow(t)'
      BY <2>2, <3>1
    <3> QED BY <2>2, <3>1, <3>2
  <2> QED BY <1>4, <2>1, <2>2 DEF Templates!UpdateTemplate
<1>5. ASSUME NEW t \in TemplateTabs, Templates!AnswerTemplate(t) PROVE TemplatesInv'
  <2>1. PICK done \in {FALSE, editAt[t] = "stored"} :
          editState' = [editState EXCEPT ![t] =
                          [text |-> message[t], dirty |-> ~done, saving |-> FALSE]]
    BY <1>5 DEF Templates!AnswerTemplate, Templates!AfterSave
  <2>2. /\ editAt' = [editAt EXCEPT ![t] = "shown"]
        /\ UNCHANGED <<template, message, outdated>>
    BY <1>5 DEF Templates!AnswerTemplate
  <2>3. done \in BOOLEAN /\ (done => editAt[t] = "stored")
    OBVIOUS
  <2>4. TemplateTypes'
    BY <2>1, <2>2, <2>3
  <2>5. outdated[t] = FALSE => SaysTheRow(t)'
    BY <2>1, <2>2, <2>3
  <2> QED BY <2>1, <2>2, <2>4, <2>5
<1>6. ASSUME NEW t \in TemplateTabs, Templates!ReopenTemplate(t) PROVE TemplatesInv'
  BY <1>6 DEF Templates!ReopenTemplate
<1>7. ASSUME NEW t \in TemplateTabs, NEW x \in Texts, Templates!TypeText(t, x)
      PROVE  TemplatesInv'
  BY <1>7 DEF Templates!TypeText
<1>8. CASE UNCHANGED templatesVars
  BY <1>8 DEF templatesVars
<1> QED BY <1>1, <1>2, <1>3, <1>4, <1>5, <1>6, <1>7, <1>8 DEF Templates!Next

LEMMA TemplatesMove == [Next]_vars /\ scene = "templates" => [Templates!Next]_templatesVars
BY DEF Next, vars, LoginStep, DisruptionStep, SimulatedStep, QueueStep, PoliciesStep,
       TemplatesStep, DiscoveryStep, InsightStep

\* The templates page takes no text for saved that is not the stored one
\* (TemplateForm: the answer of a save brings back the text it was sent with).
THEOREM SavedTextIsStored == Spec => []CleanMeansStored
<1> DEFINE I == scene = "templates" => TemplatesInv
<1>1. Init => I
  BY TemplatesInitially DEF Init
<1>2. I /\ [Next]_vars => I'
  BY SceneStays, TemplatesMove, TemplatesStepwise
<1>3. I => CleanMeansStored
  BY DEF CleanMeansStored, Templates!CleanMeansStored, TemplatesInv, TemplateTypes, SaysTheRow
<1> QED BY <1>1, <1>2, <1>3, PTL DEF Spec

--------------------------------------------------------------------------------
(* The policy form. *)

FieldValues == Values \cup {Default, Unset}

\* The types of PolicyForm's variables.
PolicyTypes ==
  /\ policyRow \in [Fields -> FieldValues]
  /\ form \in [PolicyTabs -> [Fields -> FieldValues]]
  /\ formAt \in [PolicyTabs ->
                   {"loading", "read", "lost", "shown", "saving", "stored", "refused"}]
  /\ carried \in [PolicyTabs -> [Fields -> FieldValues]]
  /\ touched \in [PolicyTabs -> SUBSET Fields]
  /\ basis \in [PolicyTabs -> {"row", "defaults", "changed"}]

\* `values` has what the row has in the fields the tab's user left alone.
KeepsRow(t, values) ==
  \A f \in Fields \ touched[t] : policyRow[f] # Unset => values[f] = policyRow[f]

\* A tab whose form comes from the row knows the row, in the answer it waits for
\* and in the form.
KnowsRow(t) ==
  /\ formAt[t] # "lost"
  /\ formAt[t] \in {"read", "stored"} => carried[t] = policyRow
  /\ formAt[t] \in {"shown", "saving", "stored", "refused"} => KeepsRow(t, form[t])

\* The request under way has what the form shows, but for what was typed since.
SendsForm(t) ==
  formAt[t] = "saving" => \A f \in Fields \ touched[t] : carried[t][f] = form[t][f]

\* The inductive invariant.  A save makes a tab's form the row's whatever it was
\* before, so SendsForm must hold of every tab.
PoliciesInv ==
  /\ PolicyTypes
  /\ \A t \in PolicyTabs : (basis[t] = "row" => KnowsRow(t)) /\ SendsForm(t)

LEMMA PoliciesInitially == Policies!Init => PoliciesInv
BY DEF Policies!Init, Policies!DEFAULT_POLICIES, PoliciesInv, PolicyTypes, KnowsRow, SendsForm,
       KeepsRow, FieldValues

LEMMA PoliciesStepwise == PoliciesInv /\ [Policies!Next]_policiesVars => PoliciesInv'
<1> SUFFICES ASSUME PoliciesInv, [Policies!Next]_policiesVars PROVE PoliciesInv'
  OBVIOUS
<1> USE DEF PoliciesInv, PolicyTypes, KnowsRow, SendsForm, KeepsRow, FieldValues,
            Policies!FormTo, Policies!DEFAULT_POLICIES, Policies!Merge
<1>1. ASSUME NEW t \in PolicyTabs, Policies!GetPolicy(t) PROVE PoliciesInv'
  <2>1. UNCHANGED <<policyRow, form, touched>>
    BY <1>1 DEF Policies!GetPolicy
  <2>2. CASE /\ formAt' = [formAt EXCEPT ![t] = "read"]
             /\ carried' = [carried EXCEPT ![t] = policyRow]
             /\ basis' = [basis EXCEPT ![t] = "row"]
    <3>1. PolicyTypes'
      BY <2>1, <2>2
    <3>2. KnowsRow(t)' /\ SendsForm(t)'
      BY <2>1, <2>2
    <3> QED BY <2>1, <2>2, <3>1, <3>2
  <2>3. CASE /\ formAt' = [formAt EXCEPT ![t] = "lost"]
             /\ basis' = [basis EXCEPT ![t] = "defaults"]
             /\ UNCHANGED carried
    BY <2>1, <2>3
  <2> QED BY <1>1, <2>2, <2>3 DEF Policies!GetPolicy
<1>2. ASSUME NEW t \in PolicyTabs, Policies!ShowForm(t) PROVE PoliciesInv'
  <2> DEFINE filled == IF formAt[t] = "read" THEN Policies!Merge(carried[t])
                       ELSE Policies!DEFAULT_POLICIES
  <2>1. /\ form' = [form EXCEPT ![t] = filled]
        /\ carried' = [carried EXCEPT ![t] = Policies!DEFAULT_POLICIES]
        /\ formAt' = [formAt EXCEPT ![t] = "shown"]
        /\ UNCHANGED <<policyRow, touched, basis>>
        /\ formAt[t] \in {"read", "lost"}
    BY <1>2 DEF Policies!ShowForm
  <2>2. filled \in [Fields -> FieldValues]
    OBVIOUS
  <2>3. basis[t] = "row" => KeepsRow(t, filled)
    BY <2>1
  <2> HIDE DEF filled
  <2>4. PolicyTypes'
    BY <2>1, <2>2
  <2>5. (basis[t] = "row" => KnowsRow(t)') /\ SendsForm(t)'
    BY <2>1, <2>3
  <2> QED BY <2>1, <2>4, <2>5
<1>3. ASSUME NEW t \in PolicyTabs, Policies!SubmitForm(t) PROVE PoliciesInv'
  BY <1>3 DEF Policies!SubmitForm
<1>4. ASSUME NEW t \in PolicyTabs, Policies!UpdatePolicy(t) PROVE PoliciesInv'
  <2>1. formAt[t] = "saving" /\ UNCHANGED <<form, carried, touched>>
    BY <1>4 DEF Policies!UpdatePolicy
  <2>2. CASE /\ policyRow' = carried[t]
             /\ basis' = [u \in PolicyTabs |->
                            IF u = t THEN "row"
                            ELSE IF basis[u] = "row" THEN "changed" ELSE basis[u]]
             /\ formAt' = [formAt EXCEPT ![t] = "stored"]
    <3>1. PolicyTypes'
      BY <2>1, <2>2
    <3>2. KnowsRow(t)' /\ SendsForm(t)'
      BY <2>1, <2>2
    <3> QED BY <2>1, <2>2, <3>1, <3>2
  <2>3. CASE formAt' = [formAt EXCEPT ![t] = "refused"] /\ UNCHANGED <<policyRow, basis>>
    BY <2>1, <2>3
  <2> QED BY <1>4, <2>2, <2>3 DEF Policies!UpdatePolicy
<1>5. ASSUME NEW t \in PolicyTabs, Policies!AnswerForm(t) PROVE PoliciesInv'
  <2>1. /\ formAt[t] \in {"stored", "refused"}
        /\ carried' = [carried EXCEPT ![t] = Policies!DEFAULT_POLICIES]
        /\ formAt' = [formAt EXCEPT ![t] = "shown"]
        /\ UNCHANGED <<policyRow, basis>>
    BY <1>5 DEF Policies!AnswerForm
  <2>2. CASE /\ formAt[t] = "stored"
             /\ form' = [form EXCEPT ![t] = Policies!Merge(carried[t])]
             /\ touched' = [touched EXCEPT ![t] = {}]
    <3>1. PolicyTypes'
      BY <2>1, <2>2
    <3>2. (basis[t] = "row" => KnowsRow(t)') /\ SendsForm(t)'
      BY <2>1, <2>2
    <3> QED BY <2>1, <2>2, <3>1, <3>2
  <2>3. CASE UNCHANGED <<form, touched>>
    BY <2>1, <2>3
  <2> QED BY <1>5, <2>2, <2>3 DEF Policies!AnswerForm
<1>6. ASSUME NEW t \in PolicyTabs, Policies!ReopenForm(t) PROVE PoliciesInv'
  BY <1>6 DEF Policies!ReopenForm
<1>7. ASSUME NEW t \in PolicyTabs, NEW f \in Fields, NEW v \in Values,
             Policies!EditField(t, f, v)
      PROVE  PoliciesInv'
  BY <1>7 DEF Policies!EditField
<1>8. CASE UNCHANGED policiesVars
  BY <1>8 DEF policiesVars
<1> QED BY <1>1, <1>2, <1>3, <1>4, <1>5, <1>6, <1>7, <1>8 DEF Policies!Next

LEMMA PoliciesMove == [Next]_vars /\ scene = "policies" => [Policies!Next]_policiesVars
BY DEF Next, vars, LoginStep, DisruptionStep, SimulatedStep, QueueStep, PoliciesStep,
       TemplatesStep, DiscoveryStep, InsightStep

\* A save writes back, field by field, the values of the row that the user left
\* alone, or another tab has saved since the form was filled (PolicyForm: the
\* page sends the whole form).
THEOREM UneditedFieldsStay == Spec => SaveKeepsUnedited
<1> DEFINE I == scene = "policies" => PoliciesInv
<1>1. Init => I
  BY PoliciesInitially DEF Init
<1>2. I /\ [Next]_vars => I'
  BY SceneStays, PoliciesMove, PoliciesStepwise
<1>3. I /\ [Next]_vars =>
        [scene = "policies" => \A t \in PolicyTabs : Policies!KeepsUnedited(t)]_<<scene, policiesVars>>
  <2> SUFFICES ASSUME PoliciesInv, Policies!Next, NEW t \in PolicyTabs
               PROVE  Policies!KeepsUnedited(t)
    BY PoliciesMove, SceneStays
  <2> USE DEF PoliciesInv, PolicyTypes, KnowsRow, SendsForm, KeepsRow, FieldValues, Policies!FormTo,
              Policies!KeepsUnedited
  <2>1. CASE Policies!UpdatePolicy(t)
    BY <2>1 DEF Policies!UpdatePolicy
  <2>2. ASSUME NEW u \in PolicyTabs \ {t}, Policies!UpdatePolicy(u)
        PROVE  Policies!KeepsUnedited(t)
    BY <2>2 DEF Policies!UpdatePolicy
  <2>3. ASSUME NEW u \in PolicyTabs,
               \/ Policies!GetPolicy(u) \/ Policies!ShowForm(u) \/ Policies!SubmitForm(u)
               \/ Policies!AnswerForm(u) \/ Policies!ReopenForm(u)
               \/ \E f \in Fields, v \in Values : Policies!EditField(u, f, v)
        PROVE  Policies!KeepsUnedited(t)
    BY <2>3 DEF Policies!GetPolicy, Policies!ShowForm, Policies!SubmitForm,
                Policies!AnswerForm, Policies!ReopenForm, Policies!EditField
  <2> QED BY <2>1, <2>2, <2>3 DEF Policies!Next
<1> QED BY <1>1, <1>2, <1>3, PTL DEF Spec, SaveKeepsUnedited

--------------------------------------------------------------------------------
(* The discovery page. *)

Statuses == {"none", "pending", "unused", "approved", "expired"}

\* Results of a search: the prospect and some of its options.
SearchResults ==
  {r \in [prospect : Prospects, suggestions : SUBSET Discovery!Options] :
     r.suggestions \subseteq OptionsFor[r.prospect]}

Stages == {"unsent", "sent", "checked", "booked", "refused", "ended"}

\* The types of DiscoveryPage's variables the card depends on.
DiscoveryTypes ==
  /\ searching \subseteq Prospects
  /\ result \subseteq SearchResults
  /\ \A r, q \in result : r = q
  /\ confirmedSuggestion \subseteq Discovery!Options
  /\ booking \in [Bookings -> [at : Stages, option : SUBSET Discovery!Options,
                               seen : SUBSET SearchResults]]
  /\ optionStatus \in [Discovery!Options -> Statuses]

\* An option is booked, or was until another writer came.
Booked(o) == optionStatus[o] = "approved" \/ o \in overwritten

\* A confirmation under way is for an option of the result it was sent from.
BookingIsSound(b) ==
  booking[b].at \in {"sent", "checked", "booked", "refused"} =>
    /\ booking[b].option # {} /\ booking[b].seen # {}
    /\ \A r, q \in booking[b].seen : r = q
    /\ \A o, x \in booking[b].option : o = x
    /\ \A o \in booking[b].option :
         /\ optionStatus[o] # "none"
         /\ \A r \in booking[b].seen : r.prospect = Discovery!ProspectOf(o)
         /\ booking[b].at = "booked" => Booked(o)

\* Options are offered once: those of a search under way are not stored yet.
OfferedOnce ==
  /\ \A p \in searching : \A o \in OptionsFor[p] : optionStatus[o] = "none"
  /\ \A r \in result : \A o \in r.suggestions : optionStatus[o] # "none"

\* While a search is under way nothing can be sent for confirmation, and what
\* had been sent or confirmed before it counts as moved.
SearchMoves ==
  searching # {} =>
    /\ result # {} => confirmedSuggestion # {}
    /\ confirmedSuggestion \subseteq moved
    /\ \A b \in Bookings :
         booking[b].at \in {"sent", "checked", "booked", "refused"} =>
           booking[b].option \subseteq moved

\* The card: what CardTellsTheBooking says of it.
CardIsTrue ==
  \A o \in confirmedSuggestion :
    /\ Booked(o)
    /\ o \notin moved => \A r \in result : r.prospect = Discovery!ProspectOf(o)

\* The inductive invariant.
DiscoveryInv ==
  /\ DiscoveryTypes
  /\ \A b \in Bookings : BookingIsSound(b)
  /\ OfferedOnce
  /\ SearchMoves
  /\ CardIsTrue

\* The options of a prospect are its own.
LEMMA ProspectOfOption ==
  ASSUME NEW p \in Prospects, NEW o \in OptionsFor[p]
  PROVE  o \in Discovery!Options /\ Discovery!ProspectOf(o) = p
BY OptionsAssumption DEF Discovery!Options, Discovery!ProspectOf

\* A POST of a confirmation that has ended.
LEMMA EndedBooking == Discovery!Ended = [at |-> "ended", option |-> {}, seen |-> {}]
BY DEF Discovery!Ended, Discovery!Unsent

\* A result cut down to some options.
LEMMA CutResult ==
  ASSUME NEW r \in SearchResults, NEW S
  PROVE  [r EXCEPT !.suggestions = S] = [prospect |-> r.prospect, suggestions |-> S]
BY DEF SearchResults

LEMMA DiscoveryInitially == Discovery!Init => DiscoveryInv
BY DEF Discovery!Init, Discovery!Unsent, DiscoveryInv, DiscoveryTypes, BookingIsSound,
       OfferedOnce, SearchMoves, CardIsTrue, Statuses, Stages, Booked

LEMMA DiscoveryStepwise == DiscoveryInv /\ [Discovery!Next]_discoveryVars => DiscoveryInv'
<1> SUFFICES ASSUME DiscoveryInv, [Discovery!Next]_discoveryVars PROVE DiscoveryInv'
  OBVIOUS
<1> USE DEF DiscoveryInv, DiscoveryTypes
<1>1. CASE Discovery!Fill
  BY <1>1 DEF Discovery!Fill, BookingIsSound, OfferedOnce, SearchMoves, CardIsTrue, Booked
<1>2. ASSUME NEW p \in Prospects, Discovery!handleSubmit(p) PROVE DiscoveryInv'
  <2>1. /\ searching' = {p} /\ result' = {}
        /\ moved' = moved \cup confirmedSuggestion
                    \cup UNION {booking[b].option : b \in Discovery!Sent}
        /\ \A o \in OptionsFor[p] : optionStatus[o] = "none"
        /\ UNCHANGED <<confirmedSuggestion, booking, optionStatus, overwritten>>
    BY <1>2 DEF Discovery!handleSubmit
  <2>2. DiscoveryTypes'
    BY <2>1
  <2>3. \A b \in Bookings : BookingIsSound(b)'
    BY <2>1 DEF BookingIsSound, Booked
  <2>4. OfferedOnce'
    BY <2>1 DEF OfferedOnce
  <2>5. SearchMoves'
    BY <2>1 DEF SearchMoves, Discovery!Sent
  <2>6. CardIsTrue'
    BY <2>1 DEF CardIsTrue, Booked
  <2> QED BY <2>2, <2>3, <2>4, <2>5, <2>6
<1>3. CASE Discovery!SearchAnswered
  <2> DEFINE Answered(p, found) ==
          /\ searching' = {}
          /\ optionStatus' = [o \in Discovery!Options |->
                                IF o \in found THEN "pending"
                                ELSE IF o \in OptionsFor[p] THEN "unused" ELSE optionStatus[o]]
          /\ result' \in {result, {[prospect |-> p, suggestions |-> found]}}
          /\ UNCHANGED <<confirmedSuggestion, booking, moved, overwritten>>
  <2>0. PICK p \in searching : \E found \in SUBSET OptionsFor[p] : Answered(p, found)
    BY <1>3 DEF Discovery!SearchAnswered
  <2>1. PICK found \in SUBSET OptionsFor[p] : Answered(p, found)
    BY <2>0
  <2>2. OptionsFor[p] \subseteq Discovery!Options
    BY ProspectOfOption
  <2>3. \A o \in Discovery!Options : optionStatus[o] # "none" => optionStatus'[o] = optionStatus[o]
    BY <2>1 DEF OfferedOnce
  <2>4. \A o \in found : optionStatus'[o] # "none"
    BY <2>1, <2>2
  <2>5. DiscoveryTypes'
    BY <2>1, <2>2 DEF SearchResults, Statuses
  <2>6. \A b \in Bookings : BookingIsSound(b)'
    BY <2>1, <2>3 DEF BookingIsSound, Booked
  <2>7. OfferedOnce'
    BY <2>1, <2>3, <2>4 DEF OfferedOnce, SearchResults
  <2>8. SearchMoves'
    BY <2>1 DEF SearchMoves
  <2>9. CardIsTrue'
    BY <2>1, <2>3 DEF CardIsTrue, SearchMoves, Booked
  <2> QED BY <2>5, <2>6, <2>7, <2>8, <2>9
<1>4. ASSUME NEW b \in Bookings, NEW o \in Discovery!Options,
             Discovery!handleConfirmBooking(b, o)
      PROVE  DiscoveryInv'
  <2>1. /\ confirmedSuggestion = {} /\ \E r \in result : o \in r.suggestions
        /\ booking' = [booking EXCEPT ![b] = [at |-> "sent", option |-> {o}, seen |-> result]]
        /\ moved' = moved \ {o}
        /\ UNCHANGED <<result, confirmedSuggestion, searching, optionStatus, overwritten>>
    BY <1>4 DEF Discovery!handleConfirmBooking
  <2>2. DiscoveryTypes'
    BY <2>1 DEF Stages
  <2>3. searching = {}
    BY <2>1 DEF SearchMoves
  <2>4. optionStatus[o] # "none" /\ \A r \in result : r.prospect = Discovery!ProspectOf(o)
    BY <2>1, ProspectOfOption DEF OfferedOnce, SearchResults
  <2>5. \A c \in Bookings : BookingIsSound(c)'
    <3>1. ASSUME NEW c \in Bookings \ {b} PROVE BookingIsSound(c)'
      BY <2>1 DEF BookingIsSound, Booked
    <3>2. booking'[b] = [at |-> "sent", option |-> {o}, seen |-> result]
      BY <2>1
    <3>3. BookingIsSound(b)'
      BY <2>1, <2>4, <3>2 DEF BookingIsSound, Booked
    <3> QED BY <3>1, <3>3
  <2>6. OfferedOnce' /\ SearchMoves' /\ CardIsTrue'
    BY <2>1, <2>3 DEF OfferedOnce, SearchMoves, CardIsTrue, Booked
  <2> QED BY <2>2, <2>5, <2>6
<1>5. ASSUME NEW b \in Bookings, Discovery!CheckOption(b) PROVE DiscoveryInv'
  <2>1. PICK next \in {"checked", "refused"} : booking' = [booking EXCEPT ![b].at = next]
    BY <1>5 DEF Discovery!CheckOption
  <2>2. /\ booking[b].at = "sent"
        /\ UNCHANGED <<result, confirmedSuggestion, searching, optionStatus, moved, overwritten>>
    BY <1>5 DEF Discovery!CheckOption, Discovery!page
  <2>3. DiscoveryTypes'
    BY <2>1, <2>2 DEF Stages
  <2>4. \A c \in Bookings : BookingIsSound(c)'
    BY <2>1, <2>2 DEF BookingIsSound, Booked
  <2>5. OfferedOnce' /\ SearchMoves' /\ CardIsTrue'
    BY <2>1, <2>2 DEF OfferedOnce, SearchMoves, CardIsTrue, Booked
  <2> QED BY <2>3, <2>4, <2>5
<1>6. ASSUME NEW b \in Bookings, Discovery!BookOption(b) PROVE DiscoveryInv'
  <2>1. PICK o \in booking[b].option, done \in {"nothing", "approved", "all", "all but the audit"} :
          /\ optionStatus' = [x \in Discovery!Options |->
               IF done = "nothing" THEN optionStatus[x]
               ELSE IF x = o THEN "approved"
               ELSE IF done # "approved" /\ x \in Discovery!Siblings(o)
                       /\ optionStatus[x] = "pending"
               THEN "expired" ELSE optionStatus[x]]
          /\ booking' = [booking EXCEPT ![b].at = IF done = "all" THEN "booked" ELSE "refused"]
    BY <1>6 DEF Discovery!BookOption
  <2>2. /\ booking[b].at = "checked"
        /\ UNCHANGED <<result, confirmedSuggestion, searching, moved, overwritten>>
    BY <1>6 DEF Discovery!BookOption, Discovery!page
  <2>3. \A x \in Discovery!Options :
          /\ optionStatus[x] = "none" <=> optionStatus'[x] = "none"
          /\ optionStatus[x] = "approved" => optionStatus'[x] = "approved"
    <3>1. o \in Discovery!Options /\ optionStatus[o] # "none"
      BY <2>2 DEF BookingIsSound, Booked
    <3> QED BY <2>1, <3>1
  <2>4. DiscoveryTypes'
    BY <2>1, <2>2 DEF Stages, Statuses
  <2>5. \A c \in Bookings : BookingIsSound(c)'
    <3>1. ASSUME NEW c \in Bookings \ {b} PROVE BookingIsSound(c)'
      <4>1. booking'[c] = booking[c] /\ booking[c].option \subseteq Discovery!Options
        BY <2>1
      <4>2. BookingIsSound(c)
        OBVIOUS
      <4>3. booking[c].at \in {"sent", "checked", "booked", "refused"} =>
              \A x \in booking[c].option :
                 /\ optionStatus'[x] # "none"
                 /\ booking[c].at = "booked" => Booked(x)'
        BY <2>2, <2>3, <4>1, <4>2 DEF BookingIsSound, Booked
      <4> QED BY <4>1, <4>2, <4>3 DEF BookingIsSound, Booked
    <3>2. /\ booking[b].option \subseteq Discovery!Options
          /\ booking'[b].option = booking[b].option /\ booking'[b].seen = booking[b].seen
          /\ booking'[b].at = "booked" => optionStatus'[o] = "approved"
      BY <2>1
    <3>3. BookingIsSound(b)'
      <4>1. \A x \in booking[b].option : x = o
        BY <2>2 DEF BookingIsSound, Booked
      <4>2. BookingIsSound(b)
        OBVIOUS
      <4>3. \A x \in booking[b].option :
              /\ optionStatus'[x] # "none"
              /\ booking'[b].at = "booked" => Booked(x)'
        <5>1. o \in Discovery!Options /\ optionStatus[o] # "none"
          BY <2>2, <3>2, <4>2 DEF BookingIsSound
        <5>2. optionStatus'[o] # "none" /\ (booking'[b].at = "booked" => Booked(o)')
          BY <2>3, <3>2, <5>1 DEF Booked
        <5> HIDE DEF DiscoveryInv, DiscoveryTypes
        <5> QED BY <4>1, <5>2 DEF Booked
      <4>4. /\ booking[b].option # {} /\ booking[b].seen # {}
            /\ \A r, q \in booking[b].seen : r = q
            /\ \A x, y \in booking[b].option : x = y
            /\ \A x \in booking[b].option : \A r \in booking[b].seen :
                 r.prospect = Discovery!ProspectOf(x)
        BY <2>2, <4>2 DEF BookingIsSound, Booked
      <4> HIDE DEF DiscoveryInv, DiscoveryTypes
      <4> QED BY <3>2, <4>3, <4>4 DEF BookingIsSound, Booked
    <3> QED BY <3>1, <3>3
  <2>6. OfferedOnce'
    BY <2>2, <2>3, ProspectOfOption DEF OfferedOnce, SearchResults
  <2>7. SearchMoves'
    BY <2>1, <2>2 DEF SearchMoves
  <2>8. CardIsTrue'
    BY <2>2, <2>3 DEF CardIsTrue, Booked
  <2> QED BY <2>4, <2>5, <2>6, <2>7, <2>8
<1>7. ASSUME NEW b \in Bookings, Discovery!Confirmed(b) PROVE DiscoveryInv'
  <2>1. booking[b].at = "booked" /\ booking[b].option # {} /\ booking[b].seen # {}
    BY <1>7 DEF Discovery!Confirmed, BookingIsSound
  <2>2. /\ confirmedSuggestion' = booking[b].option
        /\ result' = {[r EXCEPT !.suggestions = @ \cap booking[b].option] : r \in booking[b].seen}
        /\ booking' = [booking EXCEPT ![b] = [at |-> "ended", option |-> {}, seen |-> {}]]
        /\ UNCHANGED <<searching, optionStatus, moved, overwritten>>
    BY <1>7, <2>1, EndedBooking DEF Discovery!Confirmed
  <2>3. booking[b].seen \subseteq SearchResults
    OBVIOUS
  <2>3a. \A r \in booking[b].seen : [r EXCEPT !.suggestions = @ \cap booking[b].option]
          = [prospect |-> r.prospect, suggestions |-> r.suggestions \cap booking[b].option]
    BY <2>3, CutResult
  <2>4. /\ result' \subseteq SearchResults
        /\ \A r \in result' : /\ r.suggestions \subseteq booking[b].option
                              /\ \E q \in booking[b].seen : r.prospect = q.prospect
        /\ \A r, q \in result' : r = q
    BY <2>1, <2>2, <2>3, <2>3a DEF SearchResults, BookingIsSound
  <2>5. DiscoveryTypes'
    BY <2>2, <2>4 DEF Stages
  <2>6. \A c \in Bookings : BookingIsSound(c)'
    BY <2>2 DEF BookingIsSound, Booked
  <2>7. OfferedOnce'
    BY <2>1, <2>2, <2>4 DEF OfferedOnce, BookingIsSound
  <2>8. SearchMoves'
    BY <2>1, <2>2 DEF SearchMoves
  <2>9. CardIsTrue'
    BY <2>1, <2>2, <2>4 DEF CardIsTrue, BookingIsSound, Booked
  <2> QED BY <2>5, <2>6, <2>7, <2>8, <2>9
<1>8. ASSUME NEW b \in Bookings, Discovery!Refused(b) PROVE DiscoveryInv'
  <2>1. /\ booking' = [booking EXCEPT ![b] = [at |-> "ended", option |-> {}, seen |-> {}]]
        /\ UNCHANGED <<result, confirmedSuggestion, searching, optionStatus, moved, overwritten>>
    BY <1>8, EndedBooking DEF Discovery!Refused
  <2>2. DiscoveryTypes'
    BY <2>1 DEF Stages
  <2> QED BY <2>1, <2>2 DEF BookingIsSound, OfferedOnce, SearchMoves, CardIsTrue, Booked
<1>9. CASE Discovery!handleBookAnother
  BY <1>9 DEF Discovery!handleBookAnother, BookingIsSound, OfferedOnce, SearchMoves, CardIsTrue,
                   Booked
<1>10. ASSUME NEW o \in Discovery!Options, Discovery!OthersWrite(o) PROVE DiscoveryInv'
  <2>1. /\ optionStatus[o] # "none"
        /\ UNCHANGED <<result, confirmedSuggestion, searching, booking, moved>>
        /\ \E new \in {"pending", "approved", "expired"} :
             optionStatus' = [optionStatus EXCEPT ![o] = new]
    BY <1>10 DEF Discovery!OthersWrite, Discovery!page
  <2>2. /\ overwritten \subseteq overwritten'
        /\ o \in confirmedSuggestion => o \in overwritten'
        /\ \A b \in Bookings :
             booking[b].at = "booked" /\ o \in booking[b].option => o \in overwritten'
    BY <1>10 DEF Discovery!OthersWrite, Discovery!Sent
  <2>3. \A x \in Discovery!Options : /\ optionStatus[x] = "none" <=> optionStatus'[x] = "none"
                                    /\ x # o => optionStatus'[x] = optionStatus[x]
    BY <2>1
  <2>4. DiscoveryTypes'
    BY <2>1 DEF Statuses
  <2>5. \A b \in Bookings : BookingIsSound(b)'
    BY <2>1, <2>2, <2>3 DEF BookingIsSound, Booked
  <2>6. OfferedOnce'
    BY <2>1, <2>3, ProspectOfOption DEF OfferedOnce, SearchResults
  <2>7. SearchMoves'
    BY <2>1 DEF SearchMoves
  <2>8. CardIsTrue'
    BY <2>1, <2>2, <2>3 DEF CardIsTrue, Booked
  <2> QED BY <2>4, <2>5, <2>6, <2>7, <2>8
<1>11. CASE UNCHANGED discoveryVars
  BY <1>11 DEF discoveryVars, BookingIsSound, OfferedOnce, SearchMoves, CardIsTrue, Booked
<1> QED BY <1>1, <1>2, <1>3, <1>4, <1>5, <1>6, <1>7, <1>8, <1>9, <1>10, <1>11 DEF Discovery!Next

LEMMA DiscoveryMove == [Next]_vars /\ scene = "discovery" => [Discovery!Next]_discoveryVars
BY DEF Next, vars, LoginStep, DisruptionStep, SimulatedStep, QueueStep, PoliciesStep,
       TemplatesStep, DiscoveryStep, InsightStep

\* The card of a confirmed option tells of an option that was booked, and is
\* unless another writer of its status came since; unless a search was sent since
\* it names the prospect who booked it (DiscoveryPage: the handler of the
\* confirmation restores the result it was sent from).
THEOREM CardIsAboutTheBooking == Spec => []CardTellsTheBooking
<1> DEFINE I == scene = "discovery" => DiscoveryInv
<1>1. Init => I
  BY DiscoveryInitially DEF Init
<1>2. I /\ [Next]_vars => I'
  BY SceneStays, DiscoveryMove, DiscoveryStepwise
<1>3. I => CardTellsTheBooking
  BY DEF CardTellsTheBooking, Discovery!CardTellsTheBooking, Discovery!NameOnCard, DiscoveryInv,
         CardIsTrue, Booked
<1> QED BY <1>1, <1>2, <1>3, PTL DEF Spec

--------------------------------------------------------------------------------
(* The approval queue. *)

QueueViews == Queue!Views \cup {[status |-> "pending", page |-> 1]}

QueueRows == [id : Queue!Suggestions, status : {"pending", "approved", "declined", "expired"}]

GetRecords ==
  [at : {"free", "sent", "read"}, view : SUBSET QueueViews, by : SUBSET (Posts \cup Queue!Timer),
   rows : SUBSET QueueRows, total : {0} \cup {Queue!Cardinality(S) : S \in SUBSET (DOMAIN Order)}]

PostRecords ==
  [at : {"free", "sent", "done", "refused", "refetch"}, ids : SUBSET Queue!Suggestions,
   bulk : BOOLEAN, kind : {"none", "approve", "decline"}, view : SUBSET QueueViews,
   sel : SUBSET Queue!Suggestions, owner : SUBSET Posts, current : BOOLEAN]

\* The types of QueuePage's variables, as far as its properties depend on them.
QueueTypes ==
  /\ status \in [Queue!Suggestions -> {"pending", "approved", "declined", "expired"}]
  /\ filters \in QueueViews
  /\ suggestions \in SUBSET QueueRows
  /\ selectedIds \in SUBSET Queue!Suggestions
  /\ get \in [Gets -> GetRecords]
  /\ post \in [Posts -> PostRecords]
  /\ astray \in BOOLEAN

\* The posts as a click on the selection leaves them: only who holds the Set on
\* display may differ.
PostsStay ==
  /\ post' \in [Posts -> PostRecords]
  /\ \A p \in Posts :
       /\ post'[p].at = post[p].at /\ post'[p].ids = post[p].ids
       /\ post'[p].bulk = post[p].bulk /\ post'[p].view = post[p].view
       /\ post'[p].sel = post[p].sel

\* ... and as the end of p's handler leaves the others.
OthersStay(p) ==
  /\ post' \in [Posts -> PostRecords]
  /\ post'[p] = Queue!NoPost
  /\ \A q \in Posts \ {p} :
       /\ post'[q].at = post[q].at /\ post'[q].ids = post[q].ids
       /\ post'[q].bulk = post[q].bulk /\ post'[q].view = post[q].view
       /\ post'[q].sel \subseteq post[q].sel

LEMMA NoPostIsFree ==
  /\ Queue!NoPost \in PostRecords
  /\ Queue!NoPost.at = "free" /\ Queue!NoPost.sel = {} /\ Queue!NoPost.ids = {}
BY DEF Queue!NoPost, PostRecords

LEMMA NoGetIsFree ==
  /\ Queue!NoGet \in GetRecords
  /\ Queue!NoGet.at = "free" /\ Queue!NoGet.by = {}
BY DEF Queue!NoGet, GetRecords

\* A GET that is sent.
LEMMA SentGet ==
  ASSUME NEW view \in QueueViews, NEW by \in SUBSET (Posts \cup Queue!Timer),
         NEW sent, sent = [Queue!NoGet EXCEPT !.at = "sent", !.view = {view}, !.by = by]
  PROVE  sent \in GetRecords /\ sent.at = "sent" /\ sent.view = {view} /\ sent.by = by
BY DEF Queue!NoGet, GetRecords

LEMMA SelectStays ==
  ASSUME QueueTypes, NEW ids, Queue!Select(ids)
  PROVE  selectedIds' = ids /\ PostsStay
<1>1. \A p \in Posts : post'[p] = [post[p] EXCEPT !.current = FALSE]
  BY DEF Queue!Select
<1>2. ASSUME NEW p \in Posts
      PROVE  /\ post'[p] \in PostRecords
             /\ post'[p].at = post[p].at /\ post'[p].ids = post[p].ids
             /\ post'[p].bulk = post[p].bulk /\ post'[p].view = post[p].view
             /\ post'[p].sel = post[p].sel
  <2>1. post[p] \in PostRecords
    BY DEF QueueTypes
  <2> QED BY <1>1, <2>1 DEF PostRecords
<1> QED BY <1>2 DEF Queue!Select, PostsStay

\* The end of a handler, in an answer to the GET n or its failure.
LEMMA SettleEffect ==
  ASSUME QueueTypes, NEW n \in Gets, Queue!Settle(n)
  PROVE  \/ /\ Queue!ByPost(n) = {}
            /\ UNCHANGED <<selectedIds, actionLoadingId, post>>
         \/ \E p \in Queue!ByPost(n) :
              /\ OthersStay(p)
              /\ post[p].bulk = TRUE
              /\ UNCHANGED <<selectedIds, actionLoadingId>>
         \/ \E p \in Queue!ByPost(n) :
              /\ OthersStay(p)
              /\ post[p].bulk = FALSE
              /\ selectedIds' \subseteq post[p].sel
              /\ actionLoadingId' = {}
<1>1. CASE Queue!ByPost(n) = {}
  BY <1>1 DEF Queue!Settle
<1>2. ASSUME NEW p \in Queue!ByPost(n), post[p].bulk,
             post' = [post EXCEPT ![p] = Queue!NoPost],
             UNCHANGED <<selectedIds, actionLoadingId>>
      PROVE  OthersStay(p) /\ post[p].bulk = TRUE
  <2>1. p \in Posts /\ post[p].bulk \in BOOLEAN
    BY DEF Queue!ByPost, QueueTypes, PostRecords
  <2>2. post' \in [Posts -> PostRecords]
    BY <1>2, <2>1, NoPostIsFree DEF QueueTypes
  <2>3. post'[p] = Queue!NoPost /\ \A q \in Posts \ {p} : post'[q] = post[q]
    BY <1>2, <2>1 DEF QueueTypes
  <2>4. OthersStay(p)
    BY <2>2, <2>3 DEF OthersStay
  <2> QED BY <1>2, <2>1, <2>4
<1>3. ASSUME NEW p \in Queue!ByPost(n), ~post[p].bulk,
             selectedIds' = post[p].sel \ post[p].ids,
             post' = [q \in Posts |->
                        IF q = p THEN Queue!NoPost
                        ELSE [post[q] EXCEPT !.current = FALSE,
                                !.sel = IF post[q].owner = post[p].owner
                                        THEN @ \ post[p].ids ELSE @]]
      PROVE  /\ OthersStay(p) /\ post[p].bulk = FALSE
             /\ selectedIds' \subseteq post[p].sel
  <2>1. p \in Posts /\ post[p].bulk \in BOOLEAN
    BY DEF Queue!ByPost, QueueTypes, PostRecords
  <2>2. post'[p] = Queue!NoPost
    BY <1>3, <2>1
  <2>3. ASSUME NEW q \in Posts \ {p}
        PROVE  /\ post'[q] \in PostRecords
               /\ post'[q].at = post[q].at /\ post'[q].ids = post[q].ids
               /\ post'[q].bulk = post[q].bulk /\ post'[q].view = post[q].view
               /\ post'[q].sel \subseteq post[q].sel
    <3>1. post[q] \in PostRecords
      BY DEF QueueTypes
    <3>2. PICK sel \in SUBSET post[q].sel :
            post'[q] = [post[q] EXCEPT !.current = FALSE, !.sel = sel]
      <4> DEFINE sel == IF post[q].owner = post[p].owner
                        THEN post[q].sel \ post[p].ids ELSE post[q].sel
      <4>1. post'[q] = [post[q] EXCEPT !.current = FALSE, !.sel = sel]
        BY <1>3
      <4>2. sel \in SUBSET post[q].sel
        OBVIOUS
      <4> HIDE DEF sel
      <4> QED BY <4>1, <4>2
    <3> QED BY <3>1, <3>2 DEF PostRecords
  <2>4. post' \in [Posts -> PostRecords]
    BY <1>3, <2>1, <2>2, <2>3, NoPostIsFree
  <2>5. OthersStay(p)
    BY <2>2, <2>3, <2>4 DEF OthersStay
  <2> QED BY <1>3, <2>1, <2>5
<1> QED BY <1>1, <1>2, <1>3 DEF Queue!Settle

\* What is left when a GET is answered or fails: it is free, or sent again by
\* the effect.
LEMMA ArriveEffect ==
  ASSUME QueueTypes, NEW n \in Gets, Queue!Arrive(n)
  PROVE  /\ get' \in [Gets -> GetRecords]
         /\ get[n].at = "read"
         /\ get'[n].by = {} /\ (get'[n].at = "free" \/ get'[n].view = {filters})
         /\ \A m \in Gets \ {n} : get'[m] = get[m]
         /\ suggestions' = get[n].rows /\ shown' = get[n].view
<1>1. \/ get' = [get EXCEPT ![n] = Queue!NoGet]
      \/ get' = [get EXCEPT ![n] = [Queue!NoGet EXCEPT !.at = "sent", !.view = {filters}, !.by = {}]]
  BY DEF Queue!Arrive
<1>2. PICK g \in GetRecords : /\ get' = [get EXCEPT ![n] = g]
                              /\ g.by = {} /\ (g.at = "free" \/ g.view = {filters})
  <2>1. filters \in QueueViews
    BY DEF QueueTypes
  <2> DEFINE again == [Queue!NoGet EXCEPT !.at = "sent", !.view = {filters}, !.by = {}]
  <2>2. again \in GetRecords /\ again.by = {} /\ again.view = {filters}
    BY <2>1, SentGet
  <2>3. get' = [get EXCEPT ![n] = Queue!NoGet] \/ get' = [get EXCEPT ![n] = again]
    BY <1>1
  <2> HIDE DEF again
  <2> QED BY <2>2, <2>3, NoGetIsFree
<1>3. get[n].at = "read" /\ suggestions' = get[n].rows /\ shown' = get[n].view
  BY DEF Queue!Arrive
<1> QED BY <1>2, <1>3 DEF QueueTypes

LEMMA GetFailsEffect ==
  ASSUME QueueTypes, NEW n \in Gets, Queue!GetFails(n)
  PROVE  /\ get' \in [Gets -> GetRecords]
         /\ get[n].at # "free"
         /\ get'[n].by = {} /\ get'[n].at = "free"
         /\ \A m \in Gets \ {n} : get'[m] = get[m]
BY NoGetIsFree DEF Queue!GetFails, QueueTypes

\* fetchSuggestions, for the effect or a handler.
LEMMA FetchEffect ==
  ASSUME QueueTypes, NEW n \in Gets, NEW view \in QueueViews,
         NEW by \in SUBSET (Posts \cup Queue!Timer), Queue!Fetch(n, view, by)
  PROVE  /\ get' \in [Gets -> GetRecords]
         /\ get[n].at = "free"
         /\ get'[n].at = "sent" /\ get'[n].view = {view} /\ get'[n].by = by
         /\ \A m \in Gets \ {n} : get'[m] = get[m]
<1>1. PICK g \in GetRecords : /\ get' = [get EXCEPT ![n] = g]
                              /\ g.at = "sent" /\ g.view = {view} /\ g.by = by
  <2> DEFINE sent == [Queue!NoGet EXCEPT !.at = "sent", !.view = {view}, !.by = by]
  <2>1. sent \in GetRecords /\ sent.at = "sent" /\ sent.view = {view} /\ sent.by = by
    BY SentGet
  <2>2. get' = [get EXCEPT ![n] = sent]
    BY DEF Queue!Fetch
  <2> HIDE DEF sent
  <2> QED BY <2>1, <2>2
<1> QED BY <1>1 DEF QueueTypes, Queue!Fetch

\* Who holds the Set on display, with the handler that p's click creates.
LEMMA SetOwner ==
  ASSUME QueueTypes, NEW p \in Posts
  PROVE  LET same == {q \in Posts : post[q].current}
         IN  (IF same = {} THEN {p} ELSE UNION {post[q].owner : q \in same}) \in SUBSET Posts
BY DEF QueueTypes, PostRecords

\* The rows that show buttons are pending ones that are held.
LEMMA PendingIsHeld ==
  ASSUME QueueTypes, NEW s \in Queue!PendingRows
  PROVE  s \in Queue!Suggestions /\ [id |-> s, status |-> "pending"] \in suggestions
<1>1. PICK y \in suggestions : y.status = "pending" /\ y.id = s
  BY DEF Queue!PendingRows, Queue!Rows
<1>2. y = [id |-> y.id, status |-> y.status] /\ y.id \in Queue!Suggestions
  BY DEF QueueTypes, QueueRows
<1> QED BY <1>1, <1>2

\* A GET asked for by the handler of a POST is that POST's only one, and the
\* POST waits for it.
RefetchesOwned ==
  \A n \in Gets : \A p \in get[n].by \cap Posts :
    post[p].at = "refetch" /\ \A m \in Gets \ {n} : p \notin get[m].by

\* A POST of a row's button is the only one under way and its button is
\* disabled, or its row may show an older status.
OneByOne ==
  \A p \in Posts : post[p].at # "free" /\ post[p].bulk = FALSE =>
    /\ post[p].ids # {}
    /\ \/ post[p].ids \subseteq repeatable
       \/ /\ actionLoadingId = post[p].ids
          /\ \A q \in Posts : post[q].at # "free" /\ post[q].bulk = FALSE => q = p

\* A suggestion that the page has decided and still shows as pending is one
\* whose handler waits for the rows, or its row may show an older status.
Remembered ==
  \A s \in decided \ repeatable : [id |-> s, status |-> "pending"] \in suggestions =>
    \E p \in Posts : post[p].at = "refetch" /\ post[p].bulk = FALSE /\ s \in post[p].ids

\* What is under way is for the filter in use, and something is, or its rows
\* are held.
Following ==
  astray = FALSE =>
    /\ \A n \in Gets : get[n].at # "free" => get[n].view = {filters}
    /\ \A p \in Posts : post[p].at # "free" => post[p].view = {filters}
    /\ shown = {filters} \/ \E n \in Gets : get[n].at # "free" /\ get[n].by # Queue!Timer

\* The selection, and what a handler may make of it, is from clicks.
FromClicks ==
  /\ selectedIds \subseteq picked \cup slipped
  /\ \A p \in Posts : post[p].at # "free" => post[p].sel \subseteq picked \cup slipped

\* The inductive invariant.
QueueInv ==
  /\ QueueTypes
  /\ RefetchesOwned
  /\ OneByOne
  /\ Remembered /\ repeats = {}
  /\ Following
  /\ FromClicks

LEMMA QueueInitially == Queue!Init => QueueInv
<1> SUFFICES ASSUME Queue!Init PROVE QueueInv
  OBVIOUS
<1> DEFINE first == CHOOSE m \in Gets : TRUE
           sent == [Queue!NoGet EXCEPT !.at = "sent", !.view = {filters}, !.by = {}]
<1>1. first \in Gets
  BY QueueAssumption
<1>2. filters \in QueueViews
  BY DEF Queue!Init, QueueViews
<1>3. sent \in GetRecords /\ sent.at = "sent" /\ sent.view = {filters} /\ sent.by = {}
  BY <1>2, SentGet
<1>4. get = [n \in Gets |-> IF n = first THEN sent ELSE Queue!NoGet]
  BY DEF Queue!Init
<1> HIDE DEF first, sent
<1>5. QueueTypes
  <2>1. get \in [Gets -> GetRecords]
    BY <1>3, <1>4, NoGetIsFree
  <2>2. post \in [Posts -> PostRecords]
    BY NoPostIsFree DEF Queue!Init
  <2> QED BY <1>2, <2>1, <2>2 DEF Queue!Init, QueueTypes
<1>6. RefetchesOwned
  BY <1>3, <1>4, NoGetIsFree DEF RefetchesOwned
<1>7. \A p \in Posts : post[p] = Queue!NoPost
  BY DEF Queue!Init
<1>8. OneByOne /\ Remembered /\ repeats = {} /\ FromClicks
  BY <1>7, NoPostIsFree DEF Queue!Init, OneByOne, Remembered, FromClicks
<1>9. Following
  <2>1. get[first].at # "free" /\ get[first].by # Queue!Timer
    BY <1>1, <1>3, <1>4 DEF Queue!Timer
  <2> QED BY <1>1, <1>3, <1>4, <1>7, <2>1, NoGetIsFree, NoPostIsFree DEF Following
<1> QED BY <1>5, <1>6, <1>8, <1>9 DEF QueueInv

LEMMA ServeKeeps == ASSUME QueueInv, NEW n \in Gets, Queue!Serve(n) PROVE QueueInv'
<1>1. PICK view \in get[n].view, taken \in SUBSET QueueRows,
           total \in {Queue!Cardinality(S) : S \in SUBSET (DOMAIN Order)} :
        get' = [get EXCEPT ![n].at = "read", ![n].total = total, ![n].rows = taken]
  <2>1. PICK view \in get[n].view :
          LET from == (view.page - 1) * PageSize
              places == {i \in Queue!Listed(view) : from < Queue!Rank(i, view)
                                                   /\ Queue!Rank(i, view) <= from + PageSize}
          IN  get' = [get EXCEPT ![n].at = "read", ![n].total = Queue!Cardinality(Queue!Listed(view)),
                        ![n].rows = {[id |-> Order[i], status |-> status[Order[i]]] : i \in places}]
    BY DEF Queue!Serve
  <2> DEFINE places == {i \in Queue!Listed(view) :
                          (view.page - 1) * PageSize < Queue!Rank(i, view)
                          /\ Queue!Rank(i, view) <= (view.page - 1) * PageSize + PageSize}
             taken == {[id |-> Order[i], status |-> status[Order[i]]] : i \in places}
             total == Queue!Cardinality(Queue!Listed(view))
  <2>2. get' = [get EXCEPT ![n].at = "read", ![n].total = total, ![n].rows = taken]
    BY <2>1
  <2>3. Queue!Listed(view) \subseteq DOMAIN Order
    BY DEF Queue!Listed
  <2>4. taken \in SUBSET QueueRows
    BY <2>3 DEF QueueRows, QueueInv, QueueTypes, Queue!Suggestions, Queue!ToSet
  <2>5. total \in {Queue!Cardinality(S) : S \in SUBSET (DOMAIN Order)}
    BY <2>3
  <2> HIDE DEF taken, total
  <2> QED BY <2>2, <2>4, <2>5
<1>2. get[n].at = "sent" /\ UNCHANGED <<status, Queue!page, post, events, Queue!ghosts>>
  BY DEF Queue!Serve
<1>3. /\ get' \in [Gets -> GetRecords]
      /\ get'[n].at = "read" /\ get'[n].view = get[n].view /\ get'[n].by = get[n].by
      /\ \A m \in Gets \ {n} : get'[m] = get[m]
  <2>1. get[n] \in GetRecords
    BY DEF QueueInv, QueueTypes
  <2>2. DEFINE g == [get[n] EXCEPT !.at = "read", !.total = total, !.rows = taken]
  <2>3. get' = [get EXCEPT ![n] = g]
    BY <1>1
  <2>4. g \in GetRecords /\ g.at = "read" /\ g.view = get[n].view /\ g.by = get[n].by
    BY <2>1 DEF GetRecords
  <2> HIDE DEF g
  <2> QED BY <2>3, <2>4 DEF QueueInv, QueueTypes
<1>4. QueueTypes'
  BY <1>2, <1>3 DEF QueueInv, QueueTypes, Queue!page, Queue!ghosts
<1>5. RefetchesOwned'
  BY <1>2, <1>3 DEF QueueInv, RefetchesOwned
<1>6. OneByOne' /\ Remembered' /\ repeats' = {} /\ FromClicks'
  BY <1>2 DEF QueueInv, OneByOne, Remembered, FromClicks, Queue!page, Queue!ghosts
<1>7. Following'
  BY <1>2, <1>3 DEF QueueInv, Following, Queue!page, Queue!ghosts
<1> QED BY <1>4, <1>5, <1>6, <1>7 DEF QueueInv

\* What the end of a handler keeps, whether its GET was answered or not.
LEMMA SettleKeeps ==
  ASSUME QueueInv, NEW n \in Gets, Queue!Settle(n),
         get'[n].by = {}, \A m \in Gets \ {n} : get'[m] = get[m],
         repeatable \subseteq repeatable', UNCHANGED <<picked, slipped>>
  PROVE  /\ post' \in [Posts -> PostRecords] /\ selectedIds' \in SUBSET Queue!Suggestions
         /\ \A p \in Posts : post'[p].at # "free" =>
              post[p].at # "free" /\ post'[p].view = post[p].view
         /\ RefetchesOwned' /\ OneByOne' /\ FromClicks'
<1>1. CASE UNCHANGED <<selectedIds, actionLoadingId, post>>
  <2>1. RefetchesOwned'
    BY <1>1 DEF QueueInv, RefetchesOwned
  <2>2. OneByOne' /\ FromClicks'
    BY <1>1 DEF QueueInv, OneByOne, FromClicks
  <2> QED BY <1>1, <2>1, <2>2 DEF QueueInv, QueueTypes
<1>2. ASSUME NEW p \in Queue!ByPost(n), OthersStay(p),
             \/ post[p].bulk = TRUE /\ UNCHANGED <<selectedIds, actionLoadingId>>
             \/ post[p].bulk = FALSE /\ selectedIds' \subseteq post[p].sel /\ actionLoadingId' = {}
      PROVE  /\ post' \in [Posts -> PostRecords] /\ selectedIds' \in SUBSET Queue!Suggestions
             /\ \A q \in Posts : post'[q].at # "free" =>
                  post[q].at # "free" /\ post'[q].view = post[q].view
             /\ RefetchesOwned' /\ OneByOne' /\ FromClicks'
  <2>1. p \in Posts /\ p \in get[n].by /\ post[p].at = "refetch" /\ post[p] \in PostRecords
    BY DEF Queue!ByPost, QueueInv, RefetchesOwned, QueueTypes
  <2>2. /\ post' \in [Posts -> PostRecords]
        /\ post'[p].at = "free"
        /\ \A q \in Posts \ {p} :
             /\ post'[q].at = post[q].at /\ post'[q].ids = post[q].ids
             /\ post'[q].bulk = post[q].bulk /\ post'[q].view = post[q].view
             /\ post'[q].sel \subseteq post[q].sel
    BY <1>2, NoPostIsFree DEF OthersStay
  <2>3. selectedIds' \in SUBSET Queue!Suggestions
    BY <1>2, <2>1 DEF QueueInv, QueueTypes, PostRecords
  <2>4. RefetchesOwned'
    BY <2>1, <2>2 DEF QueueInv, RefetchesOwned
  <2>5. OneByOne'
    BY <1>2, <2>1, <2>2 DEF QueueInv, OneByOne
  <2>6. FromClicks'
    BY <1>2, <2>1, <2>2 DEF QueueInv, FromClicks
  <2> QED BY <2>2, <2>3, <2>4, <2>5, <2>6
<1>3. QueueTypes
  BY DEF QueueInv
<1> QED BY <1>1, <1>2, <1>3, SettleEffect

LEMMA ArriveKeeps == ASSUME QueueInv, NEW n \in Gets, Queue!Arrive(n) PROVE QueueInv'
<1>1. /\ get' \in [Gets -> GetRecords]
      /\ get[n].at = "read"
      /\ get'[n].by = {} /\ (get'[n].at = "free" \/ get'[n].view = {filters})
      /\ \A m \in Gets \ {n} : get'[m] = get[m]
      /\ suggestions' = get[n].rows /\ shown' = get[n].view
  BY ArriveEffect DEF QueueInv
<1>2. /\ repeatable' = repeatable \cup
           {s \in decided : [id |-> s, status |-> "pending"] \in get[n].rows}
      /\ Queue!Settle(n)
      /\ UNCHANGED <<status, filters, picked, slipped, astray, decided, repeats>>
  BY DEF Queue!Arrive
<1>3. /\ post' \in [Posts -> PostRecords] /\ selectedIds' \in SUBSET Queue!Suggestions
      /\ \A p \in Posts : post'[p].at # "free" =>
           post[p].at # "free" /\ post'[p].view = post[p].view
      /\ RefetchesOwned' /\ OneByOne' /\ FromClicks'
  BY <1>1, <1>2, SettleKeeps
<1>4. QueueTypes'
  <2>1. get[n].rows \in SUBSET QueueRows
    BY DEF QueueInv, QueueTypes, GetRecords
  <2> QED BY <1>1, <1>2, <1>3, <2>1 DEF QueueInv, QueueTypes
<1>5. Remembered' /\ repeats' = {}
  BY <1>1, <1>2 DEF QueueInv, Remembered
<1>6. Following'
  BY <1>1, <1>2, <1>3 DEF QueueInv, Following
<1> QED BY <1>3, <1>4, <1>5, <1>6 DEF QueueInv

LEMMA GetFailsKeeps == ASSUME QueueInv, NEW n \in Gets, Queue!GetFails(n) PROVE QueueInv'
<1>1. /\ get' \in [Gets -> GetRecords]
      /\ get[n].at # "free"
      /\ get'[n].by = {} /\ get'[n].at = "free"
      /\ \A m \in Gets \ {n} : get'[m] = get[m]
  BY GetFailsEffect DEF QueueInv
<1>2. /\ repeatable' = repeatable \cup (IF Queue!ByPost(n) = {} THEN {} ELSE decided)
      /\ Queue!Settle(n)
      /\ astray' = (astray \/ get[n].by # Queue!Timer)
      /\ UNCHANGED <<status, filters, suggestions, picked, slipped, shown, decided, repeats>>
  BY DEF Queue!GetFails
<1>3. /\ post' \in [Posts -> PostRecords] /\ selectedIds' \in SUBSET Queue!Suggestions
      /\ \A p \in Posts : post'[p].at # "free" =>
           post[p].at # "free" /\ post'[p].view = post[p].view
      /\ RefetchesOwned' /\ OneByOne' /\ FromClicks'
  BY <1>1, <1>2, SettleKeeps
<1>4. QueueTypes'
  BY <1>1, <1>2, <1>3 DEF QueueInv, QueueTypes
<1>5. Remembered' /\ repeats' = {}
  <2>1. CASE Queue!ByPost(n) = {}
    <3>1. post' = post
      BY <1>2, <2>1 DEF Queue!Settle
    <3> QED BY <1>2, <2>1, <3>1 DEF QueueInv, Remembered
  <2>2. CASE Queue!ByPost(n) # {}
    BY <1>2, <2>2 DEF QueueInv, Remembered
  <2> QED BY <2>1, <2>2
<1>6. Following'
  <2>1. astray' = FALSE => astray = FALSE /\ get[n].by = Queue!Timer
    BY <1>2 DEF QueueInv, QueueTypes
  <2> QED BY <1>1, <1>2, <1>3, <2>1 DEF QueueInv, Following
<1> QED BY <1>3, <1>4, <1>5, <1>6 DEF QueueInv

LEMMA RefreshKeeps == ASSUME QueueInv, NEW n \in Gets, Queue!Refresh(n) PROVE QueueInv'
<1> DEFINE sent == [Queue!NoGet EXCEPT !.at = "sent", !.view = {filters}, !.by = Queue!Timer]
<1>1. sent \in GetRecords /\ sent.view = {filters} /\ sent.by = Queue!Timer
  <2>1. filters \in QueueViews /\ Queue!Timer \in SUBSET (Posts \cup Queue!Timer)
    BY DEF QueueInv, QueueTypes
  <2> QED BY <2>1, SentGet
<1>2. get[n].at = "free" /\ get' = [get EXCEPT ![n] = sent]
  BY DEF Queue!Refresh
<1> HIDE DEF sent
<1>3. /\ get' \in [Gets -> GetRecords]
      /\ get'[n].view = {filters} /\ get'[n].by \cap Posts = {}
      /\ \A m \in Gets \ {n} : get'[m] = get[m]
  BY <1>1, <1>2, QueueAssumption DEF QueueInv, QueueTypes, Queue!Timer
<1>4. UNCHANGED <<status, Queue!page, post, Queue!ghosts>>
  BY DEF Queue!Refresh
<1>5. QueueTypes'
  BY <1>3, <1>4 DEF QueueInv, QueueTypes, Queue!page, Queue!ghosts
<1>6. RefetchesOwned'
  BY <1>3, <1>4 DEF QueueInv, RefetchesOwned
<1>7. OneByOne' /\ Remembered' /\ repeats' = {} /\ FromClicks'
  BY <1>4 DEF QueueInv, OneByOne, Remembered, FromClicks, Queue!page, Queue!ghosts
<1>8. Following'
  BY <1>2, <1>3, <1>4 DEF QueueInv, Following, Queue!page, Queue!ghosts
<1> QED BY <1>5, <1>6, <1>7, <1>8 DEF QueueInv

\* New filters, whatever becomes of the selection.
LEMMA SetFiltersKeeps ==
  ASSUME QueueInv, NEW n \in Gets, NEW view \in Queue!Views, Queue!SetFilters(n, view),
         PostsStay, UNCHANGED status,
         selectedIds' \in SUBSET Queue!Suggestions, FromClicks'
  PROVE  QueueInv'
<1>1. view \in QueueViews
  BY DEF QueueViews
<1>2. /\ get' \in [Gets -> GetRecords]
      /\ get[n].at = "free"
      /\ get'[n].at = "sent" /\ get'[n].view = {view} /\ get'[n].by = {}
      /\ \A m \in Gets \ {n} : get'[m] = get[m]
  <2>1. Queue!Fetch(n, view, {})
    BY DEF Queue!SetFilters
  <2> QED BY <1>1, <2>1, FetchEffect DEF QueueInv
<1>3. /\ filters' = view
      /\ UNCHANGED <<suggestions, actionLoadingId, decided, repeatable, repeats>>
  BY DEF Queue!SetFilters
<1>3a. /\ astray' \in BOOLEAN
       /\ astray' = FALSE => /\ \A m \in Gets \ {n} : get[m].at = "free"
                             /\ \A p \in Posts : post[p].at = "free"
  <2>1. astray' = (\/ \E m \in Gets \ {n} : get[m].at # "free"
                   \/ \E p \in Posts : post[p].at # "free")
    BY DEF Queue!SetFilters
  <2> QED BY <2>1
<1>4. QueueTypes'
  BY <1>1, <1>2, <1>3, <1>3a DEF QueueInv, QueueTypes, PostsStay
<1>5. RefetchesOwned' /\ OneByOne' /\ Remembered' /\ repeats' = {}
  BY <1>2, <1>3 DEF QueueInv, RefetchesOwned, OneByOne, Remembered, PostsStay
<1>6. Following'
  <2>2. get'[n].at # "free" /\ get'[n].by # Queue!Timer
    BY <1>2 DEF Queue!Timer
  <2> QED BY <1>2, <1>3, <1>3a, <2>2 DEF Following, PostsStay
<1> QED BY <1>4, <1>5, <1>6 DEF QueueInv

\* Selections let go while a POST is under way are remembered.
LEMMA LetGoKeeps ==
  ASSUME QueueInv, NEW ids, Queue!LetGo(ids),
         \A p \in Posts : post'[p].at # "free" =>
            post[p].at # "free" /\ post'[p].sel = post[p].sel
  PROVE  /\ \A p \in Posts : post'[p].at # "free" => post'[p].sel \subseteq picked' \cup slipped'
         /\ selectedIds \ ids \subseteq picked' \cup slipped'
<1>1. CASE Queue!Idle
  BY <1>1 DEF QueueInv, FromClicks, Queue!LetGo, Queue!Idle
<1>2. CASE ~Queue!Idle
  <2>1. picked' = picked \ ids /\ slipped' = slipped \cup (picked \cap ids)
    BY <1>2 DEF Queue!LetGo
  <2> QED BY <2>1 DEF QueueInv, FromClicks
<1> QED BY <1>1, <1>2

LEMMA FilterKeeps ==
  ASSUME QueueInv, NEW n \in Gets, NEW view \in Queue!Views, Queue!Filter(n, view)
  PROVE  QueueInv'
<1>1. QueueTypes /\ selectedIds' = {} /\ PostsStay
  BY SelectStays DEF QueueInv, Queue!Filter
<1>2. FromClicks'
  <2>1. Queue!LetGo(Queue!Suggestions)
    BY DEF Queue!Filter
  <2> QED BY <1>1, <2>1, LetGoKeeps DEF FromClicks, PostsStay
<1>3. Queue!SetFilters(n, view) /\ UNCHANGED status
  BY DEF Queue!Filter, Queue!SetFilters
<1> QED BY <1>1, <1>2, <1>3, SetFiltersKeeps

LEMMA TurnKeeps ==
  ASSUME QueueInv, NEW n \in Gets, NEW view \in Queue!Views, Queue!Turn(n, view)
  PROVE  QueueInv'
<1>1. UNCHANGED <<selectedIds, post, picked, slipped>>
  BY DEF Queue!Turn
<1>2. PostsStay /\ selectedIds' \in SUBSET Queue!Suggestions
  BY <1>1 DEF PostsStay, QueueInv, QueueTypes
<1>3. FromClicks'
  BY <1>1 DEF QueueInv, FromClicks
<1>4. Queue!SetFilters(n, view) /\ UNCHANGED status
  BY DEF Queue!Turn, Queue!SetFilters
<1> QED BY <1>2, <1>3, <1>4, SetFiltersKeeps

\* A click on the selection: requests and rows stay.
LEMMA ClickKeeps ==
  ASSUME QueueInv, NEW ids \in SUBSET Queue!Suggestions, Queue!Select(ids), FromClicks',
         UNCHANGED <<status, filters, suggestions, get, shown, astray, decided, repeatable,
                     repeats, actionLoadingId>>
  PROVE  QueueInv'
<1>1. selectedIds' = ids /\ PostsStay
  BY SelectStays DEF QueueInv
<1>2. QueueTypes'
  BY <1>1 DEF QueueInv, QueueTypes, PostsStay
<1>3. RefetchesOwned' /\ OneByOne' /\ Remembered' /\ repeats' = {}
  BY <1>1 DEF QueueInv, RefetchesOwned, OneByOne, Remembered, PostsStay
<1>4. Following'
  BY <1>1 DEF QueueInv, Following, PostsStay
<1> QED BY <1>2, <1>3, <1>4 DEF QueueInv

LEMMA ToggleSelectKeeps ==
  ASSUME QueueInv, NEW s \in Queue!Suggestions, Queue!ToggleSelect(s)
  PROVE  QueueInv'
<1>1. UNCHANGED <<status, filters, suggestions, get, shown, astray, decided, repeatable,
                  repeats, actionLoadingId>>
  BY DEF Queue!ToggleSelect
<1>2. CASE Queue!Select(selectedIds \ {s}) /\ Queue!LetGo({s})
  <2>1. selectedIds' = selectedIds \ {s} /\ PostsStay
    BY <1>2, SelectStays DEF QueueInv
  <2>2. FromClicks'
    BY <1>2, <2>1, LetGoKeeps DEF FromClicks, PostsStay
  <2>3. selectedIds \ {s} \in SUBSET Queue!Suggestions
    BY DEF QueueInv, QueueTypes
  <2> QED BY <1>1, <1>2, <2>2, <2>3, ClickKeeps
<1>3. CASE /\ Queue!Select(selectedIds \cup {s})
           /\ picked' = picked \cup {s} /\ slipped' = slipped \ {s}
  <2>1. selectedIds' = selectedIds \cup {s} /\ PostsStay
    BY <1>3, SelectStays DEF QueueInv
  <2>2. FromClicks'
    BY <1>3, <2>1 DEF QueueInv, FromClicks, PostsStay
  <2>3. selectedIds \cup {s} \in SUBSET Queue!Suggestions
    BY DEF QueueInv, QueueTypes
  <2> QED BY <1>1, <1>3, <2>2, <2>3, ClickKeeps
<1> QED BY <1>2, <1>3 DEF Queue!ToggleSelect

LEMMA ToggleSelectAllKeeps == ASSUME QueueInv, Queue!ToggleSelectAll PROVE QueueInv'
<1>1. UNCHANGED <<status, filters, suggestions, get, shown, astray, decided, repeatable,
                  repeats, actionLoadingId>>
  BY DEF Queue!ToggleSelectAll
<1>2. PICK new \in SUBSET Queue!Suggestions :
        /\ Queue!Select(new)
        /\ picked' = new
        /\ slipped' = (IF Queue!Idle THEN slipped ELSE slipped \cup (picked \ new)) \ new
  <2> DEFINE new == IF Queue!PendingRows \subseteq selectedIds THEN {} ELSE Queue!PendingRows
  <2>1. new \in SUBSET Queue!Suggestions
    BY PendingIsHeld DEF QueueInv
  <2>2. /\ Queue!Select(new)
        /\ picked' = new
        /\ slipped' = (IF Queue!Idle THEN slipped ELSE slipped \cup (picked \ new)) \ new
    BY DEF Queue!ToggleSelectAll
  <2> HIDE DEF new
  <2> QED BY <2>1, <2>2
<1>3. selectedIds' = new /\ PostsStay
  BY <1>2, SelectStays DEF QueueInv
<1>4. FromClicks'
  <2>1. CASE Queue!Idle
    BY <1>2, <1>3, <2>1 DEF FromClicks, PostsStay, Queue!Idle
  <2>2. CASE ~Queue!Idle
    <3>1. picked \cup slipped \subseteq picked' \cup slipped'
      BY <1>2, <2>2
    <3> QED BY <1>2, <1>3, <3>1 DEF QueueInv, FromClicks, PostsStay
  <2> QED BY <2>1, <2>2
<1> QED BY <1>1, <1>2, <1>4, ClickKeeps

LEMMA ClearKeeps == ASSUME QueueInv, Queue!Clear PROVE QueueInv'
<1>1. UNCHANGED <<status, filters, suggestions, get, shown, astray, decided, repeatable,
                  repeats, actionLoadingId>>
  BY DEF Queue!Clear
<1>2. Queue!Select({}) /\ Queue!LetGo(Queue!Suggestions)
  BY DEF Queue!Clear
<1>3. selectedIds' = {} /\ PostsStay
  BY <1>2, SelectStays DEF QueueInv
<1>4. FromClicks'
  BY <1>2, <1>3, LetGoKeeps DEF FromClicks, PostsStay
<1> QED BY <1>1, <1>2, <1>4, ClickKeeps

\* A decision of somebody else, and the toggle of the simulation.
LEMMA OthersKeep ==
  ASSUME QueueInv,
         status' \in [Queue!Suggestions -> {"pending", "approved", "declined", "expired"}],
         UNCHANGED <<filters, suggestions, selectedIds, get, post, picked, slipped, shown, astray,
                     decided, repeatable, repeats, actionLoadingId>>
  PROVE  QueueInv'
<1>1. QueueTypes'
  BY DEF QueueInv, QueueTypes
<1>2. RefetchesOwned' /\ OneByOne' /\ Remembered' /\ repeats' = {} /\ FromClicks'
  BY DEF QueueInv, RefetchesOwned, OneByOne, Remembered, FromClicks
<1>3. Following'
  BY DEF QueueInv, Following
<1> QED BY <1>1, <1>2, <1>3 DEF QueueInv

LEMMA DecideKeeps == ASSUME QueueInv, NEW p \in Posts, Queue!Decide(p) PROVE QueueInv'
<1>1. PICK done \in SUBSET Queue!Suggestions, next \in {"done", "refused"} :
        /\ status' = [s \in Queue!Suggestions |->
                        IF s \in done THEN Queue!Decision(post[p].kind) ELSE status[s]]
        /\ post' = [post EXCEPT ![p].at = next]
  <2>1. PICK done \in SUBSET post[p].ids :
          /\ status' = [s \in Queue!Suggestions |->
                          IF s \in done THEN Queue!Decision(post[p].kind) ELSE status[s]]
          /\ post' = [post EXCEPT ![p].at =
                        IF (post[p].bulk /\ Queue!Accepted(p)) \/ done # {}
                        THEN "done" ELSE "refused"]
    BY DEF Queue!Decide
  <2>2. post[p].ids \subseteq Queue!Suggestions
    BY DEF QueueInv, QueueTypes, PostRecords
  <2> QED BY <2>1, <2>2
<1>2. /\ post[p].at = "sent"
      /\ UNCHANGED <<Queue!page, get, Queue!ghosts>>
  BY DEF Queue!Decide
<1>3. /\ post' \in [Posts -> PostRecords]
      /\ post'[p].at # "free" /\ post'[p].ids = post[p].ids
      /\ post'[p].bulk = post[p].bulk /\ post'[p].view = post[p].view
      /\ post'[p].sel = post[p].sel
      /\ \A q \in Posts \ {p} : post'[q] = post[q]
  <2>1. post[p] \in PostRecords
    BY DEF QueueInv, QueueTypes
  <2> DEFINE r == [post[p] EXCEPT !.at = next]
  <2>2. /\ r \in PostRecords /\ r.at = next /\ r.ids = post[p].ids /\ r.bulk = post[p].bulk
        /\ r.view = post[p].view /\ r.sel = post[p].sel
    BY <2>1 DEF PostRecords
  <2>3. post' = [post EXCEPT ![p] = r]
    BY <1>1
  <2> HIDE DEF r
  <2> QED BY <2>2, <2>3 DEF QueueInv, QueueTypes
<1>4. QueueTypes'
  BY <1>1, <1>2, <1>3 DEF QueueInv, QueueTypes, Queue!page, Queue!ghosts, Queue!Decision
<1>5. RefetchesOwned' /\ OneByOne' /\ FromClicks'
  BY <1>2, <1>3 DEF QueueInv, RefetchesOwned, OneByOne, FromClicks, Queue!page, Queue!ghosts
<1>6. Remembered' /\ repeats' = {}
  BY <1>2, <1>3 DEF QueueInv, Remembered, Queue!page, Queue!ghosts
<1>7. Following'
  BY <1>2, <1>3 DEF QueueInv, Following, Queue!page, Queue!ghosts
<1> QED BY <1>4, <1>5, <1>6, <1>7 DEF QueueInv

LEMMA PostFailsKeeps == ASSUME QueueInv, NEW p \in Posts, Queue!PostFails(p) PROVE QueueInv'
<1>1. /\ post[p].at \in {"sent", "done", "refused"}
      /\ post' = [post EXCEPT ![p] = Queue!NoPost]
      /\ post[p].bulk => UNCHANGED actionLoadingId
      /\ UNCHANGED <<status, filters, suggestions, selectedIds, get, picked, slipped, shown, astray,
                     decided, repeatable, repeats>>
  BY DEF Queue!PostFails, Queue!ghosts
<1>2. /\ post' \in [Posts -> PostRecords] /\ post'[p].at = "free"
      /\ \A q \in Posts \ {p} : post'[q] = post[q]
  BY <1>1, NoPostIsFree DEF QueueInv, QueueTypes
<1>3. QueueTypes'
  BY <1>1, <1>2 DEF QueueInv, QueueTypes
<1>4. RefetchesOwned'
  BY <1>1, <1>2 DEF QueueInv, RefetchesOwned
<1>5. OneByOne'
  <2>1. CASE post[p].bulk = TRUE
    BY <1>1, <1>2, <2>1 DEF QueueInv, OneByOne
  <2>2. CASE post[p].bulk = FALSE
    BY <1>1, <1>2, <2>2 DEF QueueInv, OneByOne
  <2> QED BY <2>1, <2>2 DEF QueueInv, QueueTypes, PostRecords
<1>6. Remembered' /\ repeats' = {} /\ FromClicks'
  BY <1>1, <1>2 DEF QueueInv, Remembered, FromClicks
<1>7. Following'
  BY <1>1, <1>2 DEF QueueInv, Following
<1> QED BY <1>3, <1>4, <1>5, <1>6, <1>7 DEF QueueInv

LEMMA ActKeeps ==
  ASSUME QueueInv, NEW p \in Posts, NEW s \in Queue!Suggestions,
         NEW verb \in {"approve", "decline"}, Queue!Act(p, s, verb)
  PROVE  QueueInv'
<1> DEFINE single == {r \in Posts : post[r].at # "free" /\ ~post[r].bulk}
           others == UNION {post[q].ids : q \in single}
<1>1. /\ s \in Queue!PendingRows
      /\ actionLoadingId' = {s}
      /\ repeatable' = repeatable \cup (IF others = {} THEN {} ELSE others \cup {s})
      /\ repeats' = repeats \cup ({s} \cap (decided \ repeatable))
      /\ UNCHANGED <<status, filters, suggestions, selectedIds, get, picked, slipped, shown,
                     astray, decided>>
  BY DEF Queue!Act
<1>2. /\ post' \in [Posts -> PostRecords]
      /\ post[p].at = "free"
      /\ post'[p].at = "sent" /\ post'[p].ids = {s} /\ post'[p].bulk = FALSE
      /\ post'[p].view = {filters} /\ post'[p].sel = selectedIds
      /\ \A q \in Posts \ {p} : post'[q] = post[q]
  <2>1. PICK owner \in SUBSET Posts :
          post' = [post EXCEPT ![p] =
            [at |-> "sent", ids |-> {s}, bulk |-> FALSE, kind |-> verb, view |-> {filters},
             sel |-> selectedIds, current |-> TRUE, owner |-> owner]]
    BY SetOwner DEF QueueInv, Queue!Send, Queue!Act
  <2>2. post[p].at = "free"
    BY DEF Queue!Send, Queue!Act
  <2> QED BY <2>1, <2>2 DEF QueueInv, QueueTypes, PostRecords
<1>3. [id |-> s, status |-> "pending"] \in suggestions
  BY <1>1, PendingIsHeld DEF QueueInv
<1>4. \A q \in Posts : post[q].at # "free" /\ post[q].bulk = FALSE =>
        post[q].ids # {} /\ post[q].ids \subseteq others
  BY DEF QueueInv, OneByOne
<1>5. s \notin decided \ repeatable
  <2> SUFFICES ASSUME s \in decided \ repeatable PROVE FALSE
    OBVIOUS
  <2>1. PICK q \in Posts : post[q].at = "refetch" /\ post[q].bulk = FALSE /\ s \in post[q].ids
    BY <1>3 DEF QueueInv, Remembered
  <2>2. actionLoadingId = post[q].ids
    BY <2>1 DEF QueueInv, OneByOne
  <2> QED BY <2>1, <2>2 DEF Queue!Act
<1>6. others = {} => \A q \in Posts : ~(post[q].at # "free" /\ post[q].bulk = FALSE)
  BY <1>4
<1>7. repeatable \subseteq repeatable' /\ (others # {} => others \cup {s} \subseteq repeatable')
  BY <1>1
<1> HIDE DEF others
<1>8. QueueTypes'
  BY <1>1, <1>2 DEF QueueInv, QueueTypes
<1>9. RefetchesOwned'
  BY <1>1, <1>2 DEF QueueInv, RefetchesOwned
<1>10. OneByOne'
  <2>1. CASE others = {}
    BY <1>1, <1>2, <1>6, <2>1 DEF OneByOne
  <2>2. CASE others # {}
    BY <1>2, <1>4, <1>7, <2>2 DEF OneByOne
  <2> QED BY <2>1, <2>2
<1>11. Remembered' /\ repeats' = {}
  <2>1. repeats' = {}
    BY <1>1, <1>5 DEF QueueInv
  <2>2. Remembered'
    BY <1>1, <1>2, <1>7 DEF QueueInv, Remembered
  <2> QED BY <2>1, <2>2
<1>12. FromClicks'
  BY <1>1, <1>2 DEF QueueInv, FromClicks
<1>13. Following'
  BY <1>1, <1>2 DEF QueueInv, Following
<1> QED BY <1>8, <1>9, <1>10, <1>11, <1>12, <1>13 DEF QueueInv

LEMMA BulkKeeps ==
  ASSUME QueueInv, NEW p \in Posts, NEW verb \in {"approve", "decline"}, Queue!Bulk(p, verb)
  PROVE  QueueInv'
<1>1. UNCHANGED <<status, filters, suggestions, selectedIds, actionLoadingId, get, picked,
                  slipped, shown, astray, decided, repeatable, repeats>>
  BY DEF Queue!Bulk, Queue!ghosts
<1>2. /\ post' \in [Posts -> PostRecords]
      /\ post[p].at = "free"
      /\ post'[p].at = "sent" /\ post'[p].bulk = TRUE
      /\ post'[p].view = {filters} /\ post'[p].sel = selectedIds
      /\ \A q \in Posts \ {p} : post'[q] = post[q]
  <2>1. PICK owner \in SUBSET Posts :
          post' = [post EXCEPT ![p] =
            [at |-> "sent", ids |-> selectedIds, bulk |-> TRUE, kind |-> verb, view |-> {filters},
             sel |-> selectedIds, current |-> TRUE, owner |-> owner]]
    BY SetOwner DEF QueueInv, Queue!Send, Queue!Bulk
  <2>2. post[p].at = "free"
    BY DEF Queue!Send, Queue!Bulk
  <2> QED BY <2>1, <2>2 DEF QueueInv, QueueTypes, PostRecords
<1>3. QueueTypes'
  BY <1>1, <1>2 DEF QueueInv, QueueTypes
<1>4. RefetchesOwned' /\ OneByOne' /\ Remembered' /\ repeats' = {} /\ FromClicks'
  BY <1>1, <1>2 DEF QueueInv, RefetchesOwned, OneByOne, Remembered, FromClicks
<1>5. Following'
  BY <1>1, <1>2 DEF QueueInv, Following
<1> QED BY <1>3, <1>4, <1>5 DEF QueueInv

\* What the answer to the POST p changes of the POSTs.
LEMMA AnsweredEffect ==
  ASSUME QueueTypes, NEW p \in Posts, NEW n \in Gets, Queue!Answered(p, n)
  PROVE  /\ post' \in [Posts -> PostRecords]
         /\ post[p].at = "done" /\ post'[p].at = "refetch"
         /\ \A q \in Posts \ {p} : post'[q].at = post[q].at
         /\ \A q \in Posts : /\ post'[q].ids = post[q].ids /\ post'[q].bulk = post[q].bulk
                             /\ post'[q].view = post[q].view /\ post'[q].sel = post[q].sel
<1> DEFINE Kept(r, q) == /\ r \in PostRecords
                         /\ r.at = IF q = p THEN "refetch" ELSE post[q].at
                         /\ r.ids = post[q].ids /\ r.bulk = post[q].bulk
                         /\ r.view = post[q].view /\ r.sel = post[q].sel
<1>1. post[p].at = "done"
  BY DEF Queue!Answered
<1>2. ASSUME NEW q \in Posts PROVE Kept([post[q] EXCEPT !.at = "refetch"], p) \/ q # p
  BY DEF QueueTypes, PostRecords
<1>3. ASSUME NEW q \in Posts \ {p} PROVE Kept([post[q] EXCEPT !.current = FALSE], q)
  <2>1. post[q] \in PostRecords
    BY DEF QueueTypes
  <2> QED BY <2>1 DEF PostRecords
<1>4. ASSUME NEW q \in Posts \ {p} PROVE Kept(post[q], q)
  BY DEF QueueTypes
<1>5. CASE post' = [q \in Posts |-> IF q = p THEN [post[q] EXCEPT !.at = "refetch"]
                                    ELSE [post[q] EXCEPT !.current = FALSE]]
  <2>1. \A q \in Posts : Kept(post'[q], q)
    <3> HIDE DEF Kept
    <3> QED BY <1>2, <1>3, <1>5
  <2> QED BY <1>1, <1>5, <2>1
<1>6. CASE post' = [post EXCEPT ![p].at = "refetch"]
  <2>1. post'[p] = [post[p] EXCEPT !.at = "refetch"] /\ \A q \in Posts \ {p} : post'[q] = post[q]
    BY <1>6 DEF QueueTypes
  <2>2. \A q \in Posts : Kept(post'[q], q)
    <3> HIDE DEF Kept
    <3> QED BY <1>2, <1>4, <2>1
  <2>3. DOMAIN post' = Posts /\ post' = [q \in Posts |-> post'[q]]
    BY <1>6 DEF QueueTypes
  <2> QED BY <1>1, <2>2, <2>3
<1> QED BY <1>5, <1>6 DEF Queue!Answered

LEMMA AnsweredKeeps ==
  ASSUME QueueInv, NEW p \in Posts, NEW n \in Gets, Queue!Answered(p, n)
  PROVE  QueueInv'
<1>1. /\ post' \in [Posts -> PostRecords]
      /\ post[p].at = "done" /\ post'[p].at = "refetch"
      /\ \A q \in Posts \ {p} : post'[q].at = post[q].at
      /\ \A q \in Posts : /\ post'[q].ids = post[q].ids /\ post'[q].bulk = post[q].bulk
                          /\ post'[q].view = post[q].view /\ post'[q].sel = post[q].sel
  BY AnsweredEffect DEF QueueInv
<1>2. PICK view \in QueueViews :
        view \in post[p].view /\ Queue!Fetch(n, view, {p})
  <2>1. post[p].view \subseteq QueueViews
    BY DEF QueueInv, QueueTypes, PostRecords
  <2> QED BY <2>1 DEF Queue!Answered
<1>3. /\ get' \in [Gets -> GetRecords]
      /\ get[n].at = "free"
      /\ get'[n].at = "sent" /\ get'[n].view = {view} /\ get'[n].by = {p}
      /\ \A m \in Gets \ {n} : get'[m] = get[m]
  <2>1. {p} \in SUBSET (Posts \cup Queue!Timer)
    OBVIOUS
  <2> QED BY <1>2, <2>1, FetchEffect DEF QueueInv
<1>4. UNCHANGED <<status, filters, suggestions, actionLoadingId, shown, astray, repeatable, repeats>>
  BY DEF Queue!Answered
<1>5. /\ selectedIds' \in SUBSET Queue!Suggestions
      /\ FromClicks'
      /\ decided' = IF post[p].bulk THEN decided ELSE decided \cup post[p].ids
  <2>1. CASE post[p].bulk
    <3>1. selectedIds' = {} /\ Queue!LetGo(Queue!Suggestions) /\ UNCHANGED decided
      BY <2>1 DEF Queue!Answered
    <3> QED BY <1>1, <2>1, <3>1, LetGoKeeps DEF FromClicks
  <2>2. CASE ~post[p].bulk
    <3>1. decided' = decided \cup post[p].ids /\ UNCHANGED <<selectedIds, picked, slipped>>
      BY <2>2 DEF Queue!Answered
    <3> QED BY <1>1, <2>2, <3>1 DEF QueueInv, QueueTypes, FromClicks
  <2> QED BY <2>1, <2>2
<1>6. QueueTypes'
  BY <1>1, <1>3, <1>4, <1>5 DEF QueueInv, QueueTypes
<1>7. RefetchesOwned'
  <2>1. \A m \in Gets : p \notin get[m].by
    BY <1>1 DEF QueueInv, RefetchesOwned
  <2> QED BY <1>1, <1>3, <2>1 DEF QueueInv, RefetchesOwned
<1>8. OneByOne'
  BY <1>1, <1>4 DEF QueueInv, OneByOne
<1>9. Remembered' /\ repeats' = {}
  <2>1. post[p].bulk \in BOOLEAN
    BY DEF QueueInv, QueueTypes, PostRecords
  <2>2. CASE post[p].bulk = TRUE
    BY <1>1, <1>4, <1>5, <2>2 DEF QueueInv, Remembered
  <2>3. CASE post[p].bulk = FALSE
    BY <1>1, <1>4, <1>5, <2>3 DEF QueueInv, Remembered
  <2> QED BY <2>1, <2>2, <2>3
<1>10. Following'
  <2>1. p \in Posts /\ (astray = FALSE => view = filters)
    BY <1>1, <1>2 DEF QueueInv, Following
  <2> QED BY <1>1, <1>3, <1>4, <2>1 DEF QueueInv, Following
<1> QED BY <1>5, <1>6, <1>7, <1>8, <1>9, <1>10 DEF QueueInv

\* A decision of somebody else or an expiry, and the toggle of the simulation.
LEMMA ForeignKeeps ==
  ASSUME QueueInv, NEW s \in Queue!Suggestions, NEW to \in {"approved", "declined", "expired"},
         Queue!Foreign(s, to)
  PROVE  QueueInv'
<1>1. status' \in [Queue!Suggestions -> {"pending", "approved", "declined", "expired"}]
  BY DEF Queue!Foreign, QueueInv, QueueTypes
<1> QED BY <1>1, OthersKeep DEF Queue!Foreign, Queue!page, Queue!net, Queue!ghosts

LEMMA SimToggleKeeps == ASSUME QueueInv, Queue!SimToggle PROVE QueueInv'
<1>1. status' \in [Queue!Suggestions -> {"pending", "approved", "declined", "expired"}]
  BY DEF Queue!SimToggle, QueueInv, QueueTypes
<1> QED BY <1>1, OthersKeep DEF Queue!SimToggle, Queue!net, Queue!ghosts

LEMMA QueueStepwise == QueueInv /\ [Queue!Next]_queueVars => QueueInv'
<1> SUFFICES ASSUME QueueInv, [Queue!Next]_queueVars PROVE QueueInv'
  OBVIOUS
<1>1. CASE UNCHANGED queueVars
  <2>1. status' \in [Queue!Suggestions -> {"pending", "approved", "declined", "expired"}]
    BY <1>1 DEF queueVars, QueueInv, QueueTypes
  <2> QED BY <1>1, <2>1, OthersKeep DEF queueVars
<1>2. ASSUME NEW n \in Gets,
             \/ Queue!Serve(n) \/ Queue!Arrive(n) \/ Queue!GetFails(n) \/ Queue!Refresh(n)
             \/ \E view \in Queue!Views : Queue!Filter(n, view) \/ Queue!Turn(n, view)
             \/ \E p \in Posts : Queue!Answered(p, n)
      PROVE  QueueInv'
  BY <1>2, ServeKeeps, ArriveKeeps, GetFailsKeeps, RefreshKeeps, FilterKeeps, TurnKeeps,
     AnsweredKeeps
<1>3. ASSUME NEW s \in Queue!Suggestions,
             \/ Queue!ToggleSelect(s)
             \/ \E to \in {"approved", "declined", "expired"} : Queue!Foreign(s, to)
             \/ \E p \in Posts, verb \in {"approve", "decline"} : Queue!Act(p, s, verb)
      PROVE  QueueInv'
  BY <1>3, ToggleSelectKeeps, ForeignKeeps, ActKeeps
<1>4. ASSUME NEW p \in Posts,
             \/ Queue!Decide(p) \/ Queue!PostFails(p)
             \/ \E verb \in {"approve", "decline"} : Queue!Bulk(p, verb)
      PROVE  QueueInv'
  BY <1>4, DecideKeeps, PostFailsKeeps, BulkKeeps
<1>5. CASE Queue!ToggleSelectAll \/ Queue!Clear \/ Queue!SimToggle
  BY <1>5, ToggleSelectAllKeeps, ClearKeeps, SimToggleKeeps
<1> QED BY <1>1, <1>2, <1>3, <1>4, <1>5 DEF Queue!Next

LEMMA QueueMove == [Next]_vars /\ scene = "queue" => [Queue!Next]_queueVars
BY DEF Next, vars, LoginStep, DisruptionStep, SimulatedStep, QueueStep, PoliciesStep,
       TemplatesStep, DiscoveryStep, InsightStep

QueueSound == scene = "queue" => QueueInv

LEMMA QueueIsSound == Spec => []QueueSound
<1>1. Init => QueueSound
  BY QueueInitially DEF Init, QueueSound
<1>2. QueueSound /\ [Next]_vars => QueueSound'
  BY SceneStays, QueueMove, QueueStepwise DEF QueueSound
<1> QED BY <1>1, <1>2, PTL DEF Spec

\* What a bulk action would send comes from clicks on rows (QueuePage: every
\* handler that may bring an old selection back has it from its own rendering,
\* and what is let go meanwhile is known).
THEOREM SelectionIsFromClicks == Spec => []SelectionWasMeant
<1>1. QueueSound => SelectionWasMeant
  BY DEF QueueSound, QueueInv, FromClicks, SelectionWasMeant, Queue!SelectionWasMeant
<1> QED BY <1>1, QueueIsSound, PTL

\* With no request under way the queue holds rows of the filter in use, unless
\* the filter changed while one was, or a GET failed (QueuePage: fetchSuggestions
\* takes every answer, whatever the filter is by then).
THEOREM RowsFollowFilter == Spec => []RowsMatchFilter
<1>1. QueueSound => RowsMatchFilter
  BY DEF QueueSound, QueueInv, QueueTypes, Following, RowsMatchFilter, Queue!RowsMatchFilter
<1> QED BY <1>1, QueueIsSound, PTL

\* What the page has decided it does not send again, unless two handlers ran at
\* a time or their rows were not read (QueuePage: the button stays disabled
\* until the rows that follow the decision are held).
THEOREM DecidedIsNotSentAgain == Spec => []NotDecidedTwice
<1>1. QueueSound => NotDecidedTwice
  BY DEF QueueSound, QueueInv, NotDecidedTwice, Queue!NotDecidedTwice
<1> QED BY <1>1, QueueIsSound, PTL
================================================================================
