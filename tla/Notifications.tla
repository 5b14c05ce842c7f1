----------------------------- MODULE Notifications -----------------------------
(***************************************************************************)
(* Messages to students and prospects.  The API mails a confirmation or a  *)
(* refusal while it answers (notification.service.ts), an approval also    *)
(* leaves a job for the worker (send-notification.job.ts), which writes an *)
(* email row on behalf of FSP and sends the text message, and the          *)
(* assistant mails what the model tells it to (ask.service.ts).  Nothing   *)
(* is sent and recorded in one step, and what fails is mostly swallowed.   *)
(*                                                                         *)
(* A text is known by the version of the template it was rendered with, 0  *)
(* where there is none and the code's own words are used.                  *)
(***************************************************************************)
EXTENDS Integers, Sequences, FiniteSets

CONSTANTS
  Requests,     \* approvals, bookings, refusals and messages of the assistant
  MaxAttempts,  \* NOTIFICATION_MAX_ATTEMPTS
  MaxEdits      \* bound on edits of templates and preferences

VARIABLES
  kind,      \* what a request is
  who,       \* whom it concerns: "student", "prospect" or "nobody"
  reach,     \* the channels an address is on file for
  at,        \* where the request is in the API
  mail,      \* what the API mails: the text and what sendEmail returned
  jobs,      \* queue send-notification
  stage,     \* where the worker is in the job of a request
  message,   \* what the job sends: addresses it knows, text, result of send
  handler,   \* what the worker runs for the queue: see Start
  live,      \* channels with a provider: the others log and report success
  prefs,     \* notification_preferences: the keys that are true and false
  template,  \* the version of the active template of a channel
  edits,     \* edits so far
  sent,      \* texts that were really sent, by request and channel
  rows,      \* notification_records
  emailSent, \* bookings answered with emailSent
  excused    \* requests whose job could not audit a failed text, or lost its worker

request == <<kind, who, reach, at, mail, emailSent>>
job == <<jobs, stage, message, excused>>
office == <<prefs, template, edits>>
setup == <<live, handler>>
vars == <<request, job, office, setup, sent, rows>>

Queue == INSTANCE JobQueue WITH
  Jobs <- Requests, Attempts <- [r \in Requests |-> MaxAttempts], queue <- jobs

Channels == {"email", "sms"}
NoMail == [text |-> 0, result |-> "none"]
NoMessage == [knows |-> {}, text |-> 0, result |-> "none"]

Init ==
  /\ kind = [r \in Requests |-> "none"]
  /\ who = [r \in Requests |-> "nobody"]
  /\ reach = [r \in Requests |-> {}]
  /\ at = [r \in Requests |-> "idle"]
  /\ mail = [r \in Requests |-> NoMail]
  /\ jobs = Queue!Empty
  /\ stage = [r \in Requests |-> "none"]
  /\ message = [r \in Requests |-> NoMessage]
  /\ live \in SUBSET Channels
  /\ handler \in {"logging", "job"}
  /\ prefs \in {[on |-> {}, off |-> {}], [on |-> {"emailEnabled", "smsEnabled"}, off |-> {}]}
  /\ template = [c \in Channels |-> 0]
  /\ edits = 0
  /\ sent = [r \in Requests |-> [c \in Channels |-> <<>>]]
  /\ rows = {}
  /\ emailSent = {}
  /\ excused = {}

--------------------------------------------------------------------------------
(* Sending and recording. *)

\* A provider takes the message, refuses it, or takes it while its answer is
\* lost.  Without one the message is logged and reported as sent.
Sends(r, c, text, result) ==
  \/ /\ result = "sent"
     /\ sent' = IF c \in live THEN [sent EXCEPT ![r][c] = Append(@, text)] ELSE sent
  \/ /\ result = "failed" /\ c \in live
     /\ \/ UNCHANGED sent
        \/ sent' = [sent EXCEPT ![r][c] = Append(@, text)]

RowsOf(r, c, by) == {x \in rows : x.for = r /\ x.channel = c /\ x.by = by}

AddRow(r, c, by, text, status) ==
  rows' = rows \cup {[for |-> r, channel |-> c, by |-> by, text |-> text, status |-> status,
                      number |-> Cardinality(RowsOf(r, c, by))]}

--------------------------------------------------------------------------------
(* The API. *)

Goto(r, to) == at' = [at EXCEPT ![r] = to]

\* An approved or booked suggestion, a declined one, or a question to the
\* assistant about a student.
Ask(r, k, w, known) ==
  /\ at[r] = "idle"
  /\ k = "booking" => w = "prospect"
  /\ k = "assistant" => w = "student" /\ "email" \in known
  /\ w = "nobody" => known = {}
  /\ kind' = [kind EXCEPT ![r] = k]
  /\ who' = [who EXCEPT ![r] = w]
  /\ reach' = [reach EXCEPT ![r] = known]
  /\ Goto(r, IF k = "assistant" THEN "context" ELSE "lookup")
  /\ UNCHANGED <<mail, emailSent, job, office, setup, sent, rows>>

\* What the assistant knows: the demo data, and suggestions and insights, which
\* it does without when a query fails.
GatherContext(r) ==
  /\ at[r] = "context"
  /\ Goto(r, "model")
  /\ UNCHANGED <<kind, who, reach, mail, emailSent, job, office, setup, sent, rows>>

\* One provider after the other, until one has an answer; it may hold an email.
CallAi(r) ==
  /\ at[r] = "model"
  /\ \E answer \in {"none", "text", "email"} :
       Goto(r, IF answer = "email" THEN "lookup" ELSE "ended")
  /\ UNCHANGED <<kind, who, reach, mail, emailSent, job, office, setup, sent, rows>>

\* The mail is over, whatever became of it: an approval goes on to the queue,
\* a booking answers that the email was sent.
Over(r) ==
  /\ Goto(r, IF kind[r] = "approval" THEN "enqueue" ELSE "ended")
  /\ emailSent' = IF kind[r] = "booking" THEN emailSent \cup {r} ELSE emailSent

\* Recipient and text of a mail, or the end of it: nobody to write to, no
\* address, or a query that fails.
Compose(r, text) ==
  /\ at[r] = "lookup"
  /\ \/ Over(r) /\ UNCHANGED mail
     \/ /\ "email" \in reach[r]
        /\ mail' = [mail EXCEPT ![r].text = text]
        /\ Goto(r, "send")
        /\ UNCHANGED emailSent
  /\ UNCHANGED <<kind, who, reach, job, office, setup, sent, rows>>

\* sendBookingConfirmation looks up a prospect or a student, then the template.
LookupConfirmation(r) == kind[r] \in {"approval", "booking"} /\ Compose(r, template["email"])

\* sendDeclineNotification has a text of its own.
LookupRefusal(r) == kind[r] = "refusal" /\ Compose(r, 0)

\* An answer of the model names its recipient; a query for the template that
\* fails is all that is left of the answer.
LookupAssistant(r) == kind[r] = "assistant" /\ Compose(r, template["email"])

SendEmail(r) ==
  /\ at[r] = "send"
  /\ \E result \in {"sent", "failed"} :
       /\ Sends(r, "email", mail[r].text, result)
       /\ mail' = [mail EXCEPT ![r].result = result]
  /\ Goto(r, "record")
  /\ UNCHANGED <<kind, who, reach, emailSent, job, office, setup, rows>>

\* A bug: the row is written as if the mail had gone out.
RecordEmailAsSent(r) ==
  /\ at[r] = "record"
  /\ AddRow(r, "email", "api", mail[r].text, "sent") \/ UNCHANGED rows
  /\ Over(r)
  /\ UNCHANGED <<kind, who, reach, mail, job, office, setup, sent>>

\* The insert may fail, which nobody learns.
RecordEmail(r) ==
  /\ at[r] = "record"
  /\ AddRow(r, "email", "api", mail[r].text, mail[r].result) \/ UNCHANGED rows
  /\ Over(r)
  /\ UNCHANGED <<kind, who, reach, mail, job, office, setup, sent>>

\* Redis may be away, which the approval survives.
Enqueue(r) ==
  /\ at[r] = "enqueue"
  /\ Queue!Add(r) \/ UNCHANGED jobs
  /\ Goto(r, "ended")
  /\ UNCHANGED <<kind, who, reach, mail, emailSent, stage, message, excused>>
  /\ UNCHANGED <<office, setup, sent, rows>>

ApiCrash ==
  /\ \E r \in Requests : at[r] \notin {"idle", "ended"}
  /\ at' = [r \in Requests |-> IF at[r] = "idle" THEN "idle" ELSE "ended"]
  /\ UNCHANGED <<kind, who, reach, mail, emailSent, job, office, setup, sent, rows>>

--------------------------------------------------------------------------------
(* The worker. *)

JobGoto(r, from, to) == stage[r] = from /\ stage' = [stage EXCEPT ![r] = to]

\* The scheduler registers a handler that logs; the job class is written to
\* take its place (job-scheduler.ts, "For now"), and both are in the model.
Start(r) ==
  /\ Queue!Start(r)
  /\ JobGoto(r, "none", "load")
  /\ message' = [message EXCEPT ![r] = NoMessage]
  /\ UNCHANGED <<request, excused, office, setup, sent, rows>>

Complete(r, from) == Queue!Complete(r) /\ JobGoto(r, from, "none")
Throw(r, from) == Queue!Throw(r) /\ JobGoto(r, from, "none")

LogOnly(r) ==
  /\ handler = "logging"
  /\ Complete(r, "load")
  /\ UNCHANGED <<request, message, excused, office, setup, sent, rows>>

\* The suggestion and its recipient.  A student's address comes from FSP, which
\* may not answer or not know it, and there is no telephone number.
Load(r) ==
  /\ handler = "job"
  /\ \/ Throw(r, "load") /\ UNCHANGED message
     \/ who[r] = "nobody" /\ Complete(r, "load") /\ UNCHANGED message
     \/ /\ who[r] # "nobody" /\ JobGoto(r, "load", "prefs") /\ UNCHANGED jobs
        /\ \E known \in IF who[r] = "prospect" THEN {reach[r]} ELSE {{}, reach[r] \cap {"email"}} :
             message' = [message EXCEPT ![r].knows = known]
  /\ UNCHANGED <<request, excused, office, setup, sent, rows>>

EmailEnabled == "emailEnabled" \notin prefs.off
SmsEnabled == "smsEnabled" \in prefs.on

\* dispatch: both channels are decided on one reading of the preferences.
ReadPrefs(r) ==
  /\ \/ Throw(r, "prefs") /\ UNCHANGED message
     \/ /\ JobGoto(r, "prefs", "email") /\ UNCHANGED jobs
        /\ message' = [message EXCEPT ![r].knows =
             @ \cap ((IF EmailEnabled THEN {"email"} ELSE {}) \cup
                     (IF SmsEnabled THEN {"sms"} ELSE {}))]
  /\ UNCHANGED <<request, excused, office, setup, sent, rows>>

\* A row for the mail FSP is taken to send.
RowForFsp(r) ==
  /\ \/ "email" \notin message[r].knows /\ JobGoto(r, "email", "sms") /\ UNCHANGED rows
     \/ /\ "email" \in message[r].knows /\ JobGoto(r, "email", "sms")
        /\ AddRow(r, "email", "job", template["email"], "sent")
     \/ "email" \in message[r].knows /\ JobGoto(r, "email", "auditEmail") /\ UNCHANGED rows
  /\ UNCHANGED <<request, jobs, message, excused, office, setup, sent>>

\* The failure is audited; when that fails too the job throws.
AuditEmail(r) ==
  /\ \/ JobGoto(r, "auditEmail", "sms") /\ UNCHANGED jobs
     \/ Throw(r, "auditEmail")
  /\ UNCHANGED <<request, message, excused, office, setup, sent, rows>>

SendSms(r) ==
  /\ \/ "sms" \notin message[r].knows /\ Complete(r, "sms") /\ UNCHANGED <<message, sent>>
     \/ /\ "sms" \in message[r].knows /\ UNCHANGED jobs
        /\ \/ JobGoto(r, "sms", "auditSms") /\ UNCHANGED <<message, sent>>
           \/ /\ JobGoto(r, "sms", "recordSms")
              /\ \E result \in {"sent", "failed"} :
                   /\ Sends(r, "sms", template["sms"], result)
                   /\ message' = [message EXCEPT ![r].text = template["sms"],
                                                 ![r].result = result]
  /\ UNCHANGED <<request, excused, office, setup, rows>>

\* A bug: what the insert throws reaches the queue.
RecordSmsOrThrow(r) ==
  /\ \/ /\ AddRow(r, "sms", "job", message[r].text, message[r].result)
        /\ JobGoto(r, "recordSms", "auditResult") /\ UNCHANGED jobs
     \/ Throw(r, "recordSms") /\ UNCHANGED rows
  /\ UNCHANGED <<request, message, excused, office, setup, sent>>

RecordSms(r) ==
  /\ \/ /\ AddRow(r, "sms", "job", message[r].text, message[r].result)
        /\ JobGoto(r, "recordSms", "auditResult")
     \/ JobGoto(r, "recordSms", "auditSms") /\ UNCHANGED rows
  /\ UNCHANGED <<request, jobs, message, excused, office, setup, sent>>

AuditResult(r) ==
  /\ \/ Complete(r, "auditResult")
     \/ JobGoto(r, "auditResult", "auditSms") /\ UNCHANGED jobs
  /\ UNCHANGED <<request, message, excused, office, setup, sent, rows>>

AuditSms(r) ==
  /\ \/ Complete(r, "auditSms") /\ UNCHANGED excused
     \/ Throw(r, "auditSms") /\ excused' = excused \cup {r}
  /\ UNCHANGED <<request, message, office, setup, sent, rows>>

WorkerCrash(r) ==
  /\ Queue!Stall(r)
  /\ stage' = [stage EXCEPT ![r] = "none"]
  /\ excused' = excused \cup {r}
  /\ UNCHANGED <<request, message, office, setup, sent, rows>>

--------------------------------------------------------------------------------
(* The office. *)

EditTemplate(c) ==
  /\ edits < MaxEdits
  /\ edits' = edits + 1
  /\ template' = [template EXCEPT ![c] = @ + 1]
  /\ UNCHANGED <<request, job, prefs, setup, sent, rows>>

\* The console saves the keys email and sms, a client of the API those that
\* dispatch reads.
SavePrefs(on, inConsole) ==
  /\ edits < MaxEdits
  /\ edits' = edits + 1
  /\ LET key(c) == IF inConsole THEN c ELSE IF c = "email" THEN "emailEnabled" ELSE "smsEnabled"
     IN  prefs' = [on |-> {key(c) : c \in on}, off |-> {key(c) : c \in Channels \ on}]
  /\ UNCHANGED <<request, job, template, setup, sent, rows>>

Next ==
  \/ \E r \in Requests :
       \/ \E k \in {"approval", "booking", "refusal", "assistant"},
             w \in {"student", "prospect", "nobody"}, known \in SUBSET Channels :
            Ask(r, k, w, known)
       \/ GatherContext(r) \/ CallAi(r)
       \/ LookupConfirmation(r) \/ LookupRefusal(r) \/ LookupAssistant(r)
       \/ SendEmail(r) \/ RecordEmail(r) \/ Enqueue(r)
       \/ Start(r) \/ LogOnly(r) \/ Load(r) \/ ReadPrefs(r) \/ RowForFsp(r) \/ AuditEmail(r)
       \/ SendSms(r) \/ RecordSms(r) \/ AuditResult(r) \/ AuditSms(r) \/ WorkerCrash(r)
  \/ ApiCrash
  \/ \E c \in Channels : EditTemplate(c)
  \/ \E on \in SUBSET Channels, inConsole \in BOOLEAN : SavePrefs(on, inConsole)

Spec == Init /\ [][Next]_vars

--------------------------------------------------------------------------------
\* A retried job does not text anybody twice: whatever fails after the message
\* is swallowed, and only a job that could not audit the failure either, or
\* whose worker died, is run again after it sent.
TextedOnce == \A r \in Requests \ excused : Len(sent[r]["sms"]) <= 1

\* The rows agree with what went out: on a channel with a provider, every row
\* "sent" of the API and every one of a text message stands for a message of
\* its own with that content.  (An answer that is lost makes a "failed" row for
\* a message that went out, never the reverse.)
SentRowsWereSent ==
  \A r \in Requests, c \in live, text \in 0 .. MaxEdits :
    Cardinality({x \in rows : /\ x.for = r /\ x.channel = c /\ x.text = text
                              /\ x.status = "sent" /\ ~(c = "email" /\ x.by = "job")})
      <= Cardinality({n \in DOMAIN sent[r][c] : sent[r][c][n] = text})
================================================================================
