----------------------------- MODULE IntakeForm -----------------------------
(***************************************************************************)
(* `just run` up to its graph (cli/run.py, cli/intake_prompt.py): the form *)
(* is asked field by field, each prompt repeating itself until it takes    *)
(* the answer, then validated as a whole (IntakeInput), and only then the  *)
(* settings are read, for the checkpointer (config.py, checkpointer.py).   *)
(*                                                                         *)
(* What a human types is told apart as far as the prompts do; "not finite" *)
(* is what Decimal reads but is no amount ("NaN", "Infinity").             *)
(***************************************************************************)
EXTENDS Naturals, Sequences

CONSTANTS
    None,
    MAX_DOCUMENTS   \* bound on the documents attached

Inputs == {"", "date", "number", "not finite", "doc type", "yes", "no", "text"}

\* The fields in the order they are asked for, and the prompts that ask.
Fields == <<"policy_id", "holder_name", "phone", "dob", "claimant_name", "claimant_phone",
            "incident_date", "description", "requested_amount">>

DocumentFields == <<"doc_type", "filename", "present">>

prompt(field) ==
    CASE field \in {"policy_id", "holder_name", "phone", "claimant_phone"} -> "optional"
      [] field = "dob" -> "optional date"
      [] field \in {"claimant_name", "description", "filename"} -> "required"
      [] field = "incident_date" -> "required date"
      [] field = "requested_amount" -> "amount"
      [] field = "doc_type" -> "doc type"
      [] field = "present" -> "yes or no"

VARIABLES
    settings,    \* the .env file: "valid" or "malformed"
    form,        \* the fields accepted, in order
    document,    \* those of the document being entered
    documents,
    at           \* "form"; "invalid"; "submitted"; "unconfigured"; "started"

vars == <<settings, form, document, documents, at>>

\* Which answers end the loop of a prompt.
takes(field, input) ==
    CASE prompt(field) = "optional" -> TRUE
      [] prompt(field) = "optional date" -> input \in {"", "date"}
      [] prompt(field) = "required" -> input # ""
      [] prompt(field) = "required date" -> input = "date"
      [] prompt(field) = "amount" -> input \in {"number", "not finite"}
      [] prompt(field) = "doc type" -> input = "doc type"
      [] prompt(field) = "yes or no" -> input \in {"", "yes", "no"}

\* A skipped field is None; of a text it only matters that there is one.
value(field, input) ==
    CASE input = "" -> None
      [] input # "" /\ prompt(field) \in {"optional", "required"} -> "text"
      [] OTHER -> input

-----------------------------------------------------------------------------
FormComplete == Len(form) = Len(Fields)

\* An answer to one of the fields of the claim.
AnswerField(input) ==
    /\ at = "form" /\ ~FormComplete
    /\ LET field == Fields[Len(form) + 1]
       IN  takes(field, input) /\ form' = Append(form, value(field, input))
    /\ UNCHANGED <<settings, document, documents, at>>

\* An answer about a document: after its last one the document is attached.
AnswerDocument(input) ==
    /\ at = "form" /\ FormComplete /\ documents < MAX_DOCUMENTS
    /\ takes(DocumentFields[Len(document) + 1], input)
    /\ IF Len(document) + 1 = Len(DocumentFields)
       THEN document' = <<>> /\ documents' = documents + 1
       ELSE /\ document' = Append(document, value(DocumentFields[Len(document) + 1], input))
            /\ UNCHANGED documents
    /\ UNCHANGED <<settings, form, at>>

\* The prompt prints what it wants and asks again.
Refuse(input) ==
    /\ at = "form"
    /\ IF FormComplete
       THEN /\ ~takes(DocumentFields[Len(document) + 1], input)
            /\ ~(document = <<>> /\ input = "")
       ELSE ~takes(Fields[Len(form) + 1], input)
    /\ UNCHANGED vars

\* IntakeInput refuses an amount that is not finite.
validates(fields) == fields[Len(Fields)] # "not finite"

\* A blank document type ends the form; nothing catches a ValidationError.
Submit ==
    /\ at = "form" /\ FormComplete /\ document = <<>>
    /\ at' = IF validates(form) THEN "submitted" ELSE "invalid"
    /\ UNCHANGED <<settings, form, document, documents>>

get_checkpointer ==
    /\ at = "submitted"
    /\ at' = IF settings = "valid" THEN "started" ELSE "unconfigured"
    /\ UNCHANGED <<settings, form, document, documents>>

-----------------------------------------------------------------------------
Init ==
    /\ settings \in {"valid", "malformed"}
    /\ form = <<>> /\ document = <<>> /\ documents = 0
    /\ at = "form"

Next ==
    \/ \E input \in Inputs : AnswerField(input) \/ AnswerDocument(input) \/ Refuse(input)
    \/ Submit \/ get_checkpointer

Spec == Init /\ [][Next]_vars

-----------------------------------------------------------------------------
\* intake_prompt.py:52: "Please enter a plain number, e.g. 3200.00."  The
\* prompt takes "NaN" as well, and the form is then lost to a traceback.
AmountIsAPlainNumber == FormComplete => form[Len(Fields)] = "number"
=============================================================================
