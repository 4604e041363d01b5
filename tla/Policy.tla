------------------------------- MODULE Policy -------------------------------
(***************************************************************************)
(* internal/policy/policy.go and what leads to its rules: the CLI's -pii   *)
(* flag (parsePII) and the suggestions of a schema scan (internal/detect,  *)
(* detectAndRespond).  The loops of the code are actions of module Rules.  *)
(*                                                                         *)
(* A column name is [parts, spelling]: the hints it contains, which is all *)
(* that detection sees of it, and how it is capitalised, which ToLower     *)
(* removes.  A value is [form, of]: the raw value, its salted hash, the    *)
(* redaction string or NULL.                                               *)
(***************************************************************************)
EXTENDS Naturals, Sequences, SequencesExt

Lower(name) == name.parts

\* ParseAction: three capitalisations stand for all; what is not known is no
\* action.
ParseAction(a) ==
    IF a \in {"hash", "Hash", "HASH"} THEN "hash"
    ELSE IF a \in {"redact", "Redact", "REDACT"} THEN "redact"
    ELSE "none"

\* An assignment to a map of the code.
Assign(f, c, a) == [d \in DOMAIN f \cup {c} |-> IF d = c THEN a ELSE f[d]]

ActionFor(byColumn, name) == IF Lower(name) \in DOMAIN byColumn THEN byColumn[Lower(name)] ELSE "none"

Null == [form |-> "null", of |-> 0]

\* Mutant: what is not text is passed on.
AnonymizeValueTextOnly(action, isText, value) ==
    IF value = Null \/ action = "none" \/ ~isText THEN value
    ELSE [form |-> action, of |-> IF action = "hash" THEN value.of ELSE 0]

\* AnonymizeValue: a value that is not text becomes NULL.
AnonymizeValue(action, isText, value) ==
    IF value = Null \/ action = "none" THEN value
    ELSE IF ~isText THEN Null
    ELSE [form |-> action, of |-> IF action = "hash" THEN value.of ELSE 0]

\* The rules that parsePII makes of a part between commas: none of an empty
\* one; without a colon the column is to be redacted.
RuleOf(part) ==
    IF part.kind = "empty" THEN <<>>
    ELSE <<[name |-> part.name, action |-> IF part.kind = "bare" THEN "redact" ELSE part.action]>>

-----------------------------------------------------------------------------
(* Detection *)

\* nameHints: the hints that suggest redaction come first in the table.
RedactHints == {"password", "passwd", "secret", "token", "api_key", "apikey", "private_key", "card", "cvv"}

HashHints ==
    {"iban", "account_number", "ssn", "social_security", "national_id", "passport", "email",
     "phone", "mobile", "msisdn", "address", "street", "postal", "zip", "first_name", "last_name",
     "full_name", "birth", "dob", "date_of_birth", "rekkari", "license_plate", "reg_number"}

\* SuggestAction: of the first hint that the name contains.
SuggestAction(name) ==
    IF Lower(name) \cap RedactHints # {} THEN "redact"
    ELSE IF Lower(name) \cap HashHints # {} THEN "hash"
    ELSE "none"

\* The matches that Scan makes of a row <<table, name>> of the schema.
MatchOf(row) == IF SuggestAction(row[2]) # "none" THEN <<row>> ELSE <<>>

\* Mutant: a column seen before is skipped with its table.
AddSuggestionOnce(byCol, m) ==
    IF m[2] \in DOMAIN byCol THEN byCol
    ELSE Assign(byCol, m[2], [action |-> SuggestAction(m[2]), tables |-> <<m[1]>>])

\* byCol in one round of detectAndRespond's loop: a new suggestion, or another
\* table.
AddSuggestion(byCol, m) ==
    IF m[2] \notin DOMAIN byCol
      THEN Assign(byCol, m[2], [action |-> SuggestAction(m[2]), tables |-> <<m[1]>>])
    ELSE IF Contains(byCol[m[2]].tables, m[1]) THEN byCol
    ELSE [byCol EXCEPT ![m[2]].tables = Append(@, m[1])]

\* The suggestions in the order in which their columns were first seen.
Suggestions(byCol, order) ==
    [i \in DOMAIN order |-> [name |-> order[i], action |-> byCol[order[i]].action,
                             tables |-> byCol[order[i]].tables]]
=============================================================================
