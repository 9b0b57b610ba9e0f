----------------------------- MODULE MigrationText -----------------------------
(***************************************************************************)
(* How a migration file is read before it is applied                        *)
(* (scripts/run_supabase_migrations.py, scripts/check_migration_safety.py):  *)
(* the runner splits it into top-level statements with one scanner, blanks  *)
(* the comments of each with a second, and accepts exactly one outer         *)
(* begin/commit; the audit gate blanks comments with a third before it looks *)
(* for destructive statements.  PostgreSQL reads the same text a fourth way. *)
(*                                                                         *)
(* A file is read token by token and may have any length.  Double-quoted    *)
(* names, U& strings, literals continued on a later line and dollar quotes  *)
(* whose names go beyond ASCII are left out.                                *)
(***************************************************************************)
EXTENDS Naturals

CONSTANTS
    Tags,           \* dollar-quote delimiters
    Glued,          \* identifiers that end in one, as x$a$, with the delimiter
    MaxDepth        \* bound of the nesting of block comments

ASSUME ScriptAssumption ==
    /\ MaxDepth \in Nat
    /\ Tags \cap {"begin", "commit", "'", "E'", "\\", "--", "nl", "/*", "*/", "semicolon",
                 "delete", "word"} = {}
    /\ Glued \in [DOMAIN Glued -> Tags]
    /\ DOMAIN Glued \cap (Tags \cup {"begin", "commit", "'", "E'", "\\", "--", "nl", "/*", "*/",
                                    "semicolon", "delete", "word"}) = {}
    /\ Tags \cap {"code", "quote", "quote?", "equote", "equote?", "taken", "line", "block"} = {}

VARIABLES
    scans,          \* the four scanners: [strip, top, audit, pg -> mode]
    piece,          \* the runner's summary of the statement it is in
    file,           \* its summary of the statements before: FileStates
    ran,            \* what PostgreSQL did with them: RunStates
    pgPiece,        \* the statement PostgreSQL is in
    hid,            \* a destructive statement was read as a comment
    excused,        \* a quote the audit cannot follow was met
    misread,        \* a delimiter within an identifier was met in code
    over            \* the end of the file was reached

scriptVars == <<scans, piece, file, ran, pgPiece, hid, excused, misread, over>>

ControlWords == {"begin", "commit"}
Tokens == Tags \cup DOMAIN Glued \cup ControlWords \cup
              {"'", "E'", "\\", "--", "nl", "/*", "*/", "semicolon", "delete", "word"}
FileStates == {"empty", "open", "filled", "closed", "bad"}
RunStates == {"before", "begun", "inside", "after", "outside"}

Mode(where, depth) == [in |-> where, depth |-> depth]
Outside == Mode("code", 0)
IsCode(m) == m.in \in {"code", "quote?", "equote?"}
IsComment(m) == m.in \in {"line", "block"}
Shown(m, t) == ~IsComment(m) /\ ~(IsCode(m) /\ t \in {"--", "/*"})

----------------------------------------------------------------------------
(* One scanner.  A quote ends a string unless a second one follows; a       *)
(* backslash takes the next character in a string of `escaping`; comments   *)
(* nest; `tags` are the dollar quotes the scanner knows.                    *)
Opened(t, escaping, tags) ==
    CASE t \in {"'", "E'"} -> Mode(IF t \in escaping THEN "equote" ELSE "quote", 0)
      [] t = "--" -> Mode("line", 0)
      [] t = "/*" -> Mode("block", 1)
      [] t \in tags -> Mode(t, 0)
      [] OTHER -> Outside

Scanned(m, t, escaping, tags) ==
    CASE m.in \in tags -> IF t = m.in THEN Outside ELSE m
      [] m.in = "quote" -> IF t \in {"'", "E'"} THEN Mode("quote?", 0) ELSE m
      [] m.in = "equote" -> CASE t \in {"'", "E'"} -> Mode("equote?", 0)
                              [] t = "\\" -> Mode("taken", 0)
                              [] OTHER -> m
      [] m.in = "taken" -> Mode(IF t = "E'" THEN "equote?" ELSE "equote", 0)
      [] m.in \in {"quote?", "equote?"} ->
            IF t = "'" THEN Mode(IF m.in = "quote?" THEN "quote" ELSE "equote", 0)
            ELSE Opened(t, escaping, tags)
      [] m.in = "block" -> CASE t = "/*" -> Mode("block", m.depth + 1)
                             [] t = "*/" -> IF m.depth = 1 THEN Outside ELSE Mode("block", m.depth - 1)
                             [] OTHER -> m
      [] m.in = "line" -> IF t = "nl" THEN Outside ELSE m
      [] OTHER -> Opened(t, escaping, tags)

(* The runner finds a delimiter wherever it is; PostgreSQL takes it for a   *)
(* part of the identifier that it follows, except inside a dollar quote,    *)
(* where there are no identifiers.                                          *)
Found(t) == IF t \in DOMAIN Glued THEN Glued[t] ELSE t
PgFound(m, t) == IF t \in DOMAIN Glued /\ IsCode(m) THEN "word" ELSE Found(t)

StripRead(m, t) == Scanned(m, Found(t), {"E'"}, Tags)
TopRead(m, t) == Scanned(m, Found(t), {"E'"}, Tags)
AuditReadPlain(m, t) == Scanned(m, t, {}, {})
AuditRead(m, t) == Scanned(m, t, {"'", "E'"}, {})
PgRead(m, t) == Scanned(m, PgFound(m, t), {"E'"}, Tags)

----------------------------------------------------------------------------
(* A statement: blank, a bare control word, a control statement with more   *)
(* words, or another.                                                      *)
Pieced(p, t) ==
    IF t = "nl" THEN p
    ELSE CASE p = "blank" -> IF t \in ControlWords THEN t ELSE "other"
           [] p \in ControlWords -> "spoiled"
           [] OTHER -> p

(* begin first, then anything but transaction control, commit last.         *)
Filed(f, p) ==
    CASE f = "empty" /\ p = "begin" -> "open"
      [] f \in {"open", "filled"} /\ p = "other" -> "filled"
      [] f = "filled" /\ p = "commit" -> "closed"
      [] OTHER -> "bad"

Ran(r, p) ==
    CASE r = "before" /\ p = "begin" -> "begun"
      [] r \in {"begun", "inside"} /\ p = "other" -> "inside"
      [] r = "inside" /\ p = "commit" -> "after"
      [] OTHER -> "outside"

ScriptInit ==
    /\ scans = [s \in {"strip", "top", "audit", "pg"} |-> Outside]
    /\ piece = "blank" /\ pgPiece = "blank"
    /\ file = "empty" /\ ran = "before"
    /\ hid = FALSE /\ excused = FALSE /\ misread = FALSE /\ over = FALSE

Ends(m, t) == IsCode(m) /\ t = "semicolon"

(* The lone semicolon is a statement too.                                   *)
WholePiece(p) == IF p = "blank" THEN "other" ELSE p

(* The audit follows neither a backslash in a plain string, nor a quote     *)
(* left open in a dollar-quoted body.                                       *)
Lost(t) ==
    \/ scans.pg.in = "quote" /\ t = "\\"
    \/ scans.pg.in \in Tags /\ Found(t) = scans.pg.in /\ ~IsCode(scans.audit)

ReadToken(t) ==
    /\ ~over
    /\ \A s \in DOMAIN scans : scans[s].depth = MaxDepth => t # "/*"
    /\ scans' = [strip |-> IF Ends(scans.top, t) THEN Outside ELSE StripRead(scans.strip, t),
                 top |-> TopRead(scans.top, t),
                 audit |-> AuditRead(scans.audit, t),
                 pg |-> PgRead(scans.pg, t)]
    /\ IF Ends(scans.top, t)
       THEN /\ piece' = "blank"
            /\ file' = IF IsCode(scans.strip) THEN Filed(file, WholePiece(piece)) ELSE "bad"
       ELSE /\ piece' = IF Shown(scans.strip, t) THEN Pieced(piece, t) ELSE piece
            /\ UNCHANGED file
    /\ IF Ends(scans.pg, t)
       THEN pgPiece' = "blank" /\ ran' = Ran(ran, WholePiece(pgPiece))
       ELSE /\ pgPiece' = IF Shown(scans.pg, t) THEN Pieced(pgPiece, t) ELSE pgPiece
            /\ UNCHANGED ran
    /\ hid' = (hid \/ (t = "delete" /\ IsCode(scans.pg) /\ ~Shown(scans.audit, t)))
    /\ excused' = (excused \/ Lost(t))
    /\ misread' = (misread \/ (t \in DOMAIN Glued /\ IsCode(scans.pg)))
    /\ UNCHANGED over

(* What follows the last semicolon is a statement unless it is blank; an    *)
(* open string or block comment refuses the file.                           *)
Closed_(m) == IsCode(m) \/ m.in = "line"

EndText ==
    /\ ~over
    /\ over' = TRUE
    /\ file' = IF piece = "blank" /\ Closed_(scans.top) /\ Closed_(scans.strip) THEN file ELSE "bad"
    /\ ran' = IF pgPiece = "blank" /\ Closed_(scans.pg) THEN ran ELSE "outside"
    /\ UNCHANGED <<scans, piece, pgPiece, hid, excused, misread>>

ScriptNext == (\E t \in Tokens : ReadToken(t)) \/ EndText
ScriptSpec == ScriptInit /\ [][ScriptNext]_scriptVars

----------------------------------------------------------------------------
(* The scanners stay within their modes and the summaries in their sets.    *)
ScriptTypeOK ==
    /\ \A s \in DOMAIN scans : scans[s].depth \in 0 .. MaxDepth /\ (scans[s].depth > 0 <=> scans[s].in = "block")
    /\ scans.strip = scans.top /\ (~misread => scans.top = scans.pg)
    /\ {piece, pgPiece} \subseteq ControlWords \cup {"blank", "spoiled", "other"}
    /\ file \in FileStates /\ ran \in RunStates
    /\ {hid, excused, misread, over} \subseteq BOOLEAN

(* A file is accepted exactly when PostgreSQL, reading the whole of it,     *)
(* begins once, does some work inside, and commits once as the last thing:  *)
(* a body that committed early would leave its effects without a ledger row. *)
(* The exception is real: after x$a$ in code the runner is inside a quote    *)
(* that PostgreSQL never opened, and a commit in there is hidden from it.    *)
AcceptedIsOneTransaction == over /\ ~misread => (file = "closed" <=> ran = "after")

(* A destructive statement that PostgreSQL would run is never blanked as a  *)
(* comment before the audit looks for it, unless a plain string holds a     *)
(* backslash or a dollar-quoted body holds a quote or a comment.            *)
NothingHidden == hid => excused

(* What the runner and the audit accept is what PostgreSQL runs, but for    *)
(* the quotes named above.                                                  *)
ScriptInv == ScriptTypeOK /\ AcceptedIsOneTransaction /\ NothingHidden
================================================================================
