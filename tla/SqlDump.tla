------------------------------- MODULE SqlDump -------------------------------
(***************************************************************************)
(* The reading of a SQL dump (core/parsing/sqlDumpParser.js): two scans of *)
(* the text, one for the names of its tables and one for the rows of the   *)
(* table that is imported, which stops one row past the limit.             *)
(*                                                                         *)
(* The text is a sequence of tokens: a character the scanner tells apart,  *)
(* a word it takes as a whole, or a head, which is the text INSERT_PREFIX  *)
(* matches.  A dump says where in its text the tool that made it has put   *)
(* which tuple, value and character; a string may hold any token, a head   *)
(* included.  A step is one turn of a loop of the scanner.                 *)
(*                                                                         *)
(* A definition commented "Slip" is a mistake this code does not make: a   *)
(* property of ImportIntake must fail when it takes the place of what      *)
(* follows it.                                                             *)
(***************************************************************************)
EXTENDS Naturals, Sequences, SequencesExt, FiniteSetsExt

CONSTANTS
    Dumps,          \* the dumps, each with its text, the tool that printed it and its tuples
    Heads,          \* the texts "INSERT INTO table (columns) VALUES" of a dump
    TableText,      \* how each head writes its table, a sequence of tokens
    ColumnsText,    \* how it writes the columns it lists, <<>> if it lists none
    NameOf          \* what an identifier names, however it is written

Blank == {" ", "newline"}
Quotes == {<<"tick", "tick">>, <<"\"", "\"">>, <<"'", "'">>, <<"[", "]">>}
End == "end of the text"

\* An identifier is a name, within quotes or not, after blanks or a qualifier and
\* a dot.  Names that hold a quote, which is written twice, a dot or a blank are
\* left out.
Written(raw, name) ==
    \E i \in DOMAIN raw, j \in DOMAIN raw, quoted \in {0, 1} :
      /\ i <= j /\ j + quoted = Len(raw) /\ name = SubSeq(raw, i, j)
      /\ \A k \in i..j : raw[k] \notin Blank \cup {".", "tick", "\"", "'", "[", "]"}
      /\ quoted = 1 => i > 1 /\ <<raw[i - 1], raw[j + 1]>> \in Quotes
      /\ \E p \in 0..(i - quoted - 1) :
           /\ p > 0 => raw[p] = "."
           /\ \A k \in (p + 1)..(i - quoted - 1) : raw[k] \in Blank

VARIABLES
    sql,    \* the text
    scan    \* where the scanner is, and what it holds

NoTable == <<>>

\* A value, in the dump as in a row: its text, and whether it is a string.
Text(s) == [quoted |-> TRUE, text |-> s]
Bare(s) == [quoted |-> FALSE, text |-> s]
Null == Bare(<<"NULL">>)

-----------------------------------------------------------------------------
(* What a dump holds, and how mysqldump and pg_dump print it. *)

\* A tuple has the head of its statement, and whether it is the first one of it.
Table(t) == NameOf[TableText[t.head]]
Columns(t) == [k \in DOMAIN ColumnsText[t.head] |-> NameOf[ColumnsText[t.head][k]]]
TablesOf(d) == {Table(d.tuples[n]) : n \in DOMAIN d.tuples}
TuplesOf(d, table) == {n \in DOMAIN d.tuples : Table(d.tuples[n]) = table}

\* The table to import: the one that is named, or else the only one.
Wanted(d, sqlTable) == IF sqlTable # NoTable THEN NameOf[sqlTable] ELSE CHOOSE t \in TablesOf(d) : TRUE

\* The row a tuple is.  Of two columns of one name the last one counts.
LastOf(columns, c) == Max({k \in DOMAIN columns : columns[k] = c})
Named(t) ==
    LET columns == Columns(t) IN
    [c \in {columns[k] : k \in DOMAIN columns} |-> t.values[LastOf(columns, c)].is]

\* What a list of numbers must be to be that set in its order.
Lists(list, S) ==
    /\ {list[i] : i \in DOMAIN list} = S
    /\ \A i, k \in DOMAIN list : i < k => list[i] < list[k]

\* Tokens from one place up to another one are all in a set.
Only(d, S, i, j) == \A k \in i..(j - 1) : k \in DOMAIN d.text /\ d.text[k] \in S
Without(d, S, i, j) == \A k \in i..(j - 1) : k \in DOMAIN d.text /\ d.text[k] \notin S
Stands(d, i, s) ==
    \A k \in DOMAIN s : i + k - 1 \in DOMAIN d.text /\ d.text[i + k - 1] = s[k]

\* What the tool makes of a character of a string.  pg_dump doubles quotes only,
\* and its strings that hold a backslash are left out.
Escaped(tool, c) ==
    CASE c = "'" -> IF tool = "mysqldump" THEN <<"\\", "'">> ELSE <<"'", "'">>
      [] c = "\\" /\ tool = "mysqldump" -> <<"\\", "\\">>
      [] c = "newline" /\ tool = "mysqldump" -> <<"\\", "n">>
      [] OTHER -> <<c>>

\* A value stands from one place up to another one, and the characters of a string
\* at the places it lists, the last of which is that of its closing quote.
StringStands(d, v) ==
    LET s == v.is.text IN
    /\ v.at \in Seq(Nat) /\ Len(v.at) = Len(s) + 1
    /\ Stands(d, v.from, <<"'">>) /\ v.at[1] = v.from + 1
    /\ Stands(d, v.at[Len(s) + 1], <<"'">>) /\ v.to = v.at[Len(s) + 1] + 1
    /\ \A c \in DOMAIN s :
         /\ Stands(d, v.at[c], Escaped(d.tool, s[c])) /\ s[c] # End
         /\ v.at[c + 1] = v.at[c] + Len(Escaped(d.tool, s[c]))
         /\ s[c] = "\\" => d.tool = "mysqldump"
BareStands(d, v) ==
    LET s == v.is.text IN
    /\ s # <<>> /\ Stands(d, v.from, s) /\ v.to = v.from + Len(s)
    /\ \A c \in DOMAIN s : s[c] \notin Blank \cup {"comma", ")", "'", End}
ValueStands(d, v) ==
    /\ v.from \in Nat \ {0} /\ v.to \in Nat
    /\ v.is \in [quoted : BOOLEAN, text : Seq(Range(v.is.text))]
    /\ IF v.is.quoted THEN StringStands(d, v) ELSE BareStands(d, v)

\* The place of the tuple's closing parenthesis, and the one behind its statement.
Closing(t) == t.values[Len(t.values)].to
Behind(d, n) == IF n = 0 THEN 1 ELSE Closing(d.tuples[n]) + 2

TupleStands(d, t) ==
    LET vs == t.values IN
    /\ t.from \in Nat \ {0} /\ Stands(d, t.from, <<"(">>)
    /\ vs \in Seq(Range(vs)) /\ vs # <<>>
    /\ ColumnsText[t.head] # <<>> => Len(vs) = Len(ColumnsText[t.head])
    /\ \A k \in DOMAIN vs : ValueStands(d, vs[k])
    /\ vs[1].from > t.from /\ Only(d, Blank, t.from + 1, vs[1].from)
    /\ \A k \in 1..(Len(vs) - 1) :
         /\ Stands(d, vs[k].to, <<"comma">>)
         /\ vs[k + 1].from > vs[k].to /\ Only(d, Blank, vs[k].to + 1, vs[k + 1].from)
    /\ Stands(d, Closing(t), <<")">>)

\* The first tuple of a statement stands behind a head and whatever else the tool
\* writes between statements; the next ones follow, and a semicolon the last one.
StatementOpens(d, n) ==
    \E h \in DOMAIN d.text :
      /\ Behind(d, n - 1) <= h /\ h < d.tuples[n].from
      /\ Without(d, Heads \cup {End}, Behind(d, n - 1), h)
      /\ d.text[h] = d.tuples[n].head /\ Only(d, Blank, h + 1, d.tuples[n].from)
StatementGoesOn(d, n) ==
    /\ n > 1 /\ d.tuples[n].head = d.tuples[n - 1].head
    /\ d.tuples[n].from > Closing(d.tuples[n - 1])
    /\ Only(d, Blank \cup {"comma"}, Closing(d.tuples[n - 1]) + 1, d.tuples[n].from)
StatementCloses(d, n) == Stands(d, Closing(d.tuples[n]) + 1, <<";">>)

\* Either all statements for a table list their columns, or none does.
Printed(d) ==
    /\ d.text \in Seq(Range(d.text)) /\ d.tuples \in Seq(Range(d.tuples))
    /\ \A n \in DOMAIN d.tuples :
         /\ d.tuples[n].head \in Heads /\ TupleStands(d, d.tuples[n])
         /\ IF d.tuples[n].first THEN StatementOpens(d, n) ELSE StatementGoesOn(d, n)
         /\ n = Len(d.tuples) \/ d.tuples[n + 1].first => StatementCloses(d, n)
    /\ Without(d, Heads \cup {End}, Behind(d, Len(d.tuples)), Len(d.text) + 1)
    /\ \A m, n \in DOMAIN d.tuples :
         Table(d.tuples[m]) = Table(d.tuples[n]) =>
           (ColumnsText[d.tuples[m].head] = <<>> <=> ColumnsText[d.tuples[n].head] = <<>>)

ASSUME SqlDumpAssumption ==
    /\ DOMAIN TableText = Heads /\ DOMAIN ColumnsText = Heads
    /\ \A h \in Heads :
         /\ TableText[h] \in DOMAIN NameOf
         /\ ColumnsText[h] \in Seq(DOMAIN NameOf)
    /\ \A raw \in DOMAIN NameOf : raw \in Seq(Range(raw)) /\ Written(raw, NameOf[raw])
    /\ Heads \cap (Blank \cup {"(", ")", "comma", ";", "'", "\\", End}) = {}
    /\ \A d \in DOMAIN Dumps : Printed(Dumps[d])

-----------------------------------------------------------------------------
(* Identifiers. *)

Trimmed(s) ==
    LET kept == {k \in DOMAIN s : s[k] \notin Blank}
    IN  IF kept = {} THEN <<>> ELSE SubSeq(s, Min(kept), Max(kept))

\* The segment after the last dot, without one pair of quotes.
unquoteIdent(raw) ==
    LET dots == {k \in DOMAIN raw : raw[k] = "."}
        ident == Trimmed(SubSeq(raw, Max(dots \cup {0}) + 1, Len(raw)))
    IN  IF Len(ident) > 1 /\ <<ident[1], ident[Len(ident)]>> \in Quotes
        THEN SubSeq(ident, 2, Len(ident) - 1) ELSE ident

\* An empty name is left out.
splitColumns(texts) ==
    LET kept == {k \in DOMAIN texts : unquoteIdent(texts[k]) # <<>>}
        Nth(n) == CHOOSE k \in kept : Cardinality({m \in kept : m <= k}) = n
    IN  [n \in 1..Cardinality(kept) |-> unquoteIdent(texts[Nth(n)])]

\* What the two groups of INSERT_PREFIX match.
TableOf == [h \in Heads |-> unquoteIdent(TableText[h])]
ColumnsOf == [h \in Heads |-> splitColumns(ColumnsText[h])]

-----------------------------------------------------------------------------
(* The scanner. *)

\* At the start of a scan.  The target is the table of the row pass.
FreshScan(target) ==
    [mode |-> "exec", i |-> 1, names |-> <<>>, target |-> target, head |-> End,
     had |-> FALSE, values |-> <<>>, out |-> <<>>, rows |-> <<>>, verdict |-> "none"]

Token(k) == IF k \in DOMAIN sql THEN sql[k] ELSE End

\* The first position from i on whose token is in S, or is not.
FirstIn(i, S) == CHOOSE k \in i..(Len(sql) + 2) :
    Token(k) \in S \cup {End} /\ \A j \in i..(k - 1) : Token(j) \notin S \cup {End}
FirstNotIn(i, S) == CHOOSE k \in i..(Len(sql) + 2) :
    Token(k) \notin S /\ \A j \in i..(k - 1) : Token(j) \in S

Goto(mode, i) == [scan EXCEPT !.mode = mode, !.i = i]
Refused == [scan EXCEPT !.mode = "done", !.rows = <<>>, !.verdict = "refused"]
Taking(v, i) == [Goto("delimiter", i) EXCEPT !.values = Append(@, v), !.out = <<>>]

\* The table extractSqlTable settles on after the first scan.
ChosenTable(sqlTable) ==
    IF sqlTable # NoTable THEN unquoteIdent(sqlTable) ELSE IF Len(scan.names) = 1 THEN scan.names[1] ELSE NoTable

\* No INSERT is left: choose the table and scan again, or return the rows.
EndOfScan(sqlTable) ==
    scan' = IF scan.target = NoTable
            THEN IF ~Contains(scan.names, ChosenTable(sqlTable)) THEN Refused
                 ELSE FreshScan(ChosenTable(sqlTable))
            ELSE IF scan.had THEN [scan EXCEPT !.mode = "done", !.verdict = "rows"] ELSE Refused

\* INSERT_PREFIX.exec, from lastIndex on.
NextInsert(sqlTable) ==
    /\ scan.mode = "exec"
    /\ LET k == FirstIn(scan.i, Heads) IN
       IF Token(k) = End THEN EndOfScan(sqlTable)
       ELSE LET table == TableOf[sql[k]] IN
            scan' = [Goto("tuples", k + 1) EXCEPT
                       !.head = sql[k],
                       !.names = IF Contains(@, table) THEN @ ELSE Append(@, table),
                       !.had = IF table = scan.target THEN ColumnsOf[sql[k]] # <<>> ELSE @]

\* The next tuple of the statement, or its end.
NextTuple ==
    /\ scan.mode = "tuples"
    /\ LET k == FirstNotIn(scan.i, Blank \cup {"comma"}) IN
       scan' = CASE Token(k) = ";" -> Goto("exec", k + 1)
                 [] Token(k) = "(" -> [Goto("tuple", k + 1) EXCEPT !.values = <<>>]
                 [] OTHER -> Goto("exec", k)

\* A column whose value is missing is null.
RowOf(columns, values) ==
    [c \in {columns[k] : k \in DOMAIN columns} |->
       LET k == LastOf(columns, c)
       IN  IF k <= Len(values) THEN values[k] ELSE Null]

\* The tuple is complete.  A row of the target is kept, unless it is the one past
\* the limit.
CloseTuple(i, limit) ==
    IF TableOf[scan.head] # scan.target \/ ~scan.had THEN Goto("tuples", i)
    ELSE IF Len(scan.rows) >= limit
    THEN [scan EXCEPT !.mode = "done", !.rows = <<>>, !.verdict = "exceeded"]
    ELSE [Goto("tuples", i) EXCEPT !.rows = Append(@, RowOf(ColumnsOf[scan.head], scan.values))]

\* A value of a tuple: it opens a string, or lasts up to the next delimiter.
NextValue(limit) ==
    /\ scan.mode = "tuple"
    /\ LET k == FirstNotIn(scan.i, Blank)
           next == FirstIn(k, {"comma", ")"})
       IN  scan' = CASE Token(k) = End -> Refused
                     [] Token(k) = ")" -> CloseTuple(k + 1, limit)
                     [] Token(k) = "'" -> Goto("string", k + 1)
                     [] OTHER -> Taking(Bare(Trimmed(SubSeq(sql, k, next - 1))), next)

Delimiter(limit) ==
    /\ scan.mode = "delimiter"
    /\ LET k == FirstNotIn(scan.i, Blank) IN
       scan' = CASE Token(k) = "comma" -> Goto("tuple", k + 1)
                 [] Token(k) = ")" -> CloseTuple(k + 1, limit)
                 [] OTHER -> Refused

Unescaped(c) == IF c = "n" THEN "newline" ELSE c

\* Slip: a doubled quote closes the string.
ReadStringSimple ==
    /\ scan.mode = "string"
    /\ LET c == Token(scan.i)
           next == Token(scan.i + 1)
           Adds(d, n) == [scan EXCEPT !.out = Append(@, d), !.i = @ + n]
       IN  scan' = CASE c = End -> Refused
                     [] c = "\\" /\ next = End -> Goto("string", scan.i + 2)
                     [] c = "\\" /\ next # End -> Adds(Unescaped(next), 2)
                     [] c = "'" -> Taking(Text(scan.out), scan.i + 1)
                     [] OTHER -> Adds(c, 1)

\* readSqlString: backslash escapes and doubled quotes, whatever tool wrote them.
ReadString ==
    /\ scan.mode = "string"
    /\ LET c == Token(scan.i)
           next == Token(scan.i + 1)
           Adds(d, n) == [scan EXCEPT !.out = Append(@, d), !.i = @ + n]
       IN  scan' = CASE c = End -> Refused
                     [] c = "\\" /\ next = End -> Goto("string", scan.i + 2)
                     [] c = "\\" /\ next # End -> Adds(Unescaped(next), 2)
                     [] c = "'" /\ next = "'" -> Adds("'", 2)
                     [] c = "'" /\ next # "'" -> Taking(Text(scan.out), scan.i + 1)
                     [] OTHER -> Adds(c, 1)

ScanStep(sqlTable, limit) ==
    /\ \/ NextInsert(sqlTable) \/ NextTuple \/ NextValue(limit) \/ Delimiter(limit)
       \/ ReadString
    /\ UNCHANGED sql

=============================================================================
