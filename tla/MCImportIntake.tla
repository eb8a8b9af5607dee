--------------------------- MODULE MCImportIntake ---------------------------
(* Instances of ImportIntake for TLC: every text file of up to three items, and *)
(* dumps whose values hold whatever could mislead the scanner.                  *)
EXTENDS ImportIntake, TLC

\* mysqldump writes `t`, pg_dump public."u"; an operator may write either.
Bareword(name) == <<name>>
Ticked(name) == <<"tick", name, "tick">>
Qualified(name) == <<"public", ".", "\"", name, "\"">>
MCNameOf ==
    (Bareword("t") :> <<"t">>) @@ (Ticked("t") :> <<"t">>)
      @@ (Bareword("u") :> <<"u">>) @@ (Qualified("u") :> <<"u">>) @@ (Bareword("v") :> <<"v">>)
      @@ (Ticked("a") :> <<"a">>) @@ (<<"\"", "a", "\"">> :> <<"a">>)
      @@ (<<" ">> \o Ticked("b") :> <<"b">>)
MCTableText ==
    ("t(a)" :> Ticked("t")) @@ ("t(a,b)" :> Ticked("t")) @@ ("u(a)" :> Qualified("u"))
      @@ ("t" :> Ticked("t"))
MCColumnsText ==
    ("t(a)" :> <<Ticked("a")>>) @@ ("t(a,b)" :> <<Ticked("a"), <<" ">> \o Ticked("b")>>)
      @@ ("u(a)" :> <<<<"\"", "a", "\"">>>>) @@ ("t" :> <<>>)
MCTables == {NoTable, Ticked("t"), Bareword("u"), Bareword("v")}

Characters == {"x", "'", "\\", "(", ")", "comma", ";", "newline", "t(a)"}
Strings == {Text(s) : s \in SeqOf({"x", "'", "\\", ")", "newline"}, 2) \cup {<<c>> : c \in Characters}}

File(label, size) ==
    [label |-> label, size |-> size, items |-> <<"row">>, whole |-> TRUE, bad |-> 0,
     array |-> TRUE, dump |-> <<"none", <<>>>>]

Texts(label) ==
    {[File(label, 1) EXCEPT !.items = items] : items \in SeqOf({"row", "other"}, 2) \cup {<<"row", "other", "row">>, <<"row", "row", "row">>}}
      \cup {[File(label, 1) EXCEPT !.items = items, !.whole = FALSE, !.bad = bad] :
              items \in {<<"row", "row", "row">>}, bad \in 0..3}
      \cup {File(label, 2), File(label, 3)}

\* The printers: what has been printed is a text, and what it holds at its places.
AddCharacter(tool, v, c) ==
    [v EXCEPT !.text = @ \o Escaped(tool, c), !.at = Append(@, Len(v.text) + Len(Escaped(tool, c)) + 1)]

AddValue(tool, d, value) ==
    LET separator == IF d.values = <<>> THEN <<>> ELSE IF tool = "mysqldump" THEN <<"comma">> ELSE <<"comma", " ">>
        before == d.text \o separator
        start == [text |-> Append(before, "'"), at |-> <<Len(before) + 2>>]
        string == FoldLeft(LAMBDA v, c : AddCharacter(tool, v, c), start, value.text)
        text == IF value.quoted THEN Append(string.text, "'") ELSE before \o value.text
    IN  [d EXCEPT !.text = text,
                  !.values = Append(@, [is |-> value, from |-> Len(before) + 1, to |-> Len(text) + 1,
                                        at |-> IF value.quoted THEN string.at ELSE <<>>])]

AddTuple(tool, head, d, values) ==
    LET before == IF d.tuples # <<>> /\ ~d.first THEN Append(d.text, "comma") ELSE d.text
        inside == FoldLeft(LAMBDA e, v : AddValue(tool, e, v),
                           [text |-> Append(before, "("), values |-> <<>>], values)
    IN  [text |-> Append(inside.text, ")"), first |-> FALSE,
         tuples |-> Append(d.tuples, [head |-> head, first |-> d.first, from |-> Len(before) + 1,
                                      values |-> inside.values])]

AddStatement(tool, d, statement) ==
    LET tuples == FoldLeft(LAMBDA e, values : AddTuple(tool, statement.head, e, values),
                           [d EXCEPT !.text = @ \o <<statement.head, " ">>, !.first = TRUE],
                           statement.tuples)
    IN  [tuples EXCEPT !.text = @ \o <<";", "newline">>]

PrintOut(tool, statements) ==
    LET d == FoldLeft(LAMBDA e, statement : AddStatement(tool, e, statement),
                      [text |-> <<"x", "'", ";", "newline">>, tuples |-> <<>>, first |-> TRUE], statements)
    IN  [tool |-> tool, text |-> d.text, tuples |-> d.tuples]
Insert(head, tuples) == [head |-> head, tuples |-> tuples]

X == Text(<<"x">>)
Tricky == Text(<<"'", ")">>)
OneValue(v) == <<Insert("t(a)", <<<<v>>>>)>>

\* What is printed: one value of each kind, and statements for several tables.
MCPrintouts ==
    {<<"mysqldump", OneValue(v)>> : v \in Strings \cup {Null, Bare(<<"1">>)}}
      \cup {<<"pg_dump", OneValue(v)>> : v \in {w \in Strings : \A i \in DOMAIN w.text : w.text[i] # "\\"}}
      \cup {"mysqldump", "pg_dump"} \X
              {<<>>,
               <<Insert("t", <<<<X>>>>)>>,
               <<Insert("t(a,b)", <<<<Null, Tricky>>, <<Bare(<<"1">>), X>>>>)>>,
               <<Insert("t(a)", <<<<X>>, <<Tricky>>, <<X>>>>)>>,
               <<Insert("t(a)", <<<<X>>>>), Insert("u(a)", <<<<Tricky>>, <<X>>>>), Insert("t(a,b)", <<<<X, Null>>>>)>>,
               <<Insert("u(a)", <<<<Null>>>>), Insert("t", <<<<X>>>>)>>}
MCDumps == [p \in MCPrintouts \cup {<<"none", <<>>>>} |-> PrintOut(p[1], p[2])]

MCFiles ==
    UNION {Texts(label) : label \in {"csv", "json", "xlsx"}}
      \cup {[File("json", 1) EXCEPT !.array = FALSE], File("plain", 1), File("zip", 1)}
      \cup {[File("sql", 1) EXCEPT !.items = <<>>, !.dump = p] : p \in MCPrintouts}

\* At a URL a file may be followed by another one, and so may the reads: fewer files,
\* of all kinds.
MCObjects ==
    {f \in MCFiles :
       \/ f.label \in {"csv", "json", "xlsx"} /\ f.items \in {<<"row", "row">>, <<"row", "row", "row">>}
       \/ f.label \in {"csv", "json", "xlsx"} /\ (f.size > 1 \/ ~f.array)
       \/ f.dump[2] = OneValue(Tricky) \/ Len(f.dump[2]) > 1}

Ceilings(shared, own) == ("shared" :> shared) @@ ("own" :> own)
MCRows == Ceilings(1, 2)
MCBytes == Ceilings(1, 2)

=============================================================================
