----------------------------- MODULE RouteParser -----------------------------
(***************************************************************************)
(* What a RouteParser makes of a pattern (router/src/parser.ts): whether   *)
(* it compiles, which paths it matches and what it binds to its variables. *)
(*                                                                         *)
(* A path is a sequence of words.  A pattern is a sequence of parts, and   *)
(* rooted when it starts with a slash.  A part is a text, a variable, a    *)
(* "star", or "bad", which is no regular expression.  The text between     *)
(* variables goes into the regular expression as it is, so that it is one  *)
(* like the source of a variable: a part has the texts it stands for, the  *)
(* groups it opens ("/a" none, "(a|b)" one) and says whether the first of  *)
(* them is "whole", all of the part, as in "((a)b)" but not in "(a)-(b)".  *)
(* The texts of neighbours are matched one after the other: an operator    *)
(* does not reach beyond its part, but for a star behind a slash.          *)
(***************************************************************************)
EXTENDS FiniteSetsExt, SequencesExt, Naturals

Inner == <<"inner">>        \* what other groups capture than a whole one
Absent == <<"undefined">>   \* what is read behind the last group

IsVariable(part) == part.kind = "variable"

\* A star behind a slash repeats the slash; alone it stands for everything.
Compiles(pattern) ==
    IF pattern.rooted
    THEN \A i \in DOMAIN pattern.parts : pattern.parts[i].kind # "bad"
    ELSE Len(pattern.parts) = 1 /\ pattern.parts[1].kind = "star"

Admits(pattern, part, text) ==
    \/ part.kind \in {"text", "variable"} /\ text \in part.texts
    \/ part.kind = "star" /\ (pattern.rooted => text = <<>>)

Text(path, cut, i) == SubSeq(path, cut[i - 1] + 1, cut[i])

\* The ways of cutting a path into texts that the parts admit.
Cuts(pattern, path) ==
    LET n == Len(pattern.parts)
    IN  {cut \in [0..n -> 0..Len(path)] :
            /\ cut[0] = 0 /\ cut[n] = Len(path)
            /\ \A i \in 1..n : /\ cut[i - 1] <= cut[i]
                               /\ Admits(pattern, pattern.parts[i], Text(path, cut, i))}

Matches(pattern, path) == Compiles(pattern) /\ Cuts(pattern, path) # {}

\* Regular expressions are greedy: the first parts take as much as they can.
Greedy(pattern, path) ==
    CHOOSE cut \in Cuts(pattern, path) :
        \A other \in Cuts(pattern, path) \ {cut} :
            \E i \in DOMAIN cut : /\ \A j \in 0..i - 1 : cut[j] = other[j]
                                  /\ cut[i] > other[i]

Variables(pattern) == {i \in DOMAIN pattern.parts : IsVariable(pattern.parts[i])}
Names(pattern) == {pattern.parts[i].name : i \in Variables(pattern)}

\* A name used twice is set twice.
PartOf(pattern, name) == Max({i \in Variables(pattern) : pattern.parts[i].name = name})

\* vIndex counts variables, a regular expression the groups of all its parts.
Index(pattern, i) == Cardinality({j \in Variables(pattern) : j <= i})

Groups(pattern) == UNION {{i} \X (1..pattern.parts[i].groups) : i \in DOMAIN pattern.parts}

Opened(pattern, group) ==
    {other \in Groups(pattern) : \/ other[1] < group[1]
                                 \/ other[1] = group[1] /\ other[2] <= group[2]}

Number(pattern, group) == Cardinality(Opened(pattern, group))

GroupCapture(pattern, path, group) ==
    IF group[2] = 1 /\ pattern.parts[group[1]].whole
    THEN Text(path, Greedy(pattern, path), group[1])
    ELSE Inner

Capture(pattern, path, k) ==
    IF \E group \in Groups(pattern) : Number(pattern, group) = k
    THEN GroupCapture(pattern, path,
                      CHOOSE group \in Groups(pattern) : Number(pattern, group) = k)
    ELSE Absent

\* getParams reads the captures at the indices of the variables.
Params(pattern, path) ==
    [name \in Names(pattern) |-> Capture(pattern, path, Index(pattern, PartOf(pattern, name)))]

\* What a parameter should be: a text that its own part takes of the path.
OwnTexts(pattern, path, name) == {Text(path, cut, PartOf(pattern, name)) : cut \in Cuts(pattern, path)}

\* Its index is right if it has a group of its own around all of it, and what
\* stands before it opens one group for each variable and no other.
IsAligned(pattern, name) ==
    LET p == PartOf(pattern, name)
    IN  /\ pattern.parts[p].groups > 0 /\ pattern.parts[p].whole
        /\ \A i \in 1..p - 1 :
              pattern.parts[i].groups = IF IsVariable(pattern.parts[i]) THEN 1 ELSE 0
=============================================================================
