----------------------------- MODULE Conversion ------------------------------
(***************************************************************************)
(* How jQuery.ajax() makes the data of the type that is wanted from a      *)
(* response: ajaxHandleResponses() completes the list of data types, and   *)
(* the loop of ajaxConvert() goes from each type to the next, directly or  *)
(* by one type between.  A step is one turn of the loop.                   *)
(***************************************************************************)
EXTENDS Naturals, Sequences, SequencesExt

CONSTANTS
  ConverterMaps,  \* the converters: functions from <<from, to>>, where from
                  \* may be "*", to "no", "yes" or "same" (the value is one
                  \* of the other type already: true in the code)
  Wanted,         \* the lists of data types that are asked for
  ContentTypes    \* the types the server says it sends, "none" for an unknown one

VARIABLE s
\* is: the type of the value; fits: each converter was given what it takes.

\* The transport gives its response as text.
DataTypes(wanted, content) ==
  LET rest == SelectInSeq(wanted, LAMBDA y : y # "*")
      fixed == IF rest = 0 THEN <<>> ELSE SubSeq(wanted, rest, Len(wanted))
      typed == IF wanted # fixed /\ content # "none" THEN <<content>> \o fixed ELSE fixed
  IN  IF typed # <<>> /\ Head(typed) = "text" THEN typed ELSE <<"text">> \o typed

Converter(c, from, to) == IF <<from, to>> \in DOMAIN c THEN c[<<from, to>>] ELSE "no"
Direct(c, from, to) ==
  IF Converter(c, from, to) # "no" THEN <<from, to>> ELSE <<"*", to>>
Has(c, step) == Converter(c, step[1], step[2]) # "no"
Same(c, step) == Converter(c, step[1], step[2]) = "same"

\* The converters that end in the type to, and whose input can be made of from.
Between(c, from, to) ==
  {p \in DOMAIN c : p[2] = to /\ Has(c, p) /\ Has(c, Direct(c, from, p[1]))}

Starts ==
  {[c |-> c, prev |-> "text", types |-> Tail(DataTypes(wanted, content)),
    goal |-> DataTypes(wanted, content), is |-> "text", fits |-> TRUE, state |-> "converting"]
     : c \in ConverterMaps, wanted \in Wanted, content \in ContentTypes}
Init == s \in Starts

\* The reference: a value is of every type that equivalences lead to from its own.
Leads(c, from, T) == \A p \in DOMAIN c : Same(c, Direct(c, from, p[2])) => p[2] \in T
CountsAs(c, from, to) ==
  \/ from = to
  \/ \A T \in SUBSET {p[2] : p \in DOMAIN c} :
       (\A x \in T \cup {from} : Leads(c, x, T)) => to \in T

\* A value of type "is" is given to the converter.
Takes(c, step, is) == step[1] = "*" \/ CountsAs(c, is, step[1])

\* The converter of the step is applied, if it is not an equivalence; the loop
\* goes on with the type to and then the others.
Apply(step, to, types) ==
  IF Same(s.c, step)
  THEN s' = [s EXCEPT !.prev = to, !.types = types]
  ELSE \/ s' = [s EXCEPT !.prev = to, !.types = types, !.is = step[2],
                         !.fits = @ /\ Takes(s.c, step, s.is)]
       \/ s' = [s EXCEPT !.state = "parsererror", !.fits = @ /\ Takes(s.c, step, s.is)]

\* One turn, in which By converts by the converter p and one before it.
Turn(By(_, _, _, _)) ==
  LET c == s.c
      to == Head(s.types)
      rest == Tail(s.types)
      direct == Direct(c, s.prev, to)
  IN  /\ s.state = "converting" /\ s.types # <<>>
      /\ CASE to \in {"*", s.prev} -> s' = [s EXCEPT !.types = rest]
           [] to \notin {"*", s.prev} /\ Has(c, direct) -> Apply(direct, to, rest)
           [] OTHER ->
                \/ /\ Between(c, s.prev, to) = {}
                   /\ s' = [s EXCEPT !.state = "no conversion"]
                \/ \E p \in Between(c, s.prev, to) : By(p, Direct(c, s.prev, p[1]), to, rest)

\* Faulty: the second of the two converters is left out.
ConvertSkipsSecond == Turn(LAMBDA p, first, to, rest : Apply(first, p[1], rest))

\* One of two converters that is an equivalence is passed over.
Via(p, first, to, rest) ==
  CASE Same(s.c, first) -> Apply(p, to, rest)
    [] ~Same(s.c, first) /\ Same(s.c, p) -> Apply(first, to, rest)
    [] OTHER -> Apply(first, p[1], <<p[2]>> \o rest)

Convert == Turn(Via)

Succeed ==
  /\ s.state = "converting" /\ s.types = <<>>
  /\ s' = [s EXCEPT !.state = "success"]

Next == Convert \/ Succeed
Spec == Init /\ [][Next]_s

-----------------------------------------------------------------------------
(* Properties.                                                               *)

\* Every converter is given a value of the type it takes.
InputsFit == s.fits

\* A step of the list can be made directly or by one type between.
Possible(c, from, to) ==
  \/ from = to \/ Has(c, <<from, to>>) \/ Has(c, <<"*", to>>)
  \/ \E p \in DOMAIN c : /\ p[2] = to /\ Has(c, p)
                         /\ Has(c, <<from, p[1]>>) \/ Has(c, <<"*", p[1]>>)

\* The value is of the last type that was asked for by name; and "no conversion"
\* is said only where a step of the list is not possible.
RightType ==
  /\ s.state = "success" =>
       \E i \in 1 .. Len(s.goal) :
         /\ s.goal[i] # "*" /\ \A j \in i + 1 .. Len(s.goal) : s.goal[j] = "*"
         /\ CountsAs(s.c, s.is, s.goal[i])
  /\ s.state = "no conversion" =>
       \E i \in 1 .. Len(s.goal) - 1 : ~Possible(s.c, s.goal[i], s.goal[i + 1])

\* The data of a response gets converted step by step to the type wanted.
ConvertsRight == InputsFit /\ RightType
=============================================================================
