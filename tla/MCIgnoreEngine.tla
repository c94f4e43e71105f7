---------------------------- MODULE MCIgnoreEngine ----------------------------
(* IgnoreEngine for TLC: a tree of four files and three directories. *)
EXTENDS IgnoreEngine

(* Patterns that exclude and re-include, with names, "*" and "**", below each other. *)
Pattern(components, slash, directoryOnly, negative) ==
  [components |-> components, hasSlash |-> slash,
   directoryOnly |-> directoryOnly, negative |-> negative]
GitPatterns ==
  {Pattern(<<"b">>, FALSE, TRUE, FALSE), Pattern(<<"b">>, FALSE, FALSE, TRUE),
   Pattern(<<"*", "b">>, TRUE, FALSE, FALSE), Pattern(<<"a", "**">>, TRUE, FALSE, FALSE),
   Pattern(<<"**", "b">>, TRUE, FALSE, TRUE), Pattern(<<"**", "a", "**">>, TRUE, FALSE, FALSE)}
LinterPatterns ==
  {Pattern(<<"a", "b">>, TRUE, FALSE, FALSE), Pattern(<<"b">>, FALSE, FALSE, TRUE)}
BuiltIns == <<Pattern(<<"v">>, FALSE, TRUE, FALSE)>>
Tree == {<<"b">>, <<"a", "a">>, <<"a", "b", "b">>, <<"a", "v", "b">>}
Dirs == {<<>>, <<"a">>, <<"a", "b">>}
=============================================================================
