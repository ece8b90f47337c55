----------------------------- MODULE MCStrings -----------------------------
(* Two String objects, texts of at most three bytes: one letter and NUL. *)
EXTENDS Strings, TLC

StringsSymmetry == Permutations(Strings)
====
