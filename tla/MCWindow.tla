------------------------------ MODULE MCWindow ------------------------------
(* Instances of Window for TLC. *)
EXTENDS Window

Bounds(p, t, o, r, f) ==
  [paths |-> p, takes |-> t, orphans |-> o, renamed |-> r, faults |-> f]

\* Two imports; a recording the user renames; two takes; a take that cannot be
\* written or has no folder, renamed; one whose reads fail; one import and one
\* take together; a take beside a recording that the session found unnamed, with
\* audio failing.
AllSessions ==
  {Bounds(2, 0, 0, 0, {}), Bounds(1, 0, 0, 1, {}), Bounds(0, 2, 0, 0, {}),
   Bounds(0, 1, 0, 1, {"mkdir", "write"}), Bounds(0, 1, 0, 0, {"read"}),
   Bounds(1, 1, 0, 0, {}), Bounds(0, 1, 1, 0, {"context"})}
OneImport == {Bounds(1, 0, 0, 0, {})}
OneTake == {Bounds(0, 1, 0, 0, {})}
=============================================================================
