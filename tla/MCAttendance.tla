----------------------------- MODULE MCAttendance -----------------------------
(* Attendance for TLC: two students, two teachers, two handlers. *)
EXTENDS Attendance, TLC

CONSTANTS ann, bob, tim, una, h1, h2

\* One frame shows both students: two handlers race on either of them.
MCFrame == {<<bob, ann>>}
MCSymmetry == Permutations({h1, h2}) \cup Permutations({tim, una})
===============================================================================
