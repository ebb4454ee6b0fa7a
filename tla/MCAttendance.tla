--------------------------- MODULE MCAttendance ---------------------------
(* Instances of Attendance for TLC. *)
EXTENDS Attendance, TLC

CONSTANTS a, b
===========================================================================
