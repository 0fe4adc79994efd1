------------------------------ MODULE MCSystem ------------------------------
(***************************************************************************)
(* A program's commands for TLC: a request for a report; a request to read *)
(* pins, whose bitmaps are a backslash and a newline; a rule that puts a   *)
(* motor below zero, where its report no longer fits.                      *)
(***************************************************************************)
EXTENDS SystemProperties

MCCommands ==
  { <<MOTOR_REQUEST_REPORT>>, <<READ_REQUEST, DELIMITER, NEWLINE>>,
    <<MOTOR_TARE_IF, 0, 0, -1, 1, 1>> }
=============================================================================
