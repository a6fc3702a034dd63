------------------------------ MODULE LogFilter -----------------------------
(***************************************************************************)
(* Which messages src/xLogMessage.c lets through, and where the callbacks   *)
(* of src/psuservice.c put them.  The module mask is left out: the service  *)
(* never changes it from "all modules".  So is the lock around the levels:  *)
(* one thread takes it, and its signal handler logs nothing.                *)
(***************************************************************************)
EXTENDS Integers

LM_SYSTEM == 0
LM_ERROR == 65535
LM_WARNING == 65534

DEBUG_CONSOLE == 16
DEBUG_FILE == 1

(* the levels shown: the two limits may come in either order                *)
SetLogLevel_AsGiven(aMinLevel, aMaxLevel) == aMinLevel .. aMaxLevel
SetLogLevel(aMinLevel, aMaxLevel) ==
  IF aMinLevel < aMaxLevel THEN aMinLevel .. aMaxLevel
                           ELSE aMaxLevel .. aMinLevel

(* _log: a file without a name cannot be opened                             *)
Log(fn, flag) ==
  LET set(bit) == (flag \div bit) % 2 = 1
  IN {place \in {"console", "file"} :
        /\ place = "console" => set(DEBUG_CONSOLE)
        /\ place = "file" => set(DEBUG_FILE) /\ fn # ""}

LogMessage(Level, levels, fn, flag) ==
  IF Level \in {LM_SYSTEM, LM_ERROR, LM_WARNING} \cup levels
    THEN Log(fn, flag) ELSE {}

(* errors and warnings are put everywhere, whatever is configured           *)
LogErrorMessage(fn) == Log(fn, DEBUG_CONSOLE + DEBUG_FILE)
=============================================================================
