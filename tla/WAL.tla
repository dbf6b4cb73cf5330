---------------------------------- MODULE WAL ----------------------------------
(***************************************************************************)
(* The write-ahead log file of src/wal.cpp: one fstream that is read and   *)
(* written through the same object.  What decides its behaviour is the     *)
(* error state of that stream.  The constructor reads records until a read *)
(* fails and leaves the failure set, and a C++ stream in that state        *)
(* ignores seekp, seekg, write and flush without any report.  readAll      *)
(* clears the state, but only after its seekg, and then reads up to the    *)
(* next failure.                                                           *)
(***************************************************************************)
EXTENDS Naturals, Sequences

VARIABLES file,       \* the records in the file
          buffer,     \* records written to the stream, not yet flushed
          pos,        \* records before the read position
          failed,     \* eofbit/failbit of file_
          nextLsn     \* WAL::nextLsn_

walVars == <<file, buffer, pos, failed, nextLsn>>

(* WAL::WAL on a file that holds the records f.                            *)
Open(f) ==
    /\ file = f
    /\ buffer = <<>>
    /\ pos = Len(f)
    /\ failed = TRUE
    /\ nextLsn = Len(f) + 1

(* The same for a process that starts again: only the file is kept.        *)
Reopen ==
    /\ file' = file
    /\ buffer' = <<>>
    /\ pos' = Len(file)
    /\ failed' = TRUE
    /\ nextLsn' = Len(file) + 1

(* append, once for each record of recs.                                   *)
Submit(recs) ==
    /\ nextLsn' = nextLsn + Len(recs)
    /\ buffer' = IF failed THEN buffer ELSE buffer \o recs
    /\ UNCHANGED <<file, pos, failed>>

(* append for each record of recs, then flush.                             *)
SubmitAndFlush(recs) ==
    /\ nextLsn' = nextLsn + Len(recs)
    /\ file' = IF failed THEN file ELSE file \o buffer \o recs
    /\ buffer' = IF failed THEN buffer ELSE <<>>
    /\ UNCHANGED <<pos, failed>>

(* What readAll returns, and the stream it leaves behind.                  *)
ReadAll    == SubSeq(file, (IF failed THEN pos ELSE 0) + 1, Len(file))
AfterRead  == /\ pos' = Len(file)
              /\ failed' = TRUE
              /\ UNCHANGED <<file, buffer, nextLsn>>
==============================================================================
