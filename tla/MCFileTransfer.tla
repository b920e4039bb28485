--------------------------- MODULE MCFileTransfer ---------------------------
(* Instances of FileTransfer for TLC. *)
EXTENDS FileTransfer

CONSTANTS t1, t2

Basic == [callers |-> {t1}, tries |-> 1, size |-> 3, buffer |-> 1, encoded |-> FALSE,
          throws |-> FALSE, interrupt |-> FALSE, flushes |-> FALSE]

(* Pausing and an interrupt without retries, retries and an interrupt      *)
(* without pausing, pausing with retries; data that curl hands over when it *)
(* is resumed; an encoded file; and two downloads that share the one place. *)
Separately ==
    { [Basic EXCEPT !.interrupt = TRUE],
      [Basic EXCEPT !.interrupt = TRUE, !.tries = 3, !.size = 2, !.buffer = 2, !.throws = TRUE],
      [Basic EXCEPT !.tries = 3, !.size = 5],
      [Basic EXCEPT !.tries = 2, !.size = 5, !.flushes = TRUE],
      [Basic EXCEPT !.tries = 2, !.size = 2, !.encoded = TRUE],
      [Basic EXCEPT !.callers = {t1, t2}, !.tries = 2, !.size = 1],
      [Basic EXCEPT !.callers = {t1, t2}, !.size = 1, !.interrupt = TRUE] }

(* Pausing, retries and an interrupt together. *)
Together == { [Basic EXCEPT !.tries = 2, !.interrupt = TRUE] }

=============================================================================
