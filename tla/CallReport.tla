----------------------------- MODULE CallReport -----------------------------
(* What a call reports, stated from its whole history: the outcome of the body
   and the list of the cleanups that failed.  Interpreter, like
   finish_callable_exit, builds the report one failure at a time. *)
EXTENDS Interpreter, SequencesExt

\* A failed cleanup, then everything that was noted about it, one level deeper.
NotesAbout(failure) ==
  <<[kind |-> "failed", at |-> failure.at, depth |-> 0]>>
    \o [i \in DOMAIN failure.notes |->
          [failure.notes[i] EXCEPT !.depth = failure.notes[i].depth + 1]]

NotesAboutAll(failures) == FlattenSeq([i \in DOMAIN failures |-> NotesAbout(failures[i])])

DeferredNote == [kind |-> "deferred", at |-> NoSite, depth |-> 0]

Reported(body, failures) ==
  IF body.tag = "err"
    THEN Err([at |-> body.diag.at, notes |-> body.diag.notes \o NotesAboutAll(failures)])
    ELSE IF failures = <<>>
           THEN body
           ELSE Err([at |-> Head(failures).at,
                     notes |-> Append(Head(failures).notes, DeferredNote)
                                 \o NotesAboutAll(Tail(failures))])

\* Nothing that failed is lost (finish_callable_exit, attach_cleanup_failure):
\* every failed cleanup of a call is in what the call reports, in the order the
\* cleanups ran and with all its own notes, however deep cleanup of cleanup
\* nested, and the notes of one failure are never mixed with those of another.
\* What a call returns is settled by its body: cleanup that succeeds leaves the
\* value evaluated at `return` as it was, even if it assigns the place it was
\* read from; a body's error stays the primary one; the first failed cleanup
\* becomes the error of a call that would have succeeded.
EveryFailureReported ==
  \A c \in DOMAIN calls :
    Finished(c) => calls[c].outcome = Reported(calls[c].body, calls[c].failures)
=============================================================================
