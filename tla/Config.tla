------------------------------- MODULE Config -------------------------------
(***************************************************************************)
(* repository/config.ts: the object that holds the parsed config.json, and *)
(* reads the file again whenever fs.watch reports a change.                *)
(*                                                                         *)
(* readFile is awaited for its delay only: its callback is never called,   *)
(* and the text comes from the readFileSync after it.  That call, the new  *)
(* fs.watch and the JSON.parse follow each other without giving way to     *)
(* other events, so they are one step.  A change event empties the text    *)
(* and starts a reload; several reloads may wait for their readFile at the *)
(* same time, and the first to resume reads for all of them.               *)
(*                                                                         *)
(* The texts of the file are numbered in the order in which they are       *)
(* written.  While an editor overwrites the file in place it holds a part  *)
(* of a text, which does not parse.  Files are never absent.  The readers  *)
(* that take config.json with require() see the text of the start for ever *)
(* and are left out.                                                       *)
(***************************************************************************)
EXTENDS Naturals

CONSTANT MaxText    \* bound on the texts written, for model checking

VARIABLES
    file,     \* the text config.json holds, or held before it is overwritten
    whole,    \* FALSE while it is being overwritten
    watched,  \* the watcher that has a listener is on the file at the path
    events,   \* change events the listener has not had yet
    contents, \* configFileContents, 0 for undefined
    inner,    \* the text the parsed configuration comes from, 0 for none
    reloads,  \* calls of clearAndReload that wait for their readFile
    notified  \* history: the text at the latest event

fileVars == <<file, whole>>
loadedVars == <<contents, inner, reloads>>
configVars == <<fileVars, watched, events, loadedVars, notified>>

ConfigTypeOK ==
    /\ file \in Nat \ {0}
    /\ whole \in BOOLEAN
    /\ watched \in BOOLEAN
    /\ events \in Nat
    /\ contents \in Nat
    /\ inner \in Nat
    /\ reloads \in Nat
    /\ notified \in Nat

ConfigInit ==
    /\ file = 1
    /\ whole = TRUE
    /\ watched = FALSE
    /\ events = 0
    /\ contents = 0
    /\ inner = 0
    /\ reloads = 0
    /\ notified = 0

-----------------------------------------------------------------------------
(* The editors and inotify, external.                                      *)

\* A watcher gets an event, which may be merged with one that waits.
Notify(text) ==
    IF watched
    THEN /\ events' \in IF events = 0 THEN {1} ELSE {events, events + 1}
         /\ notified' = text
    ELSE UNCHANGED <<events, notified>>

\* The file is overwritten in place, in two writes.
BeginSave ==
    /\ whole
    /\ file < MaxText
    /\ whole' = FALSE
    /\ Notify(file)
    /\ UNCHANGED <<file, watched, loadedVars>>

EndSave ==
    /\ ~whole
    /\ whole' = TRUE
    /\ file' = file + 1
    /\ Notify(file')
    /\ UNCHANGED <<watched, loadedVars>>

\* Another file is renamed over it, as an editor or a mounted secret does.
\* The watcher reports that once, and stays with the file that is gone.
Replace ==
    /\ whole
    /\ file < MaxText
    /\ file' = file + 1
    /\ Notify(file')
    /\ watched' = FALSE
    /\ UNCHANGED <<whole, loadedVars>>

-----------------------------------------------------------------------------
(* init.                                                                   *)

\* readFileSync.
Read ==
    /\ contents = 0
    /\ whole
    /\ contents' = file
    /\ UNCHANGED <<fileVars, watched, events, inner, reloads, notified>>

\* fs.watch with the listener, and JSON.parse.
Watch ==
    /\ contents # 0
    /\ inner = 0
    /\ watched' = TRUE
    /\ inner' = contents
    /\ UNCHANGED <<fileVars, events, contents, reloads, notified>>

-----------------------------------------------------------------------------
(* The listener: clearAndReload.                                           *)

\* Mutant of Change: the text that was loaded is not emptied.
ChangeKeeping ==
    /\ events > 0
    /\ events' = events - 1
    /\ reloads' = reloads + 1
    /\ UNCHANGED <<fileVars, watched, contents, inner, notified>>

\* `this.configFileContents = void 0`, and the readFile.
Change ==
    /\ events > 0
    /\ events' = events - 1
    /\ contents' = 0
    /\ reloads' = reloads + 1
    /\ UNCHANGED <<fileVars, watched, inner, notified>>

\* What a reload parses: the text another reload has read, or the file.
Parsed == IF contents = 0 THEN file ELSE contents

\* A half-written file does not parse.
Unreadable == contents = 0 /\ ~whole

\* Mutant of Reload: the text readFile had found before is stored, however
\* late its answer comes.
ReloadEarlier ==
    /\ reloads > 0
    /\ ~Unreadable
    /\ reloads' = reloads - 1
    /\ \E text \in 1..file : contents' = text /\ inner' = text
    /\ UNCHANGED <<fileVars, watched, events, notified>>

\* The watcher this adds has no listener: it reports to nobody.
Reload ==
    /\ reloads > 0
    /\ ~Unreadable
    /\ reloads' = reloads - 1
    /\ contents' = Parsed
    /\ inner' = Parsed
    /\ UNCHANGED <<fileVars, watched, events, notified>>

\* JSON.parse throws in the listener, which nobody awaits.
ReloadFails == reloads > 0 /\ Unreadable

\* The process is gone: the file stays.
Forget ==
    /\ watched' = FALSE
    /\ events' = 0
    /\ contents' = 0
    /\ inner' = 0
    /\ reloads' = 0
    /\ notified' = 0
    /\ UNCHANGED fileVars

-----------------------------------------------------------------------------

\* What has been read is no later than the file, and what waits to be parsed
\* is no earlier than what was.
TextsInv ==
    /\ inner <= file
    /\ notified <= file
    /\ contents # 0 => inner <= contents /\ contents <= file

=============================================================================
