----------------------------- MODULE FileSystem -----------------------------
(***************************************************************************)
(* A directory as node:fs uses it.  writeFile opens and truncates, then    *)
(* puts the bytes; rename moves the file that a path names at that time,   *)
(* writers and all: a process that still holds it open goes on writing     *)
(* into it under its new name.  External to the repository; a process that *)
(* is killed leaves what it has written, and the machine does not crash.   *)
(***************************************************************************)
EXTENDS FiniteSets

CONSTANTS
    NoFile,     \* the text of a path that names nothing
    Torn        \* the text of a file that does not parse

VARIABLE files  \* path |-> its text, and the processes that have it open

Missing == [text |-> NoFile, writers |-> {}]

\* A directory in which nothing was written yet.
Blank(paths) == [n \in paths |-> Missing]

Exists(n) == files[n].text # NoFile

\* writeFile begins: the file is created or emptied.
OpenTruncate(p, n) ==
    files' = [files EXCEPT ![n] = [text |-> Torn, writers |-> @.writers \cup {p}]]

\* writeFile ends: the bytes go to the file p has open.  If another process
\* has put different ones there meanwhile, a tail of those may remain.  A file
\* that was replaced by a rename is no longer named, and the bytes are lost.
Put(p, bytes) ==
    \/ \E n \in DOMAIN files :
         /\ p \in files[n].writers
         /\ \E t \in IF files[n].text \in {Torn, bytes} THEN {bytes} ELSE {bytes, Torn} :
              files' = [files EXCEPT ![n] = [text |-> t, writers |-> @.writers \ {p}]]
    \/ /\ \A n \in DOMAIN files : p \notin files[n].writers
       /\ UNCHANGED files

Rename(from, to) ==
    files' = [files EXCEPT ![to] = files[from], ![from] = Missing]

\* A process ends and its open file is closed as it is.
Closed(p) == [n \in DOMAIN files |-> [files[n] EXCEPT !.writers = @ \ {p}]]
=============================================================================
