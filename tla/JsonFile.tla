------------------------------ MODULE JsonFile ------------------------------
(***************************************************************************)
(* apps/web-ui/server/storage.js, readJson and writeJson: one JSON file    *)
(* under the UI's state root, as concurrent callers see it.                *)
(*                                                                         *)
(* writeJson ends in fs.writeFile, which truncates the file when it opens  *)
(* it and writes the new text later.  A reader that comes in between finds *)
(* an empty file, which is not JSON; a writer that finds another writer's  *)
(* text already there overwrites its beginning and may leave a tail.       *)
(***************************************************************************)

\* The states of the file.
Missing == [kind |-> "missing"]
Truncated == [kind |-> "truncated"]
Garbled == [kind |-> "garbled"]
Whole(value) == [kind |-> "whole", value |-> value]

\* Not the code: text that does not parse reads as the fallback too.
ReadableLeniently(file) == file.kind \in {"missing", "whole", "truncated", "garbled"}

\* readJson: a missing file reads as the fallback, a whole file as its value;
\* JSON.parse throws on anything else and readJson passes the error on.
Readable(file) == file.kind \in {"missing", "whole"}
Content(file, fallback) == IF file.kind = "whole" THEN file.value ELSE fallback

\* writeJson, first half: open for writing.
Opened == Truncated

\* writeJson, second half: what the file may hold once the text is written.
\* Which text is longer is not modelled, so over another writer's text both
\* outcomes are possible.
Written(file, value) ==
    IF file.kind \in {"whole", "garbled"} /\ file # Whole(value)
    THEN {Whole(value), Garbled}
    ELSE {Whole(value)}
=============================================================================
