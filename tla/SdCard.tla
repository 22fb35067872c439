------------------------------- MODULE SdCard -------------------------------
(***************************************************************************)
(* Class CartaoSD (src/main/src/perifericos/sd_card_handler.cpp) as the    *)
(* writer of the reports uses it: operators on the state of its object,    *)
(* card.  The half of openFile and closeFile for a file to read is the     *)
(* same, and nobody calls it; nor does anybody ask for a path.             *)
(***************************************************************************)
EXTENDS Naturals

CONSTANT NoFile   \* NULL

MAX_CARD_MOUNT_ATTEMPTS == 5

\* mounted   the filesystem of the card is there; not a field of the object
\* isOpen    _writing_file_is_open
\* file      the file _writing_file is open on
NewCard == [mounted |-> FALSE, isOpen |-> FALSE, file |-> NoFile]

\* failed attempts come before one that mounts the card.  After the fifth begin
\* gives up, as it does at once when the bus fails.
begin(card, failed) == [card EXCEPT !.mounted = failed < MAX_CARD_MOUNT_ATTEMPTS]

closeFile(card) ==
  IF card.isOpen THEN [card EXCEPT !.isOpen = FALSE, !.file = NoFile] ELSE card

\* A file that is open is closed first.  fopen may fail, and without a card it
\* does.
openFile(card, path) ==
  {closeFile(card)}
    \cup IF card.mounted THEN {[card EXCEPT !.isOpen = TRUE, !.file = path]} ELSE {}

=============================================================================
