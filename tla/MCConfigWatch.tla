--------------------------- MODULE MCConfigWatch ---------------------------
(* A model of ConfigWatch for TLC: a directory of pages with an index below. *)
EXTENDS ConfigTexts

VARIABLES disk, watch, dirs, event, timer, rl, served, edits, muddled

Watching == INSTANCE ConfigWatch
    WITH Main <- "m", Order <- FileOrder, DirOf <- Directories, Texts <- PageTexts,
         Initial <- InitialFiles, Reloads <- {1, 2}, MaxEdits <- 1

WatchSpec == Watching!WatchSpec

\* "any index.html found at any depth is additionally registered at its parent
\* directory's own path" (expandDirMock).
IndexIsServedAtItsDirectory == Watching!IndexIsServedAtItsDirectory
=============================================================================
