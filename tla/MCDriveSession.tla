--------------------------- MODULE MCDriveSession ---------------------------
(* One volume with a root, one more folder and one file, names a and b, and *)
(* the requests and remote changes each run asks about.                     *)
EXTENDS DriveSession

CONSTANTS a, b

MCNames == {a, b}

StatFiles == {<<"Stat", <<a>>>>, <<"Stat", <<a, b>>>>}

(* Folders are listed and made, files are trashed.                          *)
FileWork == {<<"ListDir", <<a>>>>,
             <<"Mkdir", <<a>>>>, <<"Trash", <<a, b>>>>}

(* The chains of cache misses that are longest, and the requests that use  *)
(* the root and remove links for good.                                      *)
PathWork == {<<"ListDir", <<a>>>>, <<"Stat", << >>>>, <<"Mkdir", <<a, b>>>>, <<"Delete", <<a, b>>>>}
=============================================================================
