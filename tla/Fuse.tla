-------------------------------- MODULE Fuse --------------------------------
(***************************************************************************)
(* io/fuse: the file systems of fuse_test_02.cpp, which registers none of   *)
(* its callbacks, and fuse_test_03.cpp, a directory with one text file.     *)
(* The kernel looks a path up (getattr) before it opens it, except for the  *)
(* root, which it has from the mount.                                       *)
(***************************************************************************)
EXTENDS Naturals

CONSTANTS
    TextLen,            \* strlen(text_file_content)
    MaxRead             \* bound on offset and size of a read

root == "/"
text_file_path == "/a.txt"
file_path == "/data/dev/ya/fuse_test"
Paths == {root, text_file_path, file_path}

ENOENT == "ENOENT"
EACCES == "EACCES"
ENOSYS == "ENOSYS"      \* libfuse, for an operation that is not registered

VARIABLES
    fs,                 \* which of the two is mounted
    listed,             \* the paths readdir has given
    looked,             \* the paths looked up so far, found or not
    found,              \* the paths the kernel found
    opened,             \* the paths that are open
    reply               \* what the last callback returned

vars == <<fs, listed, looked, found, opened, reply>>

Init ==
    /\ fs \in {"fuse_test_02", "fuse_test_03"}
    /\ listed = {} /\ looked = {} /\ found = {} /\ opened = {}
    /\ reply = "none"

(* main: the operations that are registered.                               *)
Registered == IF fs = "fuse_test_03" THEN {"getattr", "readdir", "open", "read"} ELSE {}

Answer(op, r) == IF op \in Registered THEN r[fs] ELSE ENOSYS

(* Of fuse_test_02: its file is not in the root, and its name is refused.  *)
getattr_callback2(path) == IF path \in {root, file_path} THEN "0" ELSE ENOENT
readdir_callback2(path) == IF path = root THEN "0" ELSE ENOENT
open_callback2(path, readonly) ==
    IF path # file_path THEN ENOENT ELSE IF ~readonly THEN EACCES ELSE "0"
read_callback2(path, offset, size) == IF path # file_path THEN ENOENT ELSE "bytes"

(* Of fuse_test_03.  For the text file the attributes are filled in, and   *)
(* then ENOENT is returned all the same.  A read copies the text from      *)
(* offset without regard to its length: beyond it the answer has bytes     *)
(* that are not the file's.                                                *)
getattr_callback3(path) == IF path = root THEN "0" ELSE ENOENT
readdir_callback3(path) == IF path = root THEN "0" ELSE ENOENT
open_callback3(path, readonly) ==
    IF path # text_file_path THEN ENOENT ELSE IF ~readonly THEN EACCES ELSE "0"
read_callback3(path, offset, size) ==
    IF path # text_file_path THEN ENOENT
    ELSE IF offset + size > TextLen THEN "overrun" ELSE "bytes"

Lookup(path) ==
    /\ reply' = Answer("getattr", [fuse_test_02 |-> getattr_callback2(path),
                                   fuse_test_03 |-> getattr_callback3(path)])
    /\ looked' = looked \cup {path}
    /\ found' = IF reply' = "0" THEN found \cup {path} ELSE found \ {path}
    /\ UNCHANGED <<fs, listed, opened>>

(* filler is called for the file, besides . and ..                         *)
Readdir(path) ==
    /\ path \in found \cup {root}
    /\ reply' = Answer("readdir", [fuse_test_02 |-> readdir_callback2(path),
                                   fuse_test_03 |-> readdir_callback3(path)])
    /\ listed' = IF reply' = "0" /\ fs = "fuse_test_03"
                    THEN listed \cup {text_file_path} ELSE listed
    /\ UNCHANGED <<fs, looked, found, opened>>

Open(path, readonly) ==
    /\ path \in found \ {root}
    /\ reply' = Answer("open", [fuse_test_02 |-> open_callback2(path, readonly),
                                fuse_test_03 |-> open_callback3(path, readonly)])
    /\ opened' = IF reply' = "0" THEN opened \cup {path} ELSE opened
    /\ UNCHANGED <<fs, listed, looked, found>>

Read(path, offset, size) ==
    /\ path \in opened
    /\ reply' = Answer("read", [fuse_test_02 |-> read_callback2(path, offset, size),
                                fuse_test_03 |-> read_callback3(path, offset, size)])
    /\ UNCHANGED <<fs, listed, looked, found, opened>>

Next ==
    \E path \in Paths :
        \/ Lookup(path) \/ Readdir(path)
        \/ \E readonly \in BOOLEAN : Open(path, readonly)
        \/ \E offset, size \in 0..MaxRead : Read(path, offset, size)

Spec == Init /\ [][Next]_vars

-----------------------------------------------------------------------------
(* getattr does what stat does (include/fuse.h): a name that a directory   *)
(* lists is found when it is looked up.                                    *)
ListedIsThere == \A path \in listed \cap looked : path \in found
=============================================================================
