------------------------------- MODULE MCVfs --------------------------------
(* Inputs for the runs of Vfs: three names, short paths, few flags.          *)
EXTENDS Vfs, TLC

CONSTANTS a, b, e, x, y

MCNames == {a, b, e}
MCBytes == {x, y}

TreePaths == {<<>>, <<a>>, <<b>>, <<a, a>>, <<a, b>>, <<a, e>>, <<a, b, a>>}
FilePaths == {<<a>>, <<b>>}

CreateOnly == {O_CREAT \cup O_RDWR}
AllFlags == {O_RDONLY, O_CREAT \cup O_WRONLY, O_CREAT \cup O_RDWR \cup O_APPEND}

NoContents == {}
OneContent == {<<x>>}
ShortContents == {<<x>>, <<x, y>>}
SeekOffsets == {-1, 1}

\* Files a and b are treated alike.
SameFiles == Permutations({a, b})
=============================================================================
