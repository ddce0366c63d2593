---------------------------- MODULE MCFileHandler ----------------------------
(* FileHandler for TLC: a document root "www" with one file, and one file    *)
(* beside it.                                                                *)
EXTENDS FileHandler, TLC

CONSTANTS fs, www, docs, page, other, a, b

\*   fs/www/index       the page
\*   fs/www/docs/index  a link to the page
\*   fs/www/link        a link to the other file
\*   fs/other           the other file
Tree ==
  fs :> ("www" :> www @@ "other" :> other)
    @@ www :> ("index" :> page @@ "docs" :> docs @@ "link" :> other)
    @@ docs :> ("index" :> page)

Places ==
  fs :> <<fs, "..">> @@ www :> <<fs, "www">> @@ docs :> <<www, "docs">>
    @@ page :> <<www, "index">> @@ other :> <<fs, "other">>

\* The root, a directory, the other file by a link and directly, and nothing.
SomeRequests == {<<>>, <<"docs">>, <<"link">>, <<"..", "other">>, <<"none">>}

\* The paths of files.
SomeKeys == {<<"index">>, <<"docs", "index">>, <<"link">>}

SomeContents == {<<a>>, <<b, b>>, <<b, b, b>>}

WithBeginnings == SomeContents \cup {<<>>, <<b>>}

FileSizes == [d \in Data |-> Len(d)]

\* The history of the cache's keys is not part of what FileHandler checks.
View == <<cache, lru_list, current_size, disk, changes, gone, pc, key, file, held, answer>>

Symmetry == Permutations(Workers)
===============================================================================
