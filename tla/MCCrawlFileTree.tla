-------------------------- MODULE MCCrawlFileTree --------------------------
(***************************************************************************)
(* An instance of CrawlFileTree for TLC: a file and a directory, which     *)
(* holds a file, a device and a symbolic link back to the root.            *)
(***************************************************************************)
EXTENDS CrawlFileTree

MCDirs == [d \in {"root", "sub"} |->
  IF d = "root"
  THEN [n \in {".", "..", "a.txt", "dir"} |->
          CASE n = "a.txt" -> "fileA" [] n = "dir" -> "sub" [] OTHER -> "root"]
  ELSE [n \in {".", "..", "b.txt", "null", "up"} |->
          CASE n = "b.txt" -> "fileB" [] n = "null" -> "device" [] n = "." -> "sub"
            [] OTHER -> "root"]]

\* The second file starts with a character that is not a letter.
MCFiles == [f \in {"fileA", "fileB"} |->
  IF f = "fileA" THEN <<"Pear", "pear">> ELSE <<"", "Apple">>]

MCLower == [t \in {"", "App", "Apple", "Pear", "pear"} |->
  CASE t = "App" -> "app" [] t = "Apple" -> "apple" [] t = "Pear" -> "pear" [] OTHER -> t]

\* An apple may be cut in two.
MCCuts == [t \in DOMAIN MCLower |-> IF t = "Apple" THEN {"", "App", t} ELSE {"", t}]
=============================================================================
