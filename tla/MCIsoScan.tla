------------------------------ MODULE MCIsoScan ------------------------------
(***************************************************************************)
(* Catalogs of up to four slots, one more than a sector has here, and      *)
(* directories of up to three sectors of three records.                    *)
(***************************************************************************)
EXTENDS IsoScan, TLC

Dot == [kind |-> "dot"]
Dir(name) == [kind |-> "dir", name |-> name]
FileOf(name, size) == [kind |-> "file", name |-> name, size |-> size]

(* The first n records in a sector of their own, then three to a sector.   *)
Split(records, n) ==
  LET Upto(i, k) == SubSeq(records, i, IF k > Len(records) THEN Len(records) ELSE k)
  IN  <<Upto(1, n)>>
        \o [j \in 1..((Len(records) + 2 - n) \div 3) |-> Upto(n + 3 * j - 2, n + 3 * j)]

(* The directories an image may have in its root, with what is below them. *)
Below ==
  "casper" :> ("casper" :> <<Dot, Dot, FileOf("filesystem.squashfs", OverWim),
                             FileOf("filesystem.squashfs", Small)>>)
    @@ "docs" :> ("docs" :> <<Dot, Dot, FileOf("latest", Small)>>)
    @@ "install" :> ("install" :> <<Dot, Dot, FileOf("vmlinuz", Small)>>)
    @@ "EFI" :> ("EFI" :> <<Dot, Dot, Dir("BOOT")>>
                   @@ "EFI/BOOT" :> <<Dot, Dot, FileOf("BOOTX64.EFI", Small)>>)
    @@ "sources" :> ("sources" :> <<Dot, Dot, FileOf("boot.wim", Small),
                                    FileOf("install.wim", OverWim)>>)

Files ==
  "casper" :> (LiveFile :> Over4GiB) @@ "docs" :> ("docs/latest" :> Small)
    @@ "EFI" :> (EfiBootFile :> Small) @@ "install" :> ("install/vmlinuz" :> Small)
    @@ "sources" :> (BootWim :> Small @@ "sources/install.wim" :> OverWim)

Order == <<"casper", "docs", "EFI", "install", "sources">>

Union(f, names) ==
  [x \in UNION {DOMAIN f[n] : n \in names} |-> f[CHOOSE n \in names : x \in DOMAIN f[n]][x]]

(* Its root lists some of the directories, in order; a mount may show more.*)
ImageWith(names, n, udf, default, sections) ==
  LET listed == SelectSeq(Order, LAMBDA d : d \in names)
      below  == Union(Below, names)
  IN  [isIso |-> TRUE, hasElTorito |-> TRUE, hybrid |-> FALSE,
       default |-> default, sections |-> sections,
       dirs |-> "" :> Split(<<Dot, Dot>> \o [i \in DOMAIN listed |-> Dir(listed[i])], n)
                  @@ [d \in DOMAIN below |-> Split(below[d], 3)],
       tree |-> Union(Files, names \cup udf)]

Bios == [platform |-> "bios", bootable |-> TRUE]

TreeImages ==
  { ImageWith(names, n, udf, Bios, <<>>) :
      names \in SUBSET {"casper", "docs", "EFI", "install", "sources"}, n \in {2, 3}, udf \in {{}, {"sources"}} }

Sections(k) ==
  UNION { [platform : {"bios", "uefi", "other"}, entries : [1..n -> BOOLEAN]] : n \in 0..k }

CatalogImages ==
  { ImageWith({"docs"}, 3, {}, default, sections) :
      default \in [platform : {"bios", "uefi"}, bootable : BOOLEAN],
      sections \in {<<>>} \cup {<<s>> : s \in Sections(3)}
                    \cup {t \in Sections(2) \X Sections(2) :
                            Len(t[1].entries) + Len(t[2].entries) <= 2} }

OtherImages ==
  LET some == ImageWith({"EFI"}, 3, {}, Bios, <<>>) IN
  { [some EXCEPT !.isIso = FALSE], [some EXCEPT !.hasElTorito = FALSE],
    [some EXCEPT !.hybrid = TRUE],
    [some EXCEPT !.dirs[""] = Append(@, <<>>)] }

MCImages == TreeImages \cup CatalogImages \cup OtherImages
=============================================================================
