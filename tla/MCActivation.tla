---------------------------- MODULE MCActivation ----------------------------
\* Requests for one in-process application on disks of many kinds, or for
\* two applications with processes of their own.
EXTENDS Activation

Name(num, pre, plain) == [num |-> num, pre |-> pre, build |-> <<>>, plain |-> plain]

\* 2.0.9, 2.1.0, 02.1.0, 2.1.0-p9, 2.1.0-p10, and the entry ".".
MCNames == <<Name(<<2, 0, 9>>, <<>>, TRUE), Name(<<2, 1, 0>>, <<>>, TRUE),
            Name(<<2, 1, 0>>, <<>>, FALSE), Name(<<2, 1, 0>>, <<45, 112, 57>>, TRUE),
            Name(<<2, 1, 0>>, <<45, 112, 49, 48>>, TRUE), Name(<<>>, <<>>, TRUE)>>
Latest == Name(<<2, 1, 0>>, <<>>, TRUE)

Disk(files, where, directory, folders, complete, space) ==
  [files |-> files, where |-> where, directory |-> directory, folders |-> folders,
   complete |-> complete, space |-> space]

\* dotnet where it is configured, with any folders; dotnet anywhere, with one folder;
\* an executable of its own.
Some(S) == SelectSeq(MCNames, LAMBDA name : name \in S)
FolderDisks == {Disk({"path"}, <<>>, TRUE, Some(f), f \ m, FALSE) :
                  f \in SUBSET {MCNames[i] : i \in DOMAIN MCNames}, m \in {{}, {Latest}}}
LookupDisks == {Disk(f, w, d, <<Latest>>, {Latest}, FALSE) :
                  f \in SUBSET {"path", "path.exe", "ProgramFiles"},
                  w \in {<<>>, <<FALSE>>, <<FALSE, TRUE>>}, d \in BOOLEAN}
OwnDisks == {Disk(f, <<>>, TRUE, <<>>, {}, s) :
               f \in SUBSET {"path", "hostfxr", "dll"}, s \in BOOLEAN}

Site(model, dotnet, arguments) == [model |-> model, dotnet |-> dotnet, arguments |-> arguments]
Same(a, s, t) == [x \in Apps |-> IF x = a THEN s ELSE t]

InProcessSituations(a) ==
  {[site |-> Same(a, Site("inprocess", TRUE, <<"app">>), Site("other", TRUE, <<>>)), disk |-> d] :
     d \in FolderDisks \cup LookupDisks}
  \cup {[site |-> Same(a, Site("inprocess", FALSE, w), Site("other", TRUE, <<>>)), disk |-> d] :
     d \in OwnDisks, w \in {<<>>, <<"arg">>}}

MCSituations ==
  UNION {InProcessSituations(a) : a \in {CHOOSE x \in Apps : TRUE}}
  \cup {[site |-> [x \in Apps |-> Site(m, TRUE, <<>>)], disk |-> Disk({}, <<>>, TRUE, <<>>, {}, FALSE)] :
          m \in {"", "outofprocess"}}
=============================================================================
