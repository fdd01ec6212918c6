------------------------------- MODULE HostFxr -------------------------------
(***************************************************************************)
(* HOSTFXR_UTILITY and the helpers of UTILITY and fx_ver_t it uses: from   *)
(* the processPath and the arguments of an in-process application to the   *)
(* hostfxr.dll to load and the arguments to give it.  All of it is a       *)
(* function of what is on the disk:                                        *)
(*   files     the files CheckIfFileExists would find, out of Files;       *)
(*   where     the answer of where.exe: for each dotnet.exe in the path,   *)
(*             whether its bitness is that of the process; <<>> when it    *)
(*             fails or takes longer than its two seconds;                 *)
(*   directory whether there is a directory host\fxr beside dotnet;        *)
(*   folders   the sequence of its entries;                                *)
(*   complete  those of them that contain a hostfxr.dll;                   *)
(*   space     the path of the application contains a space.               *)
(* A folder name is a record: num, the three numbers, or <<>> for a name   *)
(* that does not parse; pre and build, the character codes of the rest;    *)
(* plain, whether as_str gives the name back ("02.1.0" does not).          *)
(***************************************************************************)
EXTENDS Integers, Sequences

None == "none"
AppDll == "app.dll"

\* processPath as configured and with .exe, dotnet.exe under %ProgramFiles%, and
\* in the folder of the application hostfxr.dll and the dll of the application.
Files == {"path", "path.exe", "ProgramFiles", "hostfxr", "dll"}

(***************************************************************************)
(* fx_ver_t.                                                               *)
(***************************************************************************)
FolderNames == [num : (Int \X Int \X Int) \cup {<<>>}, pre : Seq(Int), build : Seq(Int),
                plain : BOOLEAN]

Lowest == [num |-> <<-1, -1, -1>>, pre |-> <<>>, build |-> <<>>, plain |-> TRUE]

Parses(name) == name.num # <<>>

\* std::wstring::compare, and the comparison of the numbers one by one.
Before(s, t) ==
  \E i \in 1 .. Len(t) :
    /\ \A j \in 1 .. i - 1 : j <= Len(s) /\ s[j] = t[j]
    /\ i > Len(s) \/ s[i] < t[i]

CompareText(s, t) == IF s = t THEN 0 ELSE IF Before(s, t) THEN -1 ELSE 1

ComparesTextOnly(a, b) ==
  IF a.num # b.num THEN CompareText(a.num, b.num)
  ELSE IF a.pre # b.pre THEN CompareText(a.pre, b.pre)
  ELSE CompareText(a.build, b.build)

\* A version without a prerelease part is above the same version with one.
compare(a, b) ==
  IF a.num # b.num THEN CompareText(a.num, b.num)
  ELSE IF (a.pre = <<>>) # (b.pre = <<>>) THEN (IF a.pre = <<>> THEN 1 ELSE -1)
  ELSE IF a.pre # b.pre THEN CompareText(a.pre, b.pre)
  ELSE CompareText(a.build, b.build)

\* FindHighestDotNetVersion: names that do not parse are skipped, and the result
\* is written out again with as_str.
HigherOf(m, name) == IF Parses(name) /\ compare(m, name) <= 0 THEN name ELSE m

FindHighestDotNetVersion(folders) ==
  LET max[i \in 0 .. Len(folders)] ==
        IF i = 0 THEN Lowest ELSE HigherOf(max[i - 1], folders[i])
  IN [max[Len(folders)] EXCEPT !.plain = TRUE]

Disks == [files : SUBSET Files, where : Seq(BOOLEAN), directory : BOOLEAN,
          folders : Seq(FolderNames), complete : SUBSET FolderNames, space : BOOLEAN]

(***************************************************************************)
(* The way to hostfxr.dll through dotnet.exe.                              *)
(***************************************************************************)
\* The first dotnet.exe of the path whose bitness matches.
InvokeWhereToFindDotnet(m) ==
  LET matching == {i \in DOMAIN m.where : m.where[i]}
  IN IF matching = {} THEN None ELSE "where"

GetAbsolutePathToDotnet(m) ==
  CASE "path" \in m.files -> "path"
    [] "path" \notin m.files /\ "path.exe" \in m.files -> "path.exe"
    [] OTHER ->
         IF InvokeWhereToFindDotnet(m) # None THEN InvokeWhereToFindDotnet(m)
         ELSE IF "ProgramFiles" \in m.files THEN "ProgramFiles" ELSE None

\* What a search comes to: a failure, whichever it is, or the hostfxr.dll, which is
\* in a folder of host\fxr, beside the application, or nowhere, and its arguments.
Failure == [ok |-> FALSE, at |-> None, folder |-> Lowest, argv |-> <<>>]
Found(at, folder) == [ok |-> TRUE, at |-> at, folder |-> folder, argv |-> <<>>]

\* The dll in the highest folder.  For a missing directory hr is ERROR_BAD_ENVIRONMENT
\* itself, which is positive and so no failure to FAILED: the location stays empty.
GetAbsolutePathToHostFxr(m) ==
  IF ~m.directory THEN Found(None, Lowest)
  ELSE LET highest == FindHighestDotNetVersion(m.folders)
       IN IF highest \in m.complete THEN Found("folder", highest) ELSE Failure

(***************************************************************************)
(* The arguments.                                                          *)
(***************************************************************************)
\* ParseHostfxrArguments: the words of a command line behind the path of the exe.
ParseHostfxrArguments(found, exe, words) ==
  IF words = <<>> THEN Failure ELSE [found EXCEPT !.argv = <<exe>> \o words]

\* Words of the path of the application's dll, which nobody puts in quotes.
DllWords(m) == IF m.space THEN <<"head", "tail">> ELSE <<AppDll>>

StandaloneWords(m, arguments) == DllWords(m) \o arguments

GetStandaloneHostfxrParameters(m, arguments) ==
  IF "hostfxr" \in m.files /\ "dll" \in m.files
  THEN ParseHostfxrArguments(Found("beside", Lowest), "path", StandaloneWords(m, arguments))
  ELSE Failure

\* s is the configuration of the application: whether its processPath ends with
\* dotnet or dotnet.exe, and its arguments.
GetHostFxrParameters(m, s) ==
  IF s.dotnet
  THEN IF GetAbsolutePathToDotnet(m) = None \/ ~GetAbsolutePathToHostFxr(m).ok THEN Failure
       ELSE ParseHostfxrArguments(GetAbsolutePathToHostFxr(m), GetAbsolutePathToDotnet(m),
                                  s.arguments)
  ELSE IF "path" \in m.files THEN GetStandaloneHostfxrParameters(m, s.arguments) ELSE Failure
=============================================================================
