----------------------------- MODULE LinuxIcons -----------------------------
(***************************************************************************)
(* Finding the icon of a program on Linux (tauri/linux-icons.cjs): the     *)
(* entry of the program among the desktop files, the icon's file in the    *)
(* theme, the themes it inherits from and hicolor, or among the pixmaps,   *)
(* and its conversion.  Each search has a limit, so that no installation   *)
(* of themes, however large or circular, delays the list for long.         *)
(*                                                                         *)
(* The recursion of find() is a stack of themes to search; a theme has a   *)
(* number of candidate files (directories, roots and extensions), of which *)
(* the last may be the icon.  The answers are not cached here.             *)
(***************************************************************************)
EXTENDS Naturals, Sequences

CONSTANTS
    Nothing,
    Themes, hicolor, \* the installed themes, and the one every icon may be in
    ScanLimit, MaxThemes, MaxCandidates, MoreCandidates, \* limits of the code
    MaxSize, MaxDesktopFiles \* bounds: candidates of a theme, desktop files

VARIABLES
    desktop,            \* the desktop files, those of the user first
    inherits, size, holder, \* of each theme; the one that has the icon
    setting,            \* where the name of the theme is set
    stage, entry,       \* of the lookup; the desktop file it uses
    todo, visited, candidates, candidateLimit, \* themedIcon
    exhausted,          \* history: a theme was left for the limit of candidates
    icon                \* the answer

systemVars == <<desktop, inherits, size, holder, setting>>
searchVars == <<todo, visited, candidates, candidateLimit, exhausted>>
vars == <<systemVars, stage, entry, searchVars, icon>>

Distinct(s) == \A i, j \in DOMAIN s : i # j => s[i] # s[j]
Lists == {s \in UNION {[1..n -> Themes] : n \in 0..2} : Distinct(s)}
\* A desktop file: its id, the program it names by path or by name only, and
\* whether it is one that is used (an application, not hidden, with an icon).
DesktopFiles == [id : {1, 2}, names : {"path", "name", "other"}, used : BOOLEAN]
Usual == <<[id |-> 1, names |-> "path", used |-> TRUE]>>

\* Type invariant.
TypeOK ==
    /\ desktop \in Seq(DesktopFiles) /\ Len(desktop) <= MaxDesktopFiles
    /\ inherits \in [Themes -> Lists] /\ size \in [Themes -> 0..MaxSize]
    /\ holder \in Themes \cup {"pixmaps", Nothing} /\ setting \in Themes \cup {Nothing}
    /\ stage \in {"scan", "theme", "find", "fallback", "pixmaps", "image", "done"}
    /\ entry \in DesktopFiles \cup {Nothing}
    /\ todo \in Seq(Themes) /\ visited \in Seq(Themes) /\ Len(visited) <= MaxThemes /\ Distinct(visited)
    /\ candidates \in Nat /\ candidateLimit \in {MaxCandidates, MaxCandidates + MoreCandidates}
    /\ exhausted \in BOOLEAN
    /\ icon \in Themes \cup {"pixmaps", "empty", Nothing}

\* Either the themes vary or the desktop files do: the searches are independent.
Init ==
    /\ \/ /\ desktop = Usual
          /\ inherits \in [Themes -> Lists] /\ \A t \in Themes : t \notin {inherits[t][i] : i \in DOMAIN inherits[t]}
          /\ size \in [Themes -> 0..MaxSize]
          /\ holder \in {t \in Themes : size[t] > 0} \cup {"pixmaps", Nothing}
          /\ setting \in Themes \cup {Nothing}
       \/ /\ desktop \in UNION {[1..n -> DesktopFiles] : n \in 0..MaxDesktopFiles}
          /\ inherits = [t \in Themes |-> <<>>] /\ size = [t \in Themes |-> 1]
          /\ holder = hicolor /\ setting = Nothing
    /\ stage = "scan" /\ entry = Nothing /\ icon = Nothing
    /\ todo = <<>> /\ visited = <<>> /\ candidates = 0 /\ candidateLimit = MaxCandidates
    /\ exhausted = FALSE

-----------------------------------------------------------------------------
\* scanApplications: the first file of an id stands for it, even if it is not
\* used; files beyond the limit are not read.
Entries ==
    {i \in 1..Len(desktop) : /\ i <= ScanLimit /\ desktop[i].used
                             /\ \A j \in 1..(i - 1) : desktop[j].id # desktop[i].id}
First(S) == desktop[CHOOSE i \in S : \A j \in S : i <= j]
Naming(how) == {i \in Entries : desktop[i].names = how}

\* resolve(): an entry with the program's path is preferred to one with its name.
Scan ==
    /\ stage = "scan"
    /\ IF Naming("path") \cup Naming("name") = {}
       THEN stage' = "done" /\ icon' = "empty" /\ UNCHANGED entry
       ELSE /\ entry' = First(IF Naming("path") # {} THEN Naming("path") ELSE Naming("name"))
            /\ stage' = "theme" /\ UNCHANGED icon
    /\ UNCHANGED <<systemVars, searchVars>>

\* themeName: the first of the environment, the GTK settings and gsettings
\* that can be read.
StartTheme ==
    /\ stage = "theme" /\ stage' = "find"
    /\ todo' = <<IF setting = Nothing THEN hicolor ELSE setting>>
    /\ UNCHANGED <<systemVars, entry, visited, candidates, candidateLimit, exhausted, icon>>

Visited == {visited[i] : i \in DOMAIN visited}
Skipped(theme) == theme \in Visited \/ Len(visited) >= MaxThemes
Over == candidates + size[Head(todo)] > candidateLimit

\* find(): a theme that was searched, or one too many, is skipped.
Skip ==
    /\ stage \in {"find", "fallback"} /\ todo # <<>> /\ Skipped(Head(todo))
    /\ todo' = Tail(todo)
    /\ UNCHANGED <<systemVars, stage, entry, visited, candidates, candidateLimit, exhausted, icon>>

\* find(): the candidates of a theme, then the themes it inherits from.
Find ==
    /\ stage \in {"find", "fallback"} /\ todo # <<>> /\ ~Skipped(Head(todo))
    /\ LET theme == Head(todo)
       IN  /\ visited' = Append(visited, theme)
           /\ exhausted' = (exhausted \/ (size[theme] > 0 /\ Over))
           /\ IF size[theme] > 0 /\ Over
              THEN /\ candidates' = (IF candidates > candidateLimit THEN candidates ELSE candidateLimit) + 1
                   /\ todo' = Tail(todo) /\ UNCHANGED <<stage, icon>>
              ELSE IF holder = theme
              THEN icon' = theme /\ stage' = "image" /\ UNCHANGED <<candidates, todo>>
              ELSE /\ candidates' = candidates + size[theme]
                   /\ todo' = inherits[theme] \o Tail(todo) /\ UNCHANGED <<stage, icon>>
    /\ UNCHANGED <<systemVars, entry, candidateLimit>>

\* hicolor is searched at last, in the place of the theme searched last.
Fallback ==
    /\ stage = "find" /\ todo = <<>>
    /\ IF hicolor \in Visited
       THEN stage' = "pixmaps" /\ UNCHANGED <<todo, visited, candidateLimit>>
       ELSE /\ stage' = "fallback" /\ todo' = <<hicolor>>
            /\ visited' = SubSeq(visited, 1, Len(visited) - 1)
            /\ candidateLimit' = candidateLimit + MoreCandidates
    /\ UNCHANGED <<systemVars, entry, candidates, exhausted, icon>>

FallbackEnds ==
    /\ stage = "fallback" /\ todo = <<>> /\ stage' = "pixmaps"
    /\ UNCHANGED <<systemVars, entry, searchVars, icon>>

\* The icon's file outside of the themes.
Pixmaps ==
    /\ stage = "pixmaps"
    /\ IF holder = "pixmaps" THEN icon' = "pixmaps" /\ stage' = "image"
       ELSE icon' = "empty" /\ stage' = "done"
    /\ UNCHANGED <<systemVars, entry, searchVars>>

\* image(): the file may be no valid PNG, or its conversion fails.
Image ==
    /\ stage = "image" /\ stage' = "done" /\ icon' \in {icon, "empty"}
    /\ UNCHANGED <<systemVars, entry, searchVars>>

Next == Scan \/ StartTheme \/ Skip \/ Find \/ Fallback \/ FallbackEnds \/ Pixmaps \/ Image

Spec == Init /\ [][Next]_vars

-----------------------------------------------------------------------------
(* Properties. *)

Start == IF setting = Nothing THEN hicolor ELSE setting
Parents(S) == UNION {{inherits[t][i] : i \in DOMAIN inherits[t]} : t \in S}
\* The themes that setting's theme inherits from, directly or not.
Reachable == {t \in Themes : \A S \in SUBSET Themes : Start \in S /\ Parents(S) \subseteq S => t \in S}

\* The search leaves the themes only when the icon is in none of those it
\* covers: hicolor always, the inherited ones while there are not too many,
\* whichever circles they form.  (Except when the limit of candidates cut the
\* search; hicolor too is lost then if it was reached as an inherited theme,
\* for the fallback takes it as searched.)
ThemesSearched ==
    stage = "pixmaps" =>
        /\ hicolor \in Visited
        /\ holder \in Reachable \cup {hicolor} =>
             exhausted \/ (holder # hicolor /\ Len(visited) >= MaxThemes)
=============================================================================
