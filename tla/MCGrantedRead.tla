--------------------------- MODULE MCGrantedRead ---------------------------
\* `d/f` in a folder whose writer can swap the directory, the file and the
\* ignore files, and plant links to a directory outside that has a `f`, a
\* `.gitignore` and an `info/exclude` of its own.
EXTENDS GrantedRead, TLC

MCDirs == {"root", "A", "B", "git", "info", "E"}
MCFiles == {"T", "Big", "Out", "In", "Above", "Secret"}
MCLinks == {"toE", "toSecret"}
MCOutside == {"E", "Secret"}
MCTarget == "toE" :> "E" @@ "toSecret" :> "Secret"
MCContent == "T" :> "text" @@ "Big" :> "large" @@ "Out" :> "text" @@ "In" :> "text"
  @@ "Above" :> "text" @@ "Secret" :> "text"
MCRule == "T" :> "in" @@ "Big" :> "in" @@ "Out" :> "out" @@ "In" :> "in"
  @@ "Above" :> "ancestor" @@ "Secret" :> "in"
MCNames == {"d", "f", ".git", "info", "exclude", ".gitignore"}

MCSegments == <<"d">>

Nothing == [n \in MCNames |-> Absent]
Fixed == "git" :> [Nothing EXCEPT !["info"] = "info"]
  @@ "B" :> [Nothing EXCEPT !["f"] = "T"]
  @@ "E" :> [Nothing EXCEPT !["f"] = "Secret", ![".gitignore"] = "Secret", !["info"] = "E",
                            !["exclude"] = "Secret"]
MCTrees ==
  {Fixed @@ ("root" :> [Nothing EXCEPT !["d"] = "A", ![".git"] = git, ![".gitignore"] = top]
    @@ "A" :> [Nothing EXCEPT !["f"] = leaf, ![".gitignore"] = deep]
    @@ "info" :> [Nothing EXCEPT !["exclude"] = low]) :
   git \in {"git", "toE"}, top \in {Absent, "In"}, leaf \in {"T", Absent},
   deep \in {Absent, "Out"}, low \in {Absent, "Above"}}

NoSlots == [n \in MCNames |-> {}]
MCSlots == "root" :> [NoSlots EXCEPT !["d"] = {"A", "B", "toE"}, ![".gitignore"] = {"toSecret"},
                                     ![".git"] = {"git", "toE"}]
  @@ "A" :> [NoSlots EXCEPT !["f"] = {"T", "Big", "toSecret"}, ![".gitignore"] = {"toSecret", "In"}]
  @@ "B" :> NoSlots @@ "git" :> NoSlots @@ "E" :> NoSlots
  @@ "info" :> [NoSlots EXCEPT !["exclude"] = {"toSecret"}]
=============================================================================
