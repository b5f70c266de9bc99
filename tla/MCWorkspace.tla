---------------------------- MODULE MCWorkspace ----------------------------
(***************************************************************************)
(* Workspace for TLC: one file for each way to be discovered or not, and    *)
(* the trees that "anban workspace init" may find.                          *)
(***************************************************************************)
EXTENDS Workspace, TLC

\* The initialisers do the same.
Initialisers == Permutations(Initialiser)

Named(front, name) == [front |-> front, name |-> name, description |-> 20, is |-> {}, mentions |-> {}]
File(at, path, facts) ==
  [root |-> at, dirs |-> path, front |-> facts.front, name |-> facts.name,
   description |-> facts.description, is |-> facts.is, mentions |-> facts.mentions]
Plain == Named("none", "none")
Titled(name) == Named("fields", name)
Local(dir, facts) == File("workspace", <<dir>>, facts)

TheLogical == [none |-> "", helper |-> "helper", Helper |-> "helper", notes |-> "notes", symbols |-> ""]

ThePackaged == {File("package", <<"@anban", "clawhub">>, Titled("helper"))}

\* Good ones, some of which share a slug or have odd directories.
Good ==
  {File("workspace", <<"@me", "notes">>, Plain),
   Local("one", Titled("helper")), Local("two", Titled("Helper")),
   File("workspace", <<"drafts (old)", "three">>, Titled("notes"))}

\* Those that are not discovered, or stop the discovery.
Bad ==
  {File("workspace", <<"@anban", "clawhub">>, Plain), File("workspace", <<"@Me", "notes">>, Plain),
   Local("four", Plain), Local("five", [Titled("notes") EXCEPT !.description = 1025]),
   Local("six", [Titled("notes") EXCEPT !.mentions = {"api_key"}]),
   Local("seven", [Titled("notes") EXCEPT !.is = {"deep"}]),
   Local("eight", [Titled("notes") EXCEPT !.is = {"outside"}])}

TheInstallable == Good \cup Bad

-----------------------------------------------------------------------------
Bootstrap(variable, dotenv, default) ==
  [environment |-> variable, dotenv |-> dotenv, default |-> default]
TheBootstraps ==
  {Bootstrap(None, "absolute", "unavailable"), Bootstrap("blank", "absolute", "absolute")}

Values(url, secret, dev, test) ==
  [base_url |-> url, api_key |-> secret, development |-> dev, test |-> test]
Full == Values("good", "good", "good", "good")
TheEnvironments ==
  {NoValue, Values(None, None, "blank", None), Values("bad", None, None, "good"),
   Values("malformed", None, None, None), Values(None, None, "malformed", None)}
TheSecretFiles ==
  {Full, [Full EXCEPT !.test = "bad"], [Full EXCEPT !.api_key = None]}

Tree(theRoot, theDirs, theConfig, theSecrets) ==
  [root |-> theRoot, dirs |-> theDirs, config |-> theConfig, secrets |-> theSecrets]
TheTrees ==
  {Tree("absent", "absent", "absent", None), Tree("file", "absent", "absent", None),
   Tree("private", "directory", "edited", Full), Tree("private", "other", "edited", None),
   Tree("open", "absent", "link", None), Tree("open", "absent", "absent", Other)}

=============================================================================
