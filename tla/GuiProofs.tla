----------------------------- MODULE GuiProofs -----------------------------
(***************************************************************************)
(* Proofs about Gui, for any sizes of the pools that hold the largest page *)
(* and for any number of pages.                                            *)
(***************************************************************************)
EXTENDS Gui, SequenceTheorems, TLAPS

(* What a core has begun: the name and arguments of its next step, and     *)
(* what comes after it.                                                    *)
Work == Seq(Step)
NameOf(t) == IF t = <<>> THEN "idle" ELSE Head(t)[1]
Name(c) == NameOf(todo[c])
Tells(c) == Head(todo[c])[3]
Rest(c) == Tail(todo[c])

Redraws == << <<"redraw">> >>
Answers == << <<"answer", "captured">> >>
Opens == << <<"init">> >>
Moves == { << <<"nav_up">> >>, << <<"nav_down">> >> }
Ends == {<<>>, Redraws, Answers}

-----------------------------------------------------------------------------
(* Sequences of steps.                                                     *)
LEMMA One ==
    ASSUME NEW S, NEW a \in S
    PROVE  <<a>> \in Seq(S) /\ Len(<<a>>) = 1 /\ <<a>>[1] = a
OBVIOUS

LEMMA Pair ==
    ASSUME NEW S, NEW a \in S, NEW b \in S
    PROVE  <<a, b>> \in Seq(S) /\ <<a, b>> = <<a>> \o <<b>>
<1> DEFINE x == <<a>>
           y == <<b>>
           z == <<a, b>>
<1>1. x \in Seq(S) /\ Len(x) = 1 /\ x[1] = a
  BY One
<1>2. y \in Seq(S) /\ Len(y) = 1 /\ y[1] = b
  BY One
<1>3. z \in [1 .. 2 -> S]
  OBVIOUS
<1>4. z \in Seq(S) /\ Len(z) = 2 /\ z[1] = a /\ z[2] = b
  BY <1>3, SeqDef
<1> HIDE DEF x, y, z
<1>5. /\ x \o y \in Seq(S) /\ Len(x \o y) = 2
      /\ \A i \in 1 .. 2 : (x \o y)[i] = IF i <= 1 THEN x[i] ELSE y[i - 1]
  BY <1>1, <1>2, ConcatProperties
<1>6. \A i \in 1 .. 2 : (x \o y)[i] = z[i]
  BY <1>1, <1>2, <1>4, <1>5
<1>7. x \o y = z
  BY <1>4, <1>5, <1>6, SeqEqual
<1> QED
  BY <1>4, <1>7 DEF x, y, z

LEMMA Push ==
    ASSUME NEW S, NEW s \in S, NEW r \in Seq(S)
    PROVE  /\ <<s>> \o r \in Seq(S) /\ <<s>> \o r # <<>>
           /\ Head(<<s>> \o r) = s /\ Tail(<<s>> \o r) = r
<1> DEFINE o == <<s>>
           t == o \o r
<1>1. o \in Seq(S) /\ Len(o) = 1 /\ o[1] = s
  BY One
<1> HIDE DEF o
<1>2. /\ t \in Seq(S) /\ Len(t) = 1 + Len(r) /\ Len(r) \in Nat
      /\ \A i \in 1 .. 1 + Len(r) : t[i] = IF i <= 1 THEN o[i] ELSE r[i - 1]
  BY <1>1, ConcatProperties
<1> HIDE DEF t
<1>3. t # <<>> /\ Head(t) = s
  BY <1>1, <1>2
<1>4. Tail(t) = r
  <2>1. /\ Tail(t) \in Seq(S) /\ Len(Tail(t)) = Len(r)
        /\ \A i \in 1 .. Len(r) : Tail(t)[i] = t[i + 1]
    BY <1>2, <1>3
  <2>2. \A i \in 1 .. Len(r) : Tail(t)[i] = r[i]
    BY <1>2, <2>1
  <2> QED
    BY <2>1, <2>2, SeqEqual
<1> QED
  BY <1>2, <1>3, <1>4 DEF o, t

LEMMA PushTwo ==
    ASSUME NEW S, NEW a \in S, NEW b \in S, NEW r \in Seq(S)
    PROVE  /\ <<a, b>> \o r \in Seq(S) /\ <<a, b>> \o r # <<>>
           /\ Head(<<a, b>> \o r) = a /\ Tail(<<a, b>> \o r) = <<b>> \o r
<1> DEFINE x == <<a>>
           y == <<b>>
           z == <<a, b>>
<1>1. x \in Seq(S) /\ y \in Seq(S) /\ z = x \o y
  BY Pair, One
<1>2. y \o r \in Seq(S)
  BY Push
<1>3. /\ x \o (y \o r) \in Seq(S) /\ x \o (y \o r) # <<>>
      /\ Head(x \o (y \o r)) = a /\ Tail(x \o (y \o r)) = y \o r
  BY <1>2, Push
<1> HIDE DEF x, y, z
<1>4. z \o r = x \o (y \o r)
  BY <1>1, ConcatAssociative
<1> QED
  BY <1>3, <1>4 DEF x, y, z

LEMMA StepsAre ==
    /\ \A n \in {"init", "force", "sleep", "asleep", "nav_up", "nav_down", "pre_select",
                "cancel", "select", "held", "redraw", "update"} : <<n>> \in Step /\ <<n>>[1] = n
    /\ \A b \in Binding : /\ <<"fill", b>> \in Step /\ <<"fill", b>>[1] = "fill" /\ <<"fill", b>>[2] = b
                         /\ <<"draw", b>> \in Step /\ <<"draw", b>>[1] = "draw" /\ <<"draw", b>>[2] = b
    /\ \A b \in Button : <<"wake", b>> \in Step /\ <<"wake", b>>[1] = "wake" /\ <<"wake", b>>[2] = b
    /\ \A b \in Button : \A e \in {"DOWN", "REPEAT", "UP"} :
        /\ <<"offer", b, e>> \in Step /\ <<"offer", b, e>>[1] = "offer"
        /\ <<"offer", b, e>>[2] = b /\ <<"offer", b, e>>[3] = e
    /\ \A a \in {"captured", "ignored"} :
        <<"answer", a>> \in Step /\ <<"answer", a>>[1] = "answer" /\ <<"answer", a>>[2] = a
<1>1. \A n : <<n>>[1] = n
  OBVIOUS
<1>2. ASSUME NEW n \in {"init", "force", "sleep", "asleep", "nav_up", "nav_down", "pre_select",
                       "cancel", "select", "held", "redraw", "update"}
      PROVE  <<n>> \in Step
  BY DEF Step
<1>3. \A b \in Binding : /\ <<"fill", b>> \in Step /\ <<"fill", b>>[1] = "fill" /\ <<"fill", b>>[2] = b
                       /\ <<"draw", b>> \in Step /\ <<"draw", b>>[1] = "draw" /\ <<"draw", b>>[2] = b
  BY DEF Step
<1>4. \A b \in Button : <<"wake", b>> \in Step /\ <<"wake", b>>[1] = "wake" /\ <<"wake", b>>[2] = b
  BY DEF Step
<1>5. \A b \in Button : \A e \in {"DOWN", "REPEAT", "UP"} :
        /\ <<"offer", b, e>> \in Step /\ <<"offer", b, e>>[1] = "offer"
        /\ <<"offer", b, e>>[2] = b /\ <<"offer", b, e>>[3] = e
  BY DEF Step
<1>6. \A a \in {"captured", "ignored"} :
        <<"answer", a>> \in Step /\ <<"answer", a>>[1] = "answer" /\ <<"answer", a>>[2] = a
  BY DEF Step
<1> QED
  BY <1>1, <1>2, <1>3, <1>4, <1>5, <1>6

LEMMA NameIdle ==
    ASSUME NEW t \in Work
    PROVE  NameOf(t) = "idle" <=> t = <<>>
<1>1. ASSUME NEW s \in Step PROVE s[1] # "idle"
  <2> DEFINE single == {<<name>> : name \in {"init", "force", "sleep", "asleep", "nav_up", "nav_down",
                                        "pre_select", "cancel", "select", "held", "redraw", "update"}}
             bound == {"point", "fill", "draw"} \X Binding
             wake == {"wake"} \X Button
             offer == {"offer"} \X Button \X {"DOWN", "REPEAT", "UP"}
             answer == {"answer"} \X {"captured", "ignored"}
  <2>1. \A x \in single : x[1] # "idle"
    <3>1. \A name : <<name>>[1] = name
      OBVIOUS
    <3> QED
      BY <3>1
  <2>2. \A x \in bound : x[1] # "idle"
    OBVIOUS
  <2>3. \A x \in wake : x[1] # "idle"
    OBVIOUS
  <2>4. \A x \in offer : x[1] # "idle"
    OBVIOUS
  <2>5. \A x \in answer : x[1] # "idle"
    OBVIOUS
  <2>6. Step = single \cup bound \cup wake \cup offer \cup answer
    BY DEF Step
  <2> HIDE DEF single, bound, wake, offer, answer
  <2> QED
    BY <2>1, <2>2, <2>3, <2>4, <2>5, <2>6
<1>2. t # <<>> => Head(t) \in Step
  BY DEF Work
<1> QED
  BY <1>1, <1>2 DEF NameOf

(* The next step of a core after it has done one.                          *)
LEMMA Pushed ==
    ASSUME NEW s \in Step, NEW r \in Work
    PROVE  /\ <<s>> \o r \in Work /\ <<s>> \in Work
           /\ NameOf(<<s>> \o r) = s[1] /\ Head(<<s>> \o r) = s /\ Tail(<<s>> \o r) = r
<1>1. r \in Seq(Step)
  BY DEF Work
<1>2. /\ <<s>> \o r \in Seq(Step) /\ <<s>> \o r # <<>>
      /\ Head(<<s>> \o r) = s /\ Tail(<<s>> \o r) = r
  BY <1>1, Push
<1>3. <<s>> \in Seq(Step)
  BY One
<1> QED
  BY <1>2, <1>3 DEF Work, NameOf

LEMMA Binding2 ==
    ASSUME NEW b \in Binding, NEW r \in Work
    PROVE  /\ Bind(b) \in Work /\ Bind(b) \o r \in Work
           /\ NameOf(Bind(b) \o r) = "point" /\ Head(Bind(b) \o r)[2] = b
           /\ Tail(Bind(b) \o r) = Opens \o r
<1> DEFINE p == <<"point", b>>
           i == <<"init">>
<1>1. p \in Step /\ i \in Step /\ p[1] = "point" /\ p[2] = b
  BY DEF Step
<1>2. r \in Seq(Step)
  BY DEF Work
<1>3. Bind(b) = <<p, i>> /\ Opens = <<i>>
  BY DEF Bind, Opens
<1> HIDE DEF p, i
<1>4. /\ <<p, i>> \o r \in Seq(Step) /\ <<p, i>> \o r # <<>>
      /\ Head(<<p, i>> \o r) = p /\ Tail(<<p, i>> \o r) = <<i>> \o r
  BY <1>1, <1>2, PushTwo
<1>5. <<p, i>> \in Seq(Step)
  BY <1>1, Pair
<1> QED
  BY <1>1, <1>3, <1>4, <1>5 DEF Work, NameOf

LEMMA RestSteps ==
    /\ <<>> \in Work /\ Redraws \in Work /\ Answers \in Work
    /\ NameOf(<<>>) = "idle"
    /\ NameOf(Redraws) = "redraw" /\ Tail(Redraws) = <<>>
    /\ NameOf(Answers) = "answer" /\ Head(Answers)[2] = "captured" /\ Tail(Answers) = <<>>
    /\ \A r \in Work : <<>> \o r = r
    /\ \A m \in Moves : m \in Work /\ NameOf(m) \in {"nav_up", "nav_down"} /\ Tail(m) = <<>>
    /\ \A e \in Ends : /\ e \in Work /\ Opens \o e \in Work
                       /\ NameOf(Opens \o e) = "init" /\ Tail(Opens \o e) = e
<1>1. ASSUME NEW s \in Step
      PROVE  /\ <<s>> \in Work /\ NameOf(<<s>>) = s[1] /\ Head(<<s>>) = s /\ Tail(<<s>>) = <<>>
  BY DEF Work, NameOf
<1>2. <<>> \in Work /\ \A r \in Work : <<>> \o r = r
  BY DEF Work
<1> DEFINE d == <<"redraw">>
           a == <<"answer", "captured">>
           i == <<"init">>
           u == <<"nav_up">>
           n == <<"nav_down">>
<1>3. /\ d \in Step /\ a \in Step /\ i \in Step /\ u \in Step /\ n \in Step
      /\ d[1] = "redraw" /\ a[1] = "answer" /\ a[2] = "captured" /\ i[1] = "init"
      /\ u[1] = "nav_up" /\ n[1] = "nav_down"
  BY DEF Step
<1>4. Redraws = <<d>> /\ Answers = <<a>> /\ Opens = <<i>> /\ Moves = {<<u>>, <<n>>}
  BY DEF Redraws, Answers, Opens, Moves
<1> HIDE DEF d, a, i, u, n
<1>5. NameOf(<<>>) = "idle"
  BY DEF NameOf
<1>6. Redraws \in Work /\ NameOf(Redraws) = "redraw" /\ Tail(Redraws) = <<>>
  BY <1>1, <1>3, <1>4
<1>7. /\ Answers \in Work /\ NameOf(Answers) = "answer" /\ Head(Answers)[2] = "captured"
      /\ Tail(Answers) = <<>>
  BY <1>1, <1>3, <1>4
<1>8. \A m \in Moves : m \in Work /\ NameOf(m) \in {"nav_up", "nav_down"} /\ Tail(m) = <<>>
  BY <1>1, <1>3, <1>4
<1>9. ASSUME NEW e \in Ends
      PROVE  /\ e \in Work /\ Opens \o e \in Work
             /\ NameOf(Opens \o e) = "init" /\ Tail(Opens \o e) = e
  <2>1. e \in Work
    BY <1>2, <1>6, <1>7 DEF Ends
  <2> QED
    BY <1>3, <1>4, <2>1, Pushed
<1> QED
  BY <1>2, <1>5, <1>6, <1>7, <1>8, <1>9

LEMMA AnswersDiffer == Answers # <<>> /\ Redraws # <<>> /\ Answers # Redraws
BY RestSteps

-----------------------------------------------------------------------------
(* What the two cores may have begun.                                      *)
LoopShape ==
    LET c == "loop"
    IN  \/ Name(c) = "idle"
        \/ Name(c) \in {"redraw", "update", "draw"} /\ Rest(c) = <<>>
        \/ Name(c) = "sleep" /\ Rest(c) = Redraws
        \/ Name(c) = "asleep" /\ Rest(c) = Bind("aod") \o Redraws
        \/ Name(c) = "point" /\ Arg(c) = "aod" /\ Rest(c) = Opens \o Redraws
        \/ Name(c) = "point" /\ Arg(c) = "stats" /\ Rest(c) = Opens \o <<>>
        \/ Name(c) = "init" /\ Rest(c) \in {<<>>, Redraws}
        \/ Name(c) = "fill" /\ Arg(c) \in Binding /\ Rest(c) \in {<<>>, Redraws}

ButtonsShape ==
    LET c == "buttons"
    IN  \/ Name(c) = "idle"
        \/ Name(c) = "wake" /\ Arg(c) \in Button /\ Rest(c) = <<>>
        \/ /\ Name(c) = "offer" /\ Arg(c) \in Button /\ Rest(c) = <<>>
           /\ Tells(c) \in {"DOWN", "REPEAT", "UP"}
        \/ /\ Name(c) \in {"nav_up", "nav_down", "pre_select", "select", "held", "sleep"}
           /\ Rest(c) = <<>>
        \/ Name(c) = "answer" /\ Arg(c) \in {"captured", "ignored"} /\ Rest(c) = <<>>
        \/ Name(c) = "cancel" /\ Rest(c) \in Moves
        \/ Name(c) = "force" /\ (Rest(c) = <<>> \/ Rest(c) \in Moves)
        \/ Name(c) = "asleep" /\ Rest(c) = Bind("aod") \o <<>>
        \/ Name(c) = "point" /\ Arg(c) \in {"aod", "stats"} /\ Rest(c) = Opens \o <<>>
        \/ Name(c) = "point" /\ Arg(c) = "menu" /\ Rest(c) = Opens \o Answers
        \/ Name(c) = "init" /\ Rest(c) \in {<<>>, Answers}
        \/ Name(c) = "fill" /\ Arg(c) \in Binding /\ Rest(c) \in {<<>>, Answers}

Typed == TypeOK /\ LoopShape /\ ButtonsShape

(* A step of core c leaves what the other has begun as it is.              *)
Met == Name("loop") \in Binds /\ Name("buttons") # "idle"
Aside(c) ==
    /\ todo' \in [Core -> Work]
    /\ \A d \in Core : d # c => UNCHANGED <<Name(d), Arg(d), Tells(d), Rest(d)>>
    /\ raced' = (Met' \/ (raced /\ inactive' = inactive))

Goes(c, t) ==
    /\ Aside(c)
    /\ Name(c)' = NameOf(t) /\ Arg(c)' = Head(t)[2] /\ Tells(c)' = Head(t)[3]
    /\ Rest(c)' = Tail(t)

LEMMA Names ==
    ASSUME todo \in [Core -> Work]
    PROVE  /\ \A c \in Core : todo[c] = <<>> <=> Name(c) = "idle"
           /\ \A c \in Core : \A n : At(c, n) => Name(c) = n /\ todo[c] # <<>>
           /\ IsBinding(todo["loop"]) <=> Name("loop") \in Binds
           /\ Overlap(todo) <=> Met
<1>1. \A c \in Core : todo[c] = <<>> <=> Name(c) = "idle"
  BY NameIdle DEF Name
<1>2. "loop" \in Core /\ "buttons" \in Core
  BY DEF Core
<1>3. "idle" \notin Binds
  BY DEF Binds
<1> QED
  BY <1>1, <1>2, <1>3 DEF At, Name, NameOf, IsBinding, Overlap, Met

LEMMA DoesGoes ==
    ASSUME todo \in [Core -> Work], NEW c \in Core, NEW t \in Work, Does(c, t)
    PROVE  Goes(c, t)
<1>1. /\ todo' \in [Core -> Work] /\ todo'[c] = t
      /\ \A d \in Core : d # c => todo'[d] = todo[d]
      /\ raced' = (Overlap(todo') \/ (raced /\ inactive' = inactive))
  BY DEF Does
<1>2. Overlap(todo') <=> Met'
  <2>1. \A f \in [Core -> Work] :
          Overlap(f) <=> NameOf(f["loop"]) \in Binds /\ NameOf(f["buttons"]) # "idle"
    <3> TAKE f \in [Core -> Work]
    <3>1. "loop" \in Core /\ "buttons" \in Core /\ "idle" \notin Binds
      BY DEF Core, Binds
    <3>2. NameOf(f["buttons"]) = "idle" <=> f["buttons"] = <<>>
      BY <3>1, NameIdle
    <3>3. f["loop"] # <<>> => NameOf(f["loop"]) = Head(f["loop"])[1]
      BY DEF NameOf
    <3>4. f["loop"] = <<>> => NameOf(f["loop"]) = "idle"
      BY DEF NameOf
    <3> QED
      BY <3>1, <3>2, <3>3, <3>4 DEF Overlap, IsBinding
  <2> QED
    BY <1>1, <2>1 DEF Met, Name
<1>3. \A d \in Core : d # c => UNCHANGED <<Name(d), Arg(d), Tells(d), Rest(d)>>
  BY <1>1 DEF Name, Arg, Tells, Rest
<1> QED
  BY <1>1, <1>2, <1>3 DEF Goes, Aside, Name, Arg, Tells, Rest

LEMMA RestTyped ==
    ASSUME todo \in [Core -> Work], NEW c \in Core, todo[c] # <<>>
    PROVE  Rest(c) \in Work
BY DEF Rest, Work

(* The four ways to go on.                                                 *)
LEMMA Pops ==
    ASSUME todo \in [Core -> Work], NEW c \in Core, todo[c] # <<>>, Then(c, <<>>)
    PROVE  Goes(c, Rest(c))
<1>1. Rest(c) \in Work
  BY RestTyped
<1>2. <<>> \o Rest(c) = Rest(c)
  BY <1>1, RestSteps
<1>3. PICK t \in Work : t = Rest(c)
  BY <1>1
<1>4. Does(c, t)
  BY <1>2, <1>3 DEF Then, Rest
<1>5. Goes(c, t)
  BY <1>4, DoesGoes
<1> QED
  BY <1>3, <1>5 DEF Goes

LEMMA Pushes ==
    ASSUME todo \in [Core -> Work], NEW c \in Core, todo[c] # <<>>, NEW s \in Step, Then(c, <<s>>)
    PROVE  /\ Aside(c) /\ Name(c)' = s[1] /\ Arg(c)' = s[2] /\ Tells(c)' = s[3]
           /\ Rest(c)' = Rest(c)
<1>1. PICK r \in Work : r = Rest(c)
  BY RestTyped
<1>2. PICK t : t = <<s>> \o r
  OBVIOUS
<1>3. /\ t \in Work /\ NameOf(t) = s[1] /\ Head(t) = s /\ Tail(t) = r
  BY <1>1, <1>2, Pushed
<1>4. Does(c, t)
  BY <1>1, <1>2 DEF Then, Rest
<1>5. Goes(c, t)
  BY <1>3, <1>4, DoesGoes
<1> QED
  BY <1>1, <1>3, <1>5 DEF Goes

LEMMA Rebinds ==
    ASSUME todo \in [Core -> Work], NEW c \in Core, todo[c] # <<>>, NEW b \in Binding,
           Then(c, Bind(b))
    PROVE  /\ Aside(c) /\ Name(c)' = "point" /\ Arg(c)' = b
           /\ Rest(c)' = Opens \o Rest(c)
<1>1. PICK r \in Work : r = Rest(c)
  BY RestTyped
<1>2. PICK t : t = Bind(b) \o r
  OBVIOUS
<1>3. t \in Work /\ NameOf(t) = "point" /\ Head(t)[2] = b /\ Tail(t) = Opens \o r
  BY <1>1, <1>2, Binding2
<1>4. Does(c, t)
  BY <1>1, <1>2 DEF Then, Rest
<1>5. Goes(c, t)
  BY <1>3, <1>4, DoesGoes
<1> QED
  BY <1>1, <1>3, <1>5 DEF Goes

LEMMA Falls ==
    ASSUME todo \in [Core -> Work], NEW c \in Core, todo[c] # <<>>,
           Then(c, << <<"asleep">> >> \o Bind("aod"))
    PROVE  /\ Aside(c) /\ Name(c)' = "asleep" /\ Rest(c)' = Bind("aod") \o Rest(c)
<1>1. PICK r \in Work : r = Rest(c)
  BY RestTyped
<1>2. PICK s \in Step : s = <<"asleep">> /\ s[1] = "asleep"
  BY StepsAre
<1>3. PICK b \in Work : b = Bind("aod") /\ b \o r \in Work
  BY Binding2, RestSteps DEF Binding
<1>4. PICK t : t = <<s>> \o (b \o r)
  OBVIOUS
<1>5. t \in Work /\ NameOf(t) = "asleep" /\ Tail(t) = b \o r /\ <<s>> \in Work
  BY <1>1, <1>2, <1>3, <1>4, Pushed
<1>6. (<<s>> \o b) \o r = t
  <2>1. <<s>> \in Seq(Step) /\ b \in Seq(Step) /\ r \in Seq(Step)
    BY <1>5 DEF Work
  <2> QED
    BY <1>4, <2>1, ConcatAssociative
<1>7. Does(c, t)
  BY <1>1, <1>2, <1>3, <1>6 DEF Then, Rest
<1>8. Goes(c, t)
  BY <1>5, <1>7, DoesGoes
<1> QED
  BY <1>1, <1>3, <1>5, <1>8 DEF Goes

-----------------------------------------------------------------------------
(* What each action does, in these terms.                                  *)
LEMMA TodoTyped == Typed => todo \in [Core -> Work]
BY DEF Typed, TypeOK, Work

LEMMA Doing ==
    ASSUME Typed, NEW c \in Core, NEW n, At(c, n)
    PROVE  Name(c) = n /\ todo[c] # <<>> /\ todo \in [Core -> Work] /\ Rest(c) \in Work
BY TodoTyped, Names, RestTyped

LEMMA PointDoes ==
    ASSUME Typed, NEW c \in Core, Point(c)
    PROVE  /\ Name(c) = "point" /\ binding' = Arg(c) /\ Arg(c) \in Binding
           /\ Aside(c) /\ Name(c)' = "init" /\ Rest(c)' \in Ends
           /\ \A e \in Ends : Rest(c) = Opens \o e => Rest(c)' = e
           /\ UNCHANGED <<page, selected, menuPre, objects, inactive, idle, force, shown,
                          preSelecting, longSelect, pressed>>
<1>1. At(c, "point") /\ Then(c, <<>>)
  BY DEF Point
<1>2. Goes(c, Rest(c)) /\ Name(c) = "point"
  BY <1>1, Doing, Pops
<1>3. PICK e \in Ends : Rest(c) = Opens \o e
  BY <1>2 DEF Typed, LoopShape, ButtonsShape, Core, Ends
<1>4. NameOf(Rest(c)) = "init" /\ \A d \in Ends : Rest(c) = Opens \o d => Tail(Rest(c)) = d
  BY <1>3, RestSteps
<1>5. Arg(c) \in Binding
  BY <1>2 DEF Typed, LoopShape, ButtonsShape, Core, Binding
<1> QED
  BY <1>2, <1>3, <1>4, <1>5 DEF Goes, Point, modeVars, loopVars, pressVars

LEMMA OpenDoes ==
    ASSUME Typed, NEW c \in Core, Open(c), binding \in Binding
    PROVE  /\ Name(c) = "init" /\ objects' = <<>>
           /\ selected' = IF binding = "menu" THEN 1 ELSE selected
           /\ menuPre' = (menuPre /\ binding # "menu")
           /\ Aside(c) /\ Name(c)' = "fill" /\ Arg(c)' = binding /\ Rest(c)' = Rest(c)
           /\ UNCHANGED <<binding, page, inactive, idle, force, shown,
                          preSelecting, longSelect, pressed>>
<1>1. At(c, "init") /\ Then(c, << <<"fill", binding>> >>)
  BY DEF Open
<1>2. PICK s \in Step : s = <<"fill", binding>> /\ s[1] = "fill" /\ s[2] = binding
  <2>1. PICK b \in Binding : b = binding
    OBVIOUS
  <2>2. <<"fill", b>> \in Step /\ <<"fill", b>>[1] = "fill" /\ <<"fill", b>>[2] = b
    BY StepsAre
  <2> QED
    BY <2>1, <2>2
<1>3. Aside(c) /\ Name(c)' = s[1] /\ Arg(c)' = s[2] /\ Rest(c)' = Rest(c)
  BY <1>1, <1>2, Doing, Pushes
<1>4. Name(c) = "init"
  BY <1>1, Doing
<1> QED
  BY <1>2, <1>3, <1>4 DEF Open, modeVars, loopVars, pressVars

LEMMA EndDoes ==
    ASSUME NEW e \in Ends, NEW c \in Core, Goes(c, e)
    PROVE  \/ e = <<>> /\ Name(c)' = "idle"
           \/ e = Redraws /\ Name(c)' = "redraw" /\ Rest(c)' = <<>>
           \/ e = Answers /\ Name(c)' = "answer" /\ Arg(c)' = "captured" /\ Rest(c)' = <<>>
BY RestSteps DEF Ends, Goes

LEMMA FillDoes ==
    ASSUME Typed, NEW c \in Core, Fill(c)
    PROVE  /\ Name(c) = "fill" /\ Arg(c) \in Binding /\ force' = TRUE
           /\ LET more == objects \o Layers(Arg(c))
              IN  objects' = IF HasInstances(more) /\ HasObjects(more) THEN more ELSE objects
           /\ Aside(c) /\ Rest(c) \in Ends
           /\ \/ Rest(c) = <<>> /\ Name(c)' = "idle"
              \/ Rest(c) = Redraws /\ Name(c)' = "redraw" /\ Rest(c)' = <<>>
              \/ Rest(c) = Answers /\ Name(c)' = "answer" /\ Arg(c)' = "captured" /\ Rest(c)' = <<>>
           /\ UNCHANGED <<binding, page, selected, menuPre, inactive, idle, shown,
                          preSelecting, longSelect, pressed>>
<1>1. At(c, "fill") /\ Then(c, <<>>)
  BY DEF Fill
<1>2. Goes(c, Rest(c)) /\ Name(c) = "fill"
  BY <1>1, Doing, Pops
<1>3. Rest(c) \in Ends /\ Arg(c) \in Binding
  BY <1>2 DEF Typed, LoopShape, ButtonsShape, Core, Ends
<1>4. PICK e \in Ends : e = Rest(c)
  BY <1>3
<1>5. Goes(c, e)
  BY <1>2, <1>4 DEF Goes
<1>6. Aside(c)
  BY <1>2 DEF Goes
<1> QED
  BY <1>2, <1>3, <1>4, <1>5, <1>6, EndDoes DEF Fill, boundVars, modeVars, pressVars

LEMMA ForceDoes ==
    ASSUME Typed, NEW c \in Core, UpdateNow(c)
    PROVE  /\ c = "buttons" /\ Name(c) = "force" /\ force' = TRUE
           /\ Aside(c)
           /\ \/ Name(c)' = "idle"
              \/ Name(c)' \in {"nav_up", "nav_down"} /\ Rest(c)' = <<>>
           /\ UNCHANGED <<binding, page, selected, menuPre, objects, inactive, idle, shown,
                          preSelecting, longSelect, pressed>>
<1>1. At(c, "force") /\ Then(c, <<>>)
  BY DEF UpdateNow
<1>2. Goes(c, Rest(c)) /\ Name(c) = "force"
  BY <1>1, Doing, Pops
<1>3. c = "buttons" /\ (Rest(c) = <<>> \/ Rest(c) \in Moves)
  BY <1>2 DEF Typed, LoopShape, ButtonsShape, Core
<1>4. \/ NameOf(Rest(c)) = "idle"
      \/ NameOf(Rest(c)) \in {"nav_up", "nav_down"} /\ Tail(Rest(c)) = <<>>
  BY <1>3, RestSteps
<1> QED
  BY <1>2, <1>3, <1>4 DEF Goes, UpdateNow, boundVars, modeVars, pressVars

LEMMA SleepDoes ==
    ASSUME Typed, NEW c \in Core, Sleep(c)
    PROVE  /\ Name(c) = "sleep"
           /\ Aside(c)
           /\ \/ /\ ~inactive /\ Name(c)' = "asleep"
                 /\ c = "loop" => Rest(c)' = Bind("aod") \o Redraws
                 /\ c = "buttons" => Rest(c)' = Bind("aod") \o <<>>
              \/ inactive /\ c = "buttons" /\ Name(c)' = "idle"
              \/ inactive /\ c = "loop" /\ Name(c)' = "redraw" /\ Rest(c)' = <<>>
           /\ UNCHANGED <<binding, page, selected, menuPre, objects, inactive, idle, force, shown,
                          preSelecting, longSelect, pressed>>
<1>1. /\ At(c, "sleep") /\ inactive \in BOOLEAN
      /\ Then(c, IF inactive THEN <<>> ELSE << <<"asleep">> >> \o Bind("aod"))
  BY DEF Sleep, Typed, TypeOK
<1>2. Name(c) = "sleep"
  BY <1>1, Doing
<1>3. \/ c = "loop" /\ Rest(c) = Redraws
      \/ c = "buttons" /\ Rest(c) = <<>>
  BY <1>2 DEF Typed, LoopShape, ButtonsShape, Core
<1>4. CASE inactive
  <2>1. Goes(c, Rest(c))
    BY <1>1, <1>4, Doing, Pops
  <2>2. \/ c = "loop" /\ NameOf(Rest(c)) = "redraw" /\ Tail(Rest(c)) = <<>>
        \/ c = "buttons" /\ NameOf(Rest(c)) = "idle"
    BY <1>3, RestSteps
  <2> QED
    BY <1>2, <1>4, <2>1, <2>2 DEF Goes, Sleep, boundVars, modeVars, loopVars, pressVars
<1>5. CASE ~inactive
  <2>1. Aside(c) /\ Name(c)' = "asleep" /\ Rest(c)' = Bind("aod") \o Rest(c)
    BY <1>1, <1>5, Doing, Falls
  <2> QED
    BY <1>2, <1>3, <1>5, <2>1 DEF Sleep, boundVars, modeVars, loopVars, pressVars
<1> QED
  BY <1>4, <1>5

LEMMA AsleepDoes ==
    ASSUME Typed, NEW c \in Core, Asleep(c)
    PROVE  /\ Name(c) = "asleep" /\ inactive' = TRUE
           /\ Aside(c) /\ Name(c)' = "point" /\ Arg(c)' = "aod"
           /\ c = "loop" => Rest(c)' = Opens \o Redraws
           /\ c = "buttons" => Rest(c)' = Opens \o <<>>
           /\ UNCHANGED <<binding, page, selected, menuPre, objects, idle, force, shown,
                          preSelecting, longSelect, pressed>>
<1>1. At(c, "asleep") /\ Then(c, <<>>)
  BY DEF Asleep
<1>2. Goes(c, Rest(c)) /\ Name(c) = "asleep"
  BY <1>1, Doing, Pops
<1>3. PICK e \in Work : /\ Rest(c) = Bind("aod") \o e
                        /\ e = IF c = "loop" THEN Redraws ELSE <<>>
  BY <1>2, RestSteps DEF Typed, LoopShape, ButtonsShape, Core
<1>4. PICK b \in Binding : b = "aod"
  BY DEF Binding
<1>5. /\ NameOf(Rest(c)) = "point" /\ Head(Rest(c))[2] = "aod"
      /\ Tail(Rest(c)) = Opens \o e
  <2>1. /\ NameOf(Bind(b) \o e) = "point" /\ Head(Bind(b) \o e)[2] = b
        /\ Tail(Bind(b) \o e) = Opens \o e
    BY Binding2
  <2> QED
    BY <1>3, <1>4, <2>1
<1> QED
  BY <1>2, <1>3, <1>5 DEF Goes, Asleep, boundVars, loopVars, pressVars

LEMMA WakeDoes ==
    ASSUME Typed, Wake("buttons")
    PROVE  LET c == "buttons" IN
           /\ Name(c) = "wake" /\ inactive' = FALSE
           /\ Aside(c)
           /\ \/ inactive /\ Name(c)' = "point" /\ Arg(c)' = "stats" /\ Rest(c)' = Opens \o <<>>
              \/ /\ ~inactive /\ Name(c)' = "offer" /\ Arg(c)' = Arg(c) /\ Tells(c)' = "DOWN"
                 /\ Arg(c) \in Button /\ Rest(c)' = <<>>
           /\ UNCHANGED <<binding, page, selected, menuPre, objects, idle, force, shown,
                          preSelecting, longSelect, pressed>>
<1> DEFINE c == "buttons"
<1>1. /\ At(c, "wake") /\ inactive \in BOOLEAN
      /\ Then(c, IF inactive THEN Bind("stats") ELSE Offer(Arg(c), "DOWN"))
  BY DEF Wake, Typed, TypeOK
<1>2. c \in Core /\ Name(c) = "wake"
  BY <1>1, Doing DEF Core
<1>3. Arg(c) \in Button /\ Rest(c) = <<>>
  BY <1>2 DEF Typed, ButtonsShape
<1>4. CASE inactive
  <2>1. PICK b \in Binding : b = "stats"
    BY DEF Binding
  <2>2. Aside(c) /\ Name(c)' = "point" /\ Arg(c)' = b /\ Rest(c)' = Opens \o Rest(c)
    BY <1>1, <1>2, <1>4, <2>1, Doing, Rebinds
  <2> QED
    BY <1>2, <1>3, <1>4, <2>1, <2>2 DEF Wake, boundVars, loopVars, pressVars
<1>5. CASE ~inactive
  <2>1. PICK b \in Button, e \in {"DOWN", "REPEAT", "UP"} : b = Arg(c) /\ e = "DOWN"
    BY <1>3
  <2>2. PICK s \in Step : s = <<"offer", b, e>> /\ s[1] = "offer" /\ s[2] = b /\ s[3] = e
    <3>1. /\ <<"offer", b, e>> \in Step /\ <<"offer", b, e>>[1] = "offer"
          /\ <<"offer", b, e>>[2] = b /\ <<"offer", b, e>>[3] = e
      BY StepsAre
    <3> QED
      BY <3>1
  <2>3. Then(c, <<s>>)
    BY <1>1, <1>5, <2>1, <2>2 DEF Offer
  <2>4. /\ Aside(c) /\ Name(c)' = s[1] /\ Arg(c)' = s[2] /\ Tells(c)' = s[3]
        /\ Rest(c)' = Rest(c)
    BY <1>1, <1>2, <2>3, Doing, Pushes
  <2> QED
    BY <1>2, <1>3, <1>5, <2>1, <2>2, <2>4 DEF Wake, boundVars, loopVars, pressVars
<1> QED
  BY <1>4, <1>5

(* A step of the buttons' core after which it is done or has one more to do. *)
LEMMA LastStep ==
    ASSUME Typed, Rest("buttons") = <<>>, todo["buttons"] # <<>>
    PROVE  /\ Then("buttons", <<>>) => Aside("buttons") /\ Name("buttons")' = "idle"
           /\ \A s \in Step : Then("buttons", <<s>>) =>
                /\ Aside("buttons") /\ Name("buttons")' = s[1] /\ Arg("buttons")' = s[2]
                /\ Rest("buttons")' = <<>>
<1>1. "buttons" \in Core /\ todo \in [Core -> Work]
  BY TodoTyped DEF Core
<1>2. ASSUME Then("buttons", <<>>) PROVE Aside("buttons") /\ Name("buttons")' = "idle"
  <2>1. Goes("buttons", Rest("buttons"))
    BY <1>1, <1>2, Pops
  <2> QED
    BY <2>1, RestSteps DEF Goes
<1>3. ASSUME NEW s \in Step, Then("buttons", <<s>>)
      PROVE  /\ Aside("buttons") /\ Name("buttons")' = s[1] /\ Arg("buttons")' = s[2]
             /\ Rest("buttons")' = <<>>
  BY <1>1, <1>3, Pushes
<1> QED
  BY <1>2, <1>3

LEMMA CaptureDoes ==
    ASSUME Typed, Capture
    PROVE  LET c == "buttons" IN
           /\ Name(c) = "offer" /\ binding \in {"none", "aod"}
           /\ Aside(c) /\ Name(c)' = "idle"
           /\ UNCHANGED <<binding, page, selected, menuPre, objects, inactive, idle, force, shown,
                          preSelecting, longSelect, pressed>>
<1> DEFINE c == "buttons"
<1>1. At(c, "offer") /\ Then(c, <<>>) /\ c \in Core
  BY DEF Capture, Core
<1>2. Name(c) = "offer" /\ todo[c] # <<>>
  BY <1>1, Doing
<1>3. Rest(c) = <<>>
  BY <1>2 DEF Typed, ButtonsShape
<1>4. Aside(c) /\ Name(c)' = "idle"
  BY <1>1, <1>2, <1>3, LastStep
<1> QED
  BY <1>2, <1>4 DEF Capture, boundVars, modeVars, loopVars, pressVars

LEMMA OfferedIs ==
    ASSUME Typed, NEW b, NEW e, Offered(b, e)
    PROVE  /\ "buttons" \in Core /\ todo["buttons"] # <<>>
           /\ Name("buttons") = "offer" /\ Arg("buttons") = b /\ Tells("buttons") = e
           /\ Rest("buttons") = <<>>
<1>1. At("buttons", "offer") /\ "buttons" \in Core /\ Arg("buttons") = b /\ Tells("buttons") = e
  BY DEF Offered, Core, Arg, Tells
<1>2. Name("buttons") = "offer" /\ todo["buttons"] # <<>>
  BY <1>1, Doing
<1> QED
  BY <1>1, <1>2 DEF Typed, ButtonsShape

LEMMA NavigateDoes ==
    ASSUME Typed, NEW b \in Button, Navigate(b)
    PROVE  LET c == "buttons" IN
           /\ Name(c) = "offer" /\ binding \in {"stats", "menu"} /\ preSelecting' = FALSE
           /\ Aside(c)
           /\ \/ preSelecting /\ Name(c)' = "cancel" /\ Rest(c)' \in Moves
              \/ ~preSelecting /\ Name(c)' \in {"nav_up", "nav_down"} /\ Rest(c)' = <<>>
           /\ UNCHANGED <<binding, page, selected, menuPre, objects, inactive, idle, force, shown,
                          longSelect, pressed>>
<1> DEFINE c == "buttons"
<1>1. /\ Offered(b, "DOWN") /\ b \in {"nav_up", "nav_down"} /\ preSelecting \in BOOLEAN
      /\ Then(c, IF preSelecting THEN << <<"cancel">>, <<b>> >> ELSE << <<b>> >>)
  BY DEF Navigate, Button, Typed, TypeOK
<1>2. c \in Core /\ todo[c] # <<>> /\ Name(c) = "offer" /\ Rest(c) = <<>>
  BY <1>1, OfferedIs
<1>3. PICK s \in Step : s = <<b>> /\ s[1] = b
  BY <1>1, StepsAre
<1>4. CASE preSelecting
  <2>1. PICK x \in Step : x = <<"cancel">> /\ x[1] = "cancel"
    BY StepsAre
  <2>2. PICK t : t = <<x, s>>
    OBVIOUS
  <2>3. PICK r \in Work : r = <<>>
    BY RestSteps
  <2>4. PICK u : u = t \o r
    OBVIOUS
  <2>5. r \in Seq(Step)
    BY DEF Work
  <2>6. /\ u \in Seq(Step) /\ u # <<>> /\ Head(u) = x /\ Tail(u) = <<s>> \o r
    BY <2>2, <2>4, <2>5, PushTwo
  <2>7. <<s>> \o r = <<s>>
    <3>1. <<s>> \in Seq(Step)
      BY One
    <3> QED
      BY <2>3, <3>1, ConcatEmptySeq
  <2>8. Then(c, t)
    BY <1>1, <1>3, <1>4, <2>1, <2>2
  <2>9. Does(c, u)
    BY <1>2, <2>3, <2>4, <2>8 DEF Then, Rest
  <2>10. Goes(c, u)
    BY <1>2, <2>6, <2>9, DoesGoes, TodoTyped DEF Work
  <2>11. NameOf(u) = "cancel" /\ Tail(u) \in Moves
    BY <1>1, <1>3, <2>1, <2>6, <2>7 DEF NameOf, Moves
  <2> QED
    BY <1>2, <1>4, <2>10, <2>11 DEF Goes, Navigate, boundVars, modeVars, loopVars
<1>5. CASE ~preSelecting
  <2>1. Aside(c) /\ Name(c)' = s[1] /\ Rest(c)' = <<>>
    BY <1>1, <1>2, <1>3, <1>5, LastStep
  <2> QED
    BY <1>1, <1>2, <1>3, <1>5, <2>1 DEF Navigate, boundVars, modeVars, loopVars
<1> QED
  BY <1>4, <1>5

LEMMA SelectUpDoes ==
    ASSUME Typed, SelectUp
    PROVE  LET c == "buttons" IN
           /\ Name(c) = "offer" /\ Tells(c) = "UP" /\ binding \in {"stats", "menu"}
           /\ longSelect' = IF longSelect = "captured" THEN "no" ELSE longSelect
           /\ Aside(c)
           /\ \/ /\ preSelecting /\ longSelect # "captured"
                 /\ Name(c)' = "select" /\ Rest(c)' = <<>>
                 /\ todo'[c] = << <<"select">> >>
              \/ /\ ~(preSelecting /\ longSelect # "captured")
                 /\ Name(c)' = "idle" /\ todo'[c] = <<>>
           /\ UNCHANGED <<binding, page, selected, menuPre, objects, inactive, idle, force, shown,
                          preSelecting, pressed>>
<1> DEFINE c == "buttons"
<1>1. /\ Offered("select", "UP") /\ preSelecting \in BOOLEAN
      /\ Then(c, IF preSelecting /\ longSelect # "captured" THEN << <<"select">> >> ELSE <<>>)
  BY DEF SelectUp, Typed, TypeOK
<1>2. c \in Core /\ todo[c] # <<>> /\ Name(c) = "offer" /\ Tells(c) = "UP" /\ Rest(c) = <<>>
  BY <1>1, OfferedIs
<1>3. todo \in [Core -> Work]
  BY TodoTyped
<1>4. CASE preSelecting /\ longSelect # "captured"
  <2>1. PICK s \in Step : s = <<"select">> /\ s[1] = "select"
    BY StepsAre
  <2>2. Then(c, <<s>>)
    BY <1>1, <1>4, <2>1
  <2>3. Aside(c) /\ Name(c)' = s[1] /\ Rest(c)' = <<>>
    BY <1>2, <2>2, LastStep
  <2>4. <<s>> \o <<>> = <<s>>
    BY One, ConcatEmptySeq
  <2>5. todo'[c] = <<s>>
    BY <1>2, <1>3, <2>2, <2>4 DEF Then, Does, Rest
  <2> QED
    BY <1>2, <1>4, <2>1, <2>3, <2>5 DEF SelectUp, boundVars, modeVars, loopVars
<1>5. CASE ~(preSelecting /\ longSelect # "captured")
  <2>1. Then(c, <<>>)
    BY <1>1, <1>5
  <2>2. Aside(c) /\ Name(c)' = "idle"
    BY <1>2, <2>1, LastStep
  <2>3. todo'[c] = <<>>
    BY <1>2, <1>3, <2>1, RestSteps DEF Then, Does, Rest
  <2> QED
    BY <1>2, <1>5, <2>2, <2>3 DEF SelectUp, boundVars, modeVars, loopVars
<1> QED
  BY <1>4, <1>5

LEMMA SelectDownDoes ==
    ASSUME Typed, SelectDown
    PROVE  LET c == "buttons" IN
           /\ Name(c) = "offer" /\ Arg(c) = "select" /\ Tells(c) = "DOWN"
           /\ binding \in {"stats", "menu"}
           /\ preSelecting' = TRUE /\ longSelect' = "no"
           /\ Aside(c) /\ Name(c)' = "pre_select" /\ Rest(c)' = <<>>
           /\ UNCHANGED <<binding, page, selected, menuPre, objects, inactive, idle, force, shown,
                          pressed>>
<1> DEFINE c == "buttons"
<1>1. Offered("select", "DOWN") /\ Then(c, << <<"pre_select">> >>)
  BY DEF SelectDown
<1>2. /\ todo[c] # <<>> /\ Name(c) = "offer" /\ Rest(c) = <<>>
      /\ Arg(c) = "select" /\ Tells(c) = "DOWN"
  BY <1>1, OfferedIs
<1>3. PICK s \in Step : s = <<"pre_select">> /\ s[1] = "pre_select"
  BY StepsAre
<1>4. Aside(c) /\ Name(c)' = s[1] /\ Rest(c)' = <<>>
  BY <1>1, <1>2, <1>3, LastStep
<1> QED
  BY <1>2, <1>3, <1>4 DEF SelectDown, boundVars, modeVars, loopVars

LEMMA SelectRepeatDoes ==
    ASSUME Typed, SelectRepeat
    PROVE  LET c == "buttons" IN
           /\ Name(c) = "offer" /\ Tells(c) = "REPEAT" /\ binding \in {"stats", "menu"}
           /\ Aside(c)
           /\ \/ preSelecting /\ longSelect = "no" /\ Name(c)' = "held" /\ Rest(c)' = <<>>
              \/ Name(c)' = "idle"
           /\ UNCHANGED <<binding, page, selected, menuPre, objects, inactive, idle, force, shown,
                          preSelecting, longSelect, pressed>>
<1> DEFINE c == "buttons"
<1>1. /\ Offered("select", "REPEAT")
      /\ Then(c, IF preSelecting /\ longSelect = "no" THEN << <<"held">> >> ELSE <<>>)
  BY DEF SelectRepeat
<1>2. todo[c] # <<>> /\ Name(c) = "offer" /\ Tells(c) = "REPEAT" /\ Rest(c) = <<>>
  BY <1>1, OfferedIs
<1>3. PICK s \in Step : s = <<"held">> /\ s[1] = "held"
  BY StepsAre
<1>4. \/ /\ preSelecting /\ longSelect = "no"
         /\ Aside(c) /\ Name(c)' = s[1] /\ Rest(c)' = <<>>
      \/ Aside(c) /\ Name(c)' = "idle"
  BY <1>1, <1>2, <1>3, LastStep
<1> QED
  BY <1>2, <1>3, <1>4 DEF SelectRepeat, boundVars, modeVars, loopVars, pressVars

LEMMA IgnoreDoes ==
    ASSUME Typed, Ignore("buttons")
    PROVE  LET c == "buttons" IN
           /\ Name(c) \in {"nav_up", "nav_down", "pre_select", "cancel", "select"}
           /\ NoHandler(Name(c))
           /\ Aside(c)
           /\ \/ Name(c)' = "idle"
              \/ /\ Name(c) = "cancel"
                 /\ Name(c)' \in {"nav_up", "nav_down"} /\ Rest(c)' = <<>>
           /\ UNCHANGED <<binding, page, selected, menuPre, objects, inactive, idle, force, shown,
                          preSelecting, longSelect, pressed>>
<1> DEFINE c == "buttons"
<1>1. PICK name \in {"nav_up", "nav_down", "pre_select", "cancel", "select"} :
        At(c, name) /\ NoHandler(name)
  BY DEF Ignore
<1>2. Then(c, <<>>) /\ c \in Core
  BY DEF Ignore, Core
<1>3. Name(c) = name /\ Goes(c, Rest(c))
  BY <1>1, <1>2, Doing, Pops
<1>4. Rest(c) = <<>> \/ (name = "cancel" /\ Rest(c) \in Moves)
  BY <1>1, <1>3 DEF Typed, ButtonsShape
<1>5. \/ NameOf(Rest(c)) = "idle"
      \/ /\ name = "cancel"
         /\ NameOf(Rest(c)) \in {"nav_up", "nav_down"} /\ Tail(Rest(c)) = <<>>
  BY <1>4, RestSteps
<1> QED
  BY <1>1, <1>3, <1>5 DEF Goes, Ignore, boundVars, modeVars, loopVars, pressVars

LEMMA MoveDoes ==
    ASSUME Typed, Move("buttons")
    PROVE  LET c == "buttons" IN
           /\ Name(c) \in {"nav_up", "nav_down"}
           /\ Aside(c)
           /\ \/ /\ binding = "stats" /\ page' \in 1 .. LastPage /\ UNCHANGED selected
                 /\ Name(c)' = "point" /\ Arg(c)' = "stats" /\ Rest(c)' = Opens \o <<>>
              \/ /\ binding = "menu" /\ selected' \in DOMAIN Item /\ UNCHANGED page
                 /\ Name(c)' = "force" /\ Rest(c)' = <<>>
              \/ /\ binding \in {"stats", "menu"} /\ UNCHANGED <<page, selected>>
                 /\ Name(c)' = "idle"
           /\ UNCHANGED <<binding, menuPre, objects, inactive, idle, force, shown,
                          preSelecting, longSelect, pressed>>
<1> DEFINE c == "buttons"
<1>0. PICK move \in {<<"nav_up", -1>>, <<"nav_down", 1>>} :
        /\ At(c, move[1])
        /\ \/ /\ binding = "stats"
              /\ LET to == page + move[2]
                 IN  /\ page' = IF InPages(to) THEN to ELSE page
                     /\ UNCHANGED <<selected, binding, menuPre, objects, modeVars, loopVars, pressVars>>
                     /\ Then(c, IF InPages(to) THEN Bind("stats") ELSE <<>>)
           \/ /\ binding = "menu"
              /\ LET to == selected + move[2]
                 IN  /\ selected' = IF to \in DOMAIN Item THEN to ELSE selected
                     /\ UNCHANGED <<page, binding, menuPre, objects, modeVars, loopVars, pressVars>>
                     /\ Then(c, IF to \in DOMAIN Item THEN << <<"force">> >> ELSE <<>>)
  BY DEF Move
<1>a. move[1] \in {"nav_up", "nav_down"}
  <2>1. \A x : \A y : <<x, y>>[1] = x
    OBVIOUS
  <2> QED
    BY <2>1
<1>1. PICK name, d :
        /\ name \in {"nav_up", "nav_down"} /\ At(c, name)
        /\ \/ /\ binding = "stats"
              /\ LET to == page + d
                 IN  /\ page' = IF InPages(to) THEN to ELSE page
                     /\ UNCHANGED <<selected, binding, menuPre, objects, modeVars, loopVars, pressVars>>
                     /\ Then(c, IF InPages(to) THEN Bind("stats") ELSE <<>>)
           \/ /\ binding = "menu"
              /\ LET to == selected + d
                 IN  /\ selected' = IF to \in DOMAIN Item THEN to ELSE selected
                     /\ UNCHANGED <<page, binding, menuPre, objects, modeVars, loopVars, pressVars>>
                     /\ Then(c, IF to \in DOMAIN Item THEN << <<"force">> >> ELSE <<>>)
  <2> HIDE DEF c
  <2> PICK name, d : name = move[1] /\ d = move[2]
    OBVIOUS
  <2> QED
    BY <1>0, <1>a
<1>2. c \in Core
  BY DEF Core
<1>3. Name(c) = name /\ todo[c] # <<>> /\ todo \in [Core -> Work]
  BY <1>1, <1>2, Doing
<1>4. Rest(c) = <<>>
  BY <1>1, <1>3 DEF Typed, ButtonsShape
<1>5. PICK b \in Binding : b = "stats"
  BY DEF Binding
<1>6. PICK s \in Step : s = <<"force">> /\ s[1] = "force"
  BY StepsAre
<1>7. /\ Then(c, Bind(b)) =>
           /\ Aside(c) /\ Name(c)' = "point" /\ Arg(c)' = b
           /\ Rest(c)' = Opens \o <<>>
      /\ Then(c, <<>>) => Aside(c) /\ Name(c)' = "idle"
      /\ Then(c, <<s>>) => Aside(c) /\ Name(c)' = s[1] /\ Rest(c)' = <<>>
  BY <1>2, <1>3, <1>4, LastStep, Rebinds
<1>8. CASE binding = "stats"
  <2>1. PICK to : to = page + d
    OBVIOUS
  <2>2. CASE InPages(to)
    BY <1>1, <1>3, <1>5, <1>7, <1>8, <2>1, <2>2 DEF InPages, modeVars, loopVars, pressVars
  <2>3. CASE ~InPages(to)
    BY <1>1, <1>3, <1>7, <1>8, <2>1, <2>3 DEF modeVars, loopVars, pressVars
  <2> QED
    BY <2>2, <2>3
<1>9. CASE binding = "menu"
  <2>1. PICK to : to = selected + d
    OBVIOUS
  <2>2. CASE to \in DOMAIN Item
    BY <1>1, <1>3, <1>6, <1>7, <1>9, <2>1, <2>2 DEF modeVars, loopVars, pressVars
  <2>3. CASE ~(to \in DOMAIN Item)
    BY <1>1, <1>3, <1>7, <1>9, <2>1, <2>3 DEF modeVars, loopVars, pressVars
  <2> QED
    BY <2>2, <2>3
<1> QED
  BY <1>1, <1>8, <1>9

LEMMA PreSelectDoes ==
    ASSUME Typed, PreSelect("buttons")
    PROVE  LET c == "buttons" IN
           /\ Name(c) = "pre_select" /\ binding = "menu" /\ menuPre' = TRUE
           /\ Aside(c) /\ Name(c)' = "force" /\ Rest(c)' = <<>>
           /\ UNCHANGED <<binding, page, selected, objects, inactive, idle, force, shown,
                          preSelecting, longSelect, pressed>>
<1> DEFINE c == "buttons"
<1>1. At(c, "pre_select") /\ Then(c, << <<"force">> >>) /\ c \in Core
  BY DEF PreSelect, Core
<1>2. Name(c) = "pre_select" /\ todo[c] # <<>>
  BY <1>1, Doing
<1>3. Rest(c) = <<>>
  BY <1>2 DEF Typed, ButtonsShape
<1>4. PICK s \in Step : s = <<"force">> /\ s[1] = "force"
  BY StepsAre
<1>5. Aside(c) /\ Name(c)' = s[1] /\ Rest(c)' = <<>>
  BY <1>1, <1>2, <1>3, <1>4, LastStep
<1> QED
  BY <1>2, <1>4, <1>5 DEF PreSelect, modeVars, loopVars

LEMMA CancelSelectDoes ==
    ASSUME Typed, CancelSelect("buttons")
    PROVE  LET c == "buttons" IN
           /\ Name(c) = "cancel" /\ binding = "menu" /\ menuPre' = FALSE
           /\ Aside(c) /\ Name(c)' = "force" /\ Rest(c)' \in Moves
           /\ UNCHANGED <<binding, page, selected, objects, inactive, idle, force, shown,
                          preSelecting, longSelect, pressed>>
<1> DEFINE c == "buttons"
<1>1. At(c, "cancel") /\ Then(c, << <<"force">> >>) /\ c \in Core
  BY DEF CancelSelect, Core
<1>2. Name(c) = "cancel" /\ todo[c] # <<>> /\ todo \in [Core -> Work]
  BY <1>1, Doing
<1>3. Rest(c) \in Moves
  BY <1>2 DEF Typed, ButtonsShape
<1>4. PICK s \in Step : s = <<"force">> /\ s[1] = "force"
  BY StepsAre
<1>5. Aside(c) /\ Name(c)' = s[1] /\ Rest(c)' = Rest(c)
  BY <1>1, <1>2, <1>4, Pushes
<1> QED
  BY <1>2, <1>3, <1>4, <1>5 DEF CancelSelect, modeVars, loopVars, pressVars

LEMMA SelectDoes ==
    ASSUME Typed, Select("buttons")
    PROVE  LET c == "buttons" IN
           /\ Name(c) = "select" /\ binding = "menu" /\ menuPre' = FALSE
           /\ Aside(c)
           /\ \/ Name(c)' = "sleep" /\ Rest(c)' = <<>>
              \/ Name(c)' = "point" /\ Arg(c)' = "stats" /\ Rest(c)' = Opens \o <<>>
           /\ UNCHANGED <<binding, page, selected, objects, inactive, idle, force, shown,
                          preSelecting, longSelect, pressed>>
<1> DEFINE c == "buttons"
<1>1. /\ At(c, "select") /\ c \in Core
      /\ \/ Then(c, << <<"sleep">> >>)
         \/ Then(c, Bind("stats"))
  BY DEF Select, Core
<1>2. Name(c) = "select" /\ todo[c] # <<>> /\ todo \in [Core -> Work]
  BY <1>1, Doing
<1>3. Rest(c) = <<>>
  BY <1>2 DEF Typed, ButtonsShape
<1>4. PICK s \in Step : s = <<"sleep">> /\ s[1] = "sleep"
  BY StepsAre
<1>5. PICK b \in Binding : b = "stats"
  BY DEF Binding
<1>6. /\ Aside(c)
      /\ \/ Name(c)' = "sleep" /\ Rest(c)' = <<>>
         \/ Name(c)' = "point" /\ Arg(c)' = "stats" /\ Rest(c)' = Opens \o <<>>
  <2>1. CASE Then(c, <<s>>)
    BY <1>2, <1>3, <1>4, <2>1, LastStep
  <2>2. CASE Then(c, Bind(b))
    BY <1>1, <1>2, <1>3, <1>5, <2>2, Rebinds
  <2> QED
    BY <1>1, <1>4, <1>5, <2>1, <2>2
<1> QED
  BY <1>2, <1>6 DEF Select, modeVars, loopVars, pressVars

LEMMA HeldDoes ==
    ASSUME Typed, Held("buttons")
    PROVE  LET c == "buttons" IN
           /\ Name(c) = "held"
           /\ Aside(c)
           /\ \/ /\ binding = "stats"
                 /\ Name(c)' = "point" /\ Arg(c)' = "menu" /\ Rest(c)' = Opens \o Answers
              \/ /\ binding # "stats"
                 /\ Name(c)' = "answer" /\ Arg(c)' = "ignored" /\ Rest(c)' = <<>>
           /\ UNCHANGED <<binding, page, selected, menuPre, objects, inactive, idle, force, shown,
                          preSelecting, longSelect, pressed>>
<1> DEFINE c == "buttons"
<1>1. /\ At(c, "held") /\ c \in Core
      /\ Then(c, IF binding = "stats" THEN Bind("menu") \o Answers
                 ELSE << <<"answer", "ignored">> >>)
  BY DEF Held, Core, Answers
<1>2. Name(c) = "held" /\ todo[c] # <<>> /\ todo \in [Core -> Work]
  BY <1>1, Doing
<1>3. Rest(c) = <<>>
  BY <1>2 DEF Typed, ButtonsShape
<1>4. CASE binding = "stats"
  <2>1. PICK b \in Binding, r \in Work, e \in Work : b = "menu" /\ r = Answers /\ e = <<>>
    BY RestSteps DEF Binding
  <2>2. PICK t : t = Bind(b) \o r
    OBVIOUS
  <2>3. t \in Work /\ NameOf(t) = "point" /\ Head(t)[2] = b /\ Tail(t) = Opens \o r
    BY <2>2, Binding2
  <2>4. t \o e = t
    <3>1. t \in Seq(Step)
      BY <2>3 DEF Work
    <3> QED
      BY <2>1, <3>1, ConcatEmptySeq
  <2>5. Then(c, t)
    BY <1>1, <1>4, <2>1, <2>2
  <2>6. Does(c, t)
    BY <1>3, <2>1, <2>4, <2>5 DEF Then, Rest
  <2>7. Goes(c, t)
    BY <1>1, <1>2, <2>3, <2>6, DoesGoes
  <2> QED
    BY <1>2, <1>4, <2>1, <2>3, <2>7 DEF Goes, Held, boundVars, modeVars, loopVars, pressVars
<1>5. CASE binding # "stats"
  <2>1. PICK a \in {"captured", "ignored"} : a = "ignored"
    OBVIOUS
  <2>2. PICK s \in Step : s = <<"answer", a>> /\ s[1] = "answer" /\ s[2] = a
    <3>1. <<"answer", a>> \in Step /\ <<"answer", a>>[1] = "answer" /\ <<"answer", a>>[2] = a
      BY StepsAre
    <3> QED
      BY <3>1
  <2>3. Then(c, <<s>>)
    BY <1>1, <1>5, <2>1, <2>2
  <2>4. Aside(c) /\ Name(c)' = s[1] /\ Arg(c)' = s[2] /\ Rest(c)' = <<>>
    BY <1>2, <1>3, <2>3, LastStep
  <2> QED
    BY <1>2, <1>5, <2>1, <2>2, <2>4 DEF Held, boundVars, modeVars, loopVars, pressVars
<1> QED
  BY <1>4, <1>5

LEMMA AnswerDoes ==
    ASSUME Typed, Answer("buttons")
    PROVE  LET c == "buttons" IN
           /\ Name(c) = "answer" /\ Arg(c) \in {"captured", "ignored"} /\ longSelect' = Arg(c)
           /\ preSelecting' = (preSelecting /\ Arg(c) = "ignored")
           /\ Aside(c) /\ Name(c)' = "idle"
           /\ UNCHANGED <<binding, page, selected, menuPre, objects, inactive, idle, force, shown,
                          pressed>>
<1> DEFINE c == "buttons"
<1>1. At(c, "answer") /\ Then(c, <<>>) /\ c \in Core
  BY DEF Answer, Core
<1>2. Name(c) = "answer" /\ todo[c] # <<>>
  BY <1>1, Doing
<1>3. Rest(c) = <<>> /\ Arg(c) \in {"captured", "ignored"}
  BY <1>2 DEF Typed, ButtonsShape
<1>4. Aside(c) /\ Name(c)' = "idle"
  BY <1>1, <1>2, <1>3, LastStep
<1> QED
  BY <1>2, <1>3, <1>4 DEF Answer, boundVars, modeVars, loopVars

LEMMA LoopDoes ==
    ASSUME Typed, Loop
    PROVE  LET c == "loop" IN
           /\ Name(c) = "idle" /\ ~inactive
           /\ Aside(c) /\ Name(c)' = "sleep" /\ Rest(c)' = Redraws
           /\ UNCHANGED <<binding, page, selected, menuPre, objects, inactive, idle, force, shown,
                          preSelecting, longSelect, pressed>>
<1> DEFINE c == "loop"
<1>1. todo[c] = <<>> /\ ~inactive /\ Does(c, << <<"sleep">>, <<"redraw">> >>) /\ c \in Core
  BY DEF Loop, TimedOut, Core
<1>2. Name(c) = "idle" /\ todo \in [Core -> Work]
  BY <1>1, TodoTyped, Names
<1>3. PICK a \in Step : a = <<"sleep">> /\ a[1] = "sleep"
  BY StepsAre
<1>b. PICK b \in Step : b = <<"redraw">>
  BY StepsAre
<1>4. PICK t : t = <<a, b>>
  OBVIOUS
<1>5. t = <<a>> \o <<b>> /\ <<b>> \in Work
  BY <1>4, Pair, One DEF Work
<1>6. t \in Work /\ NameOf(t) = "sleep" /\ Tail(t) = <<b>>
  BY <1>3, <1>5, Pushed
<1>7. Goes(c, t)
  BY <1>1, <1>2, <1>3, <1>b, <1>4, <1>6, DoesGoes
<1> QED
  BY <1>1, <1>2, <1>3, <1>b, <1>6, <1>7 DEF Goes, Redraws, Loop, boundVars, modeVars, loopVars, pressVars

LEMMA KeepDisplayDoes ==
    ASSUME Typed, KeepDisplay("loop")
    PROVE  LET c == "loop" IN
           /\ Name(c) = "redraw" /\ ~force
           /\ Aside(c) /\ Name(c)' = "idle"
           /\ UNCHANGED <<binding, page, selected, menuPre, objects, inactive, idle, force, shown,
                          preSelecting, longSelect, pressed>>
<1> DEFINE c == "loop"
<1>1. At(c, "redraw") /\ ~force /\ Then(c, <<>>) /\ c \in Core
  BY DEF KeepDisplay, Core
<1>2. Name(c) = "redraw" /\ Goes(c, Rest(c))
  BY <1>1, Doing, Pops
<1>3. Rest(c) = <<>>
  BY <1>2 DEF Typed, LoopShape
<1>4. Aside(c) /\ Name(c)' = "idle"
  BY <1>2, <1>3, RestSteps DEF Goes
<1> QED
  BY <1>1, <1>2, <1>4 DEF KeepDisplay, boundVars, modeVars, loopVars, pressVars

LEMMA RedrawDoes ==
    ASSUME Typed, Redraw
    PROVE  LET c == "loop" IN
           /\ Name(c) \in {"idle", "redraw"} /\ force' = FALSE
           /\ Aside(c) /\ Name(c)' = "update" /\ Rest(c)' = <<>>
           /\ UNCHANGED <<binding, page, selected, menuPre, objects, inactive, idle, shown,
                          preSelecting, longSelect, pressed>>
<1> DEFINE c == "loop"
<1>1. (todo[c] = <<>> \/ At(c, "redraw")) /\ Does(c, << <<"update">> >>) /\ c \in Core
  BY DEF Redraw, Core
<1>2. Name(c) \in {"idle", "redraw"} /\ todo \in [Core -> Work]
  BY <1>1, TodoTyped, Names
<1>3. PICK s \in Step : s = <<"update">> /\ s[1] = "update"
  BY StepsAre
<1>4. PICK r \in Work : r = <<>>
  BY RestSteps
<1>5. PICK t : t = <<s>> \o r
  OBVIOUS
<1>6. t \in Work /\ NameOf(t) = "update" /\ Tail(t) = r
  BY <1>3, <1>5, Pushed
<1>7. t = <<s>>
  <2>1. <<s>> \in Seq(Step)
    BY One
  <2> QED
    BY <1>4, <1>5, <2>1, ConcatEmptySeq
<1>8. Goes(c, t)
  BY <1>1, <1>2, <1>3, <1>6, <1>7, DoesGoes
<1> QED
  BY <1>2, <1>4, <1>6, <1>8 DEF Goes, Redraw, boundVars, modeVars, pressVars

LEMMA UpdateDoes ==
    ASSUME Typed, Update("loop"), binding \in Binding
    PROVE  LET c == "loop" IN
           /\ Name(c) = "update"
           /\ Aside(c) /\ Name(c)' = "draw" /\ Arg(c)' = binding /\ Rest(c)' = <<>>
           /\ UNCHANGED <<binding, page, selected, menuPre, objects, inactive, idle, force, shown,
                          preSelecting, longSelect, pressed>>
<1> DEFINE c == "loop"
<1>1. At(c, "update") /\ Then(c, << <<"draw", binding>> >>) /\ c \in Core
  BY DEF Update, Core
<1>2. PICK s \in Step : s = <<"draw", binding>> /\ s[1] = "draw" /\ s[2] = binding
  <2>1. PICK b \in Binding : b = binding
    OBVIOUS
  <2>2. <<"draw", b>> \in Step /\ <<"draw", b>>[1] = "draw" /\ <<"draw", b>>[2] = b
    BY StepsAre
  <2> QED
    BY <2>1, <2>2
<1>3. /\ Name(c) = "update"
      /\ Aside(c) /\ Name(c)' = s[1] /\ Arg(c)' = s[2] /\ Rest(c)' = Rest(c)
  BY <1>1, <1>2, Doing, Pushes
<1>4. Rest(c) = <<>>
  BY <1>3 DEF Typed, LoopShape
<1> QED
  BY <1>2, <1>3, <1>4 DEF Update, boundVars, modeVars, loopVars, pressVars

LEMMA DrawDoes ==
    ASSUME Typed, Draw("loop")
    PROVE  LET c == "loop" IN
           /\ Name(c) = "draw" /\ shown' = Screen(Arg(c))
           /\ Aside(c) /\ Name(c)' = "idle"
           /\ UNCHANGED <<binding, page, selected, menuPre, objects, inactive, idle, force,
                          preSelecting, longSelect, pressed>>
<1> DEFINE c == "loop"
<1>1. At(c, "draw") /\ Then(c, <<>>) /\ c \in Core
  BY DEF Draw, Core
<1>2. Name(c) = "draw" /\ Goes(c, Rest(c))
  BY <1>1, Doing, Pops
<1>3. Rest(c) = <<>>
  BY <1>2 DEF Typed, LoopShape
<1>4. Aside(c) /\ Name(c)' = "idle"
  BY <1>2, <1>3, RestSteps DEF Goes
<1> QED
  BY <1>1, <1>2, <1>4 DEF Draw, boundVars, modeVars, pressVars

LEMMA PressDoes ==
    ASSUME Typed, NEW b \in Button, NEW e \in Event(b), Press(b, e)
    PROVE  LET c == "buttons" IN
           /\ Name(c) = "idle" /\ (Name("loop") \in Binds => ~raced)
           /\ pressed' = (IF b = "select" THEN e # "UP" ELSE pressed) /\ idle' = FALSE
           /\ Aside(c)
           /\ \/ /\ e = "DOWN" /\ (b = "select" => ~pressed)
                 /\ Name(c)' = "wake" /\ Arg(c)' = b /\ Rest(c)' = <<>>
              \/ /\ b = "select" /\ pressed /\ e \in {"UP", "REPEAT"}
                 /\ Name(c)' = "offer" /\ Arg(c)' = b /\ Tells(c)' = e /\ Rest(c)' = <<>>
              \/ /\ b # "select"
                 /\ Name(c)' = "offer" /\ Arg(c)' = b /\ Tells(c)' = "DOWN" /\ Rest(c)' = <<>>
              \/ b # "select" /\ Name(c)' = "idle"
           /\ UNCHANGED <<binding, page, selected, menuPre, objects, inactive, force, shown,
                          preSelecting, longSelect>>
<1> DEFINE c == "buttons"
<1>1. /\ todo[c] = <<>> /\ c \in Core
      /\ Does(c, IF e = "DOWN" THEN << <<"wake", b>> >> ELSE Offer(b, e))
  BY DEF Press, Core
<1>2. Name(c) = "idle" /\ todo \in [Core -> Work]
  BY <1>1, TodoTyped, Names
<1>3. Name("loop") \in Binds => ~raced
  BY <1>2, Names DEF Press
<1>4. /\ e \in {"DOWN", "REPEAT", "UP"} /\ pressed \in BOOLEAN
      /\ b = "select" => IF pressed THEN e \in {"UP", "REPEAT"} ELSE e = "DOWN"
  BY DEF Event, Typed, TypeOK
<1>5. ASSUME NEW s \in Step, Does(c, <<s>>)
      PROVE  /\ Aside(c) /\ Name(c)' = s[1] /\ Arg(c)' = s[2] /\ Tells(c)' = s[3]
             /\ Rest(c)' = <<>>
  <2>1. PICK t : t = <<s>>
    OBVIOUS
  <2>2. t \in Work /\ NameOf(t) = s[1] /\ Head(t) = s /\ Tail(t) = <<>>
    BY <2>1 DEF Work, NameOf
  <2>3. Goes(c, t)
    BY <1>1, <1>2, <1>5, <2>1, <2>2, DoesGoes
  <2> QED
    BY <2>2, <2>3 DEF Goes
<1>6. ASSUME NEW d \in {"DOWN", "REPEAT", "UP"}, Does(c, << <<"offer", b, d>> >>)
      PROVE  Aside(c) /\ Name(c)' = "offer" /\ Arg(c)' = b /\ Tells(c)' = d /\ Rest(c)' = <<>>
  <2>1. PICK s \in Step : s = <<"offer", b, d>> /\ s[1] = "offer" /\ s[2] = b /\ s[3] = d
    <3>1. /\ <<"offer", b, d>> \in Step /\ <<"offer", b, d>>[1] = "offer"
          /\ <<"offer", b, d>>[2] = b /\ <<"offer", b, d>>[3] = d
      BY StepsAre
    <3> QED
      BY <3>1
  <2>2. Does(c, <<s>>)
    BY <1>6, <2>1
  <2> QED
    BY <1>5, <2>1, <2>2
<1>7. CASE e = "DOWN"
  <2>1. PICK s \in Step : s = <<"wake", b>> /\ s[1] = "wake" /\ s[2] = b
    <3>1. <<"wake", b>> \in Step /\ <<"wake", b>>[1] = "wake" /\ <<"wake", b>>[2] = b
      BY StepsAre
    <3> QED
      BY <3>1
  <2>2. Does(c, <<s>>)
    BY <1>1, <1>7, <2>1
  <2>3. Aside(c) /\ Name(c)' = "wake" /\ Arg(c)' = b /\ Rest(c)' = <<>>
    BY <1>5, <2>1, <2>2
  <2> QED
    BY <1>2, <1>3, <1>4, <1>7, <2>3 DEF Press, boundVars, loopVars
<1>8. CASE e # "DOWN" /\ b = "select"
  <2>1. Does(c, << <<"offer", b, e>> >>)
    BY <1>1, <1>8 DEF Offer
  <2>2. Aside(c) /\ Name(c)' = "offer" /\ Arg(c)' = b /\ Tells(c)' = e /\ Rest(c)' = <<>>
    BY <1>4, <1>6, <2>1
  <2> QED
    BY <1>2, <1>3, <1>4, <1>8, <2>2 DEF Press, boundVars, loopVars
<1>9. CASE e # "DOWN" /\ b # "select"
  <2>1. CASE e = "UP"
    <3>1. PICK r \in Work : r = <<>> /\ NameOf(r) = "idle"
      BY RestSteps
    <3>2. Does(c, r)
      BY <1>1, <1>9, <2>1, <3>1 DEF Offer
    <3>3. Aside(c) /\ Name(c)' = "idle"
      BY <1>1, <1>2, <3>1, <3>2, DoesGoes DEF Goes
    <3> QED
      BY <1>2, <1>3, <1>4, <1>9, <3>3 DEF Press, boundVars, loopVars
  <2>2. CASE e # "UP"
    <3>1. PICK d \in {"DOWN", "REPEAT", "UP"} : d = "DOWN"
      OBVIOUS
    <3>2. Does(c, << <<"offer", b, d>> >>)
      BY <1>1, <1>9, <2>2, <3>1 DEF Offer
    <3>3. Aside(c) /\ Name(c)' = "offer" /\ Arg(c)' = b /\ Tells(c)' = d /\ Rest(c)' = <<>>
      BY <1>6, <3>2
    <3> QED
      BY <1>2, <1>3, <1>4, <1>9, <3>1, <3>3 DEF Press, boundVars, loopVars
  <2> QED
    BY <2>1, <2>2
<1> QED
  BY <1>7, <1>8, <1>9

LEMMA ElapseDoes ==
    ASSUME Typed, Elapse
    PROVE  /\ Name("buttons") = "idle" /\ ~inactive
           /\ \A c \in Core : UNCHANGED <<Name(c), Arg(c), Tells(c), Rest(c)>>
           /\ UNCHANGED <<todo, raced, binding, page, selected, menuPre, objects, inactive, force,
                          shown, preSelecting, longSelect, pressed>>
           /\ idle' \in BOOLEAN
<1>1. todo["buttons"] = <<>> /\ "buttons" \in Core
  BY DEF Elapse, Core
<1>2. Name("buttons") = "idle"
  BY <1>1, TodoTyped, Names
<1> QED
  BY <1>2 DEF Elapse, Name, Arg, Tells, Rest, boundVars, loopVars, pressVars

LEMMA Actions ==
    ASSUME [Next]_vars
    PROVE  \/ \E c \in Core : \/ Point(c) \/ Open(c) \/ Fill(c) \/ UpdateNow(c)
                              \/ Sleep(c) \/ Asleep(c)
           \/ Wake("buttons") \/ Capture
           \/ \E b \in Button : Navigate(b)
           \/ SelectUp \/ SelectDown \/ SelectRepeat
           \/ Ignore("buttons") \/ Move("buttons") \/ PreSelect("buttons")
           \/ CancelSelect("buttons") \/ Select("buttons") \/ Held("buttons") \/ Answer("buttons")
           \/ Loop \/ KeepDisplay("loop") \/ Redraw \/ Update("loop") \/ Draw("loop")
           \/ \E b \in Button : \E e \in Event(b) : Press(b, e)
           \/ Elapse \/ UNCHANGED vars
<1>1. "buttons" \in Core /\ "loop" \in Core
  BY DEF Core
<1>2. Common("buttons") \/ Common("loop") =>
        \E c \in Core : Point(c) \/ Open(c) \/ Fill(c) \/ UpdateNow(c) \/ Sleep(c) \/ Asleep(c)
  BY <1>1 DEF Common
<1> QED
  BY <1>2 DEF Next, Buttons, GuiLoop, Pressing

LEMMA NothingDoes ==
    ASSUME UNCHANGED vars
    PROVE  /\ \A c \in Core : UNCHANGED <<Name(c), Arg(c), Tells(c), Rest(c)>>
           /\ UNCHANGED <<todo, raced, binding, page, selected, menuPre, objects, inactive, idle,
                          force, shown, preSelecting, longSelect, pressed>>
BY DEF vars, Name, Arg, Tells, Rest, boundVars, modeVars, loopVars, pressVars

LEMMA Sides ==
    /\ "buttons" \in Core /\ "loop" \in Core
    /\ \A c \in Core : c = "buttons" \/ c = "loop"
    /\ Aside("buttons") =>
         /\ UNCHANGED <<Name("loop"), Arg("loop"), Tells("loop"), Rest("loop")>>
         /\ raced' = (Met' \/ (raced /\ inactive' = inactive)) /\ todo' \in [Core -> Work]
    /\ Aside("loop") =>
         /\ UNCHANGED <<Name("buttons"), Arg("buttons"), Tells("buttons"), Rest("buttons")>>
         /\ raced' = (Met' \/ (raced /\ inactive' = inactive)) /\ todo' \in [Core -> Work]
BY DEF Core, Aside

-----------------------------------------------------------------------------
(* The first page is bound before anything else is: a press of that time   *)
(* is the only one, and finds nothing bound or the stat browser.           *)
Booting ==
    LET c == "loop"
    IN  \/ Name(c) = "point" /\ Arg(c) = "stats"
        \/ Name(c) \in {"init", "fill"} /\ Rest(c) = <<>>

Boot ==
    LET c == "buttons"
    IN  /\ binding = "none" <=> Name("loop") = "point" /\ Arg("loop") = "stats"
        /\ binding = "none" => Name(c) \in {"idle", "wake", "offer"}
        /\ Booting =>
            /\ ~inactive /\ binding \in {"none", "stats"}
            /\ ~raced => ~pressed /\ ~preSelecting
            /\ \/ Name(c) \in {"idle", "wake", "nav_up", "nav_down", "cancel", "pre_select"}
               \/ Name(c) \in {"init", "fill"} /\ Rest(c) = <<>>
               \/ Name(c) = "point" /\ Arg(c) = "stats"
               \/ Name(c) = "offer" /\ Tells(c) = "DOWN"

LEMMA Bound ==
    ASSUME Typed, Boot
    PROVE  /\ \A c \in Core : Open(c) => binding \in Binding
           /\ Update("loop") => binding \in Binding
<1>1. binding \in Binding \cup {"none"}
  BY DEF Typed, TypeOK
<1>2. \A c \in Core : Open(c) => Name(c) = "init"
  BY Doing DEF Open
<1>3. Update("loop") => Name("loop") = "update"
  BY Doing, Sides DEF Update
<1> QED
  BY <1>1, <1>2, <1>3, Sides DEF Boot

LEMMA LayersTyped ==
    ASSUME NEW b \in Binding, page \in 1 .. LastPage
    PROVE  Layers(b) \in Seq(DOMAIN Needs)
<1> DEFINE S == {"general", "health", "manufacture", "bar", "list", "readings"}
<1>1. DOMAIN Needs = S
  BY DEF Needs
<1>2. Page[page] \in S
  BY ConstantsAssumption DEF Page
<1> HIDE DEF S
<1>3. PICK p \in S, x \in S, l \in S, r \in S :
        p = Page[page] /\ x = "bar" /\ l = "list" /\ r = "readings"
  BY <1>2 DEF S
<1>4. <<p, x>> \in Seq(S) /\ <<l>> \in Seq(S) /\ <<r>> \in Seq(S)
  BY Pair, One
<1>5. \/ Layers(b) = <<p, x>> \/ Layers(b) = <<l>> \/ Layers(b) = <<r>>
  BY <1>3 DEF Layers, Binding
<1> QED
  BY <1>1, <1>4, <1>5

LEMMA TypeStep ==
    ASSUME Typed, Boot, [Next]_vars
    PROVE  TypeOK'
<1> DEFINE Rested ==
        /\ binding \in Binding \cup {"none"}
        /\ objects \in Seq(DOMAIN Needs)
        /\ page \in 1 .. LastPage
        /\ selected \in DOMAIN Item /\ menuPre \in BOOLEAN
        /\ inactive \in BOOLEAN /\ idle \in BOOLEAN
        /\ force \in BOOLEAN
        /\ preSelecting \in BOOLEAN /\ longSelect \in {"no", "captured", "ignored"}
        /\ pressed \in BOOLEAN
        /\ raced \in BOOLEAN
<1>1. Rested /\ todo \in [Core -> Work]
  BY TodoTyped DEF Typed, TypeOK
<1>2. ASSUME Rested', todo' \in [Core -> Work] PROVE TypeOK'
  BY <1>2 DEF TypeOK, Work
<1>3. Met' \in BOOLEAN
  BY DEF Met
<1>4. 1 \in DOMAIN Item
  BY DEF Item
<1>5. <<>> \in Seq(DOMAIN Needs)
  OBVIOUS
<1>6. ASSUME NEW c \in Core PROVE Aside(c) => todo' \in [Core -> Work] /\ raced' \in BOOLEAN
  BY <1>1, <1>3 DEF Aside
<1>10. ASSUME NEW c \in Core, Point(c) PROVE TypeOK'
  BY <1>1, <1>2, <1>6, <1>10, PointDoes
<1>11. ASSUME NEW c \in Core, Open(c) PROVE TypeOK'
  BY <1>1, <1>2, <1>4, <1>5, <1>6, <1>11, OpenDoes, Bound
<1>12. ASSUME NEW c \in Core, Fill(c) PROVE TypeOK'
  <2>1. objects' \in Seq(DOMAIN Needs)
    <3>1. Layers(Arg(c)) \in Seq(DOMAIN Needs)
      BY <1>1, <1>12, FillDoes, LayersTyped
    <3>2. objects \o Layers(Arg(c)) \in Seq(DOMAIN Needs)
      BY <1>1, <3>1
    <3> QED
      BY <1>1, <1>12, <3>2, FillDoes
  <2> QED
    BY <1>1, <1>2, <1>6, <1>12, <2>1, FillDoes
<1>13. ASSUME NEW c \in Core, UpdateNow(c) PROVE TypeOK'
  BY <1>1, <1>2, <1>6, <1>13, ForceDoes
<1>14. ASSUME NEW c \in Core, Sleep(c) PROVE TypeOK'
  BY <1>1, <1>2, <1>6, <1>14, SleepDoes
<1>15. ASSUME NEW c \in Core, Asleep(c) PROVE TypeOK'
  BY <1>1, <1>2, <1>6, <1>15, AsleepDoes
<1>16. ASSUME Wake("buttons") PROVE TypeOK'
  BY <1>1, <1>2, <1>6, <1>16, WakeDoes, Sides
<1>17. ASSUME Capture PROVE TypeOK'
  BY <1>1, <1>2, <1>6, <1>17, CaptureDoes, Sides
<1>18. ASSUME NEW b \in Button, Navigate(b) PROVE TypeOK'
  BY <1>1, <1>2, <1>6, <1>18, NavigateDoes, Sides
<1>19. ASSUME SelectUp PROVE TypeOK'
  BY <1>1, <1>2, <1>6, <1>19, SelectUpDoes, Sides
<1>20. ASSUME SelectDown PROVE TypeOK'
  BY <1>1, <1>2, <1>6, <1>20, SelectDownDoes, Sides
<1>21. ASSUME SelectRepeat PROVE TypeOK'
  BY <1>1, <1>2, <1>6, <1>21, SelectRepeatDoes, Sides
<1>22. ASSUME Ignore("buttons") PROVE TypeOK'
  BY <1>1, <1>2, <1>6, <1>22, IgnoreDoes, Sides
<1>23. ASSUME Move("buttons") PROVE TypeOK'
  BY <1>1, <1>2, <1>6, <1>23, MoveDoes, Sides
<1>24. ASSUME PreSelect("buttons") PROVE TypeOK'
  BY <1>1, <1>2, <1>6, <1>24, PreSelectDoes, Sides
<1>25. ASSUME CancelSelect("buttons") PROVE TypeOK'
  BY <1>1, <1>2, <1>6, <1>25, CancelSelectDoes, Sides
<1>26. ASSUME Select("buttons") PROVE TypeOK'
  BY <1>1, <1>2, <1>6, <1>26, SelectDoes, Sides
<1>27. ASSUME Held("buttons") PROVE TypeOK'
  BY <1>1, <1>2, <1>6, <1>27, HeldDoes, Sides
<1>28. ASSUME Answer("buttons") PROVE TypeOK'
  BY <1>1, <1>2, <1>6, <1>28, AnswerDoes, Sides
<1>29. ASSUME Loop PROVE TypeOK'
  BY <1>1, <1>2, <1>6, <1>29, LoopDoes, Sides
<1>30. ASSUME KeepDisplay("loop") PROVE TypeOK'
  BY <1>1, <1>2, <1>6, <1>30, KeepDisplayDoes, Sides
<1>31. ASSUME Redraw PROVE TypeOK'
  BY <1>1, <1>2, <1>6, <1>31, RedrawDoes, Sides
<1>32. ASSUME Update("loop") PROVE TypeOK'
  BY <1>1, <1>2, <1>6, <1>32, UpdateDoes, Sides, Bound
<1>33. ASSUME Draw("loop") PROVE TypeOK'
  BY <1>1, <1>2, <1>6, <1>33, DrawDoes, Sides
<1>34. ASSUME NEW b \in Button, NEW e \in Event(b), Press(b, e) PROVE TypeOK'
  BY <1>1, <1>2, <1>6, <1>34, PressDoes, Sides
<1>35. ASSUME Elapse PROVE TypeOK'
  BY <1>1, <1>2, <1>35, ElapseDoes
<1>36. ASSUME UNCHANGED vars PROVE TypeOK'
  BY <1>1, <1>2, <1>36, NothingDoes
<1> QED
  BY <1>10, <1>11, <1>12, <1>13, <1>14, <1>15, <1>16, <1>17, <1>18, <1>19, <1>20, <1>21, <1>22,
     <1>23, <1>24, <1>25, <1>26, <1>27, <1>28, <1>29, <1>30, <1>31, <1>32, <1>33, <1>34, <1>35,
     <1>36, Actions

LEMMA ShapesStep ==
    ASSUME Typed, Boot, [Next]_vars
    PROVE  LoopShape' /\ ButtonsShape'
<1>1. LoopShape /\ ButtonsShape
  BY DEF Typed
<1>10. ASSUME NEW c \in Core, Point(c) PROVE LoopShape' /\ ButtonsShape'
  BY <1>1, <1>10, PointDoes, Sides DEF LoopShape, ButtonsShape, Ends
<1>11. ASSUME NEW c \in Core, Open(c) PROVE LoopShape' /\ ButtonsShape'
  BY <1>1, <1>11, OpenDoes, Bound, Sides DEF LoopShape, ButtonsShape
<1>12. ASSUME NEW c \in Core, Fill(c) PROVE LoopShape' /\ ButtonsShape'
  BY <1>1, <1>12, FillDoes, Sides, AnswersDiffer DEF LoopShape, ButtonsShape
<1>13. ASSUME NEW c \in Core, UpdateNow(c) PROVE LoopShape' /\ ButtonsShape'
  BY <1>1, <1>13, ForceDoes, Sides DEF LoopShape, ButtonsShape
<1>14. ASSUME NEW c \in Core, Sleep(c) PROVE LoopShape' /\ ButtonsShape'
  BY <1>1, <1>14, SleepDoes, Sides DEF LoopShape, ButtonsShape
<1>15. ASSUME NEW c \in Core, Asleep(c) PROVE LoopShape' /\ ButtonsShape'
  BY <1>1, <1>15, AsleepDoes, Sides DEF LoopShape, ButtonsShape
<1>16. ASSUME Wake("buttons") PROVE LoopShape' /\ ButtonsShape'
  BY <1>1, <1>16, WakeDoes, Sides DEF LoopShape, ButtonsShape
<1>17. ASSUME Capture PROVE LoopShape' /\ ButtonsShape'
  BY <1>1, <1>17, CaptureDoes, Sides DEF LoopShape, ButtonsShape
<1>18. ASSUME NEW b \in Button, Navigate(b) PROVE LoopShape' /\ ButtonsShape'
  BY <1>1, <1>18, NavigateDoes, Sides DEF LoopShape, ButtonsShape
<1>19. ASSUME SelectUp PROVE LoopShape' /\ ButtonsShape'
  BY <1>1, <1>19, SelectUpDoes, Sides DEF LoopShape, ButtonsShape
<1>20. ASSUME SelectDown PROVE LoopShape' /\ ButtonsShape'
  BY <1>1, <1>20, SelectDownDoes, Sides DEF LoopShape, ButtonsShape
<1>21. ASSUME SelectRepeat PROVE LoopShape' /\ ButtonsShape'
  BY <1>1, <1>21, SelectRepeatDoes, Sides DEF LoopShape, ButtonsShape
<1>22. ASSUME Ignore("buttons") PROVE LoopShape' /\ ButtonsShape'
  BY <1>1, <1>22, IgnoreDoes, Sides DEF LoopShape, ButtonsShape
<1>23. ASSUME Move("buttons") PROVE LoopShape' /\ ButtonsShape'
  BY <1>1, <1>23, MoveDoes, Sides DEF LoopShape, ButtonsShape
<1>24. ASSUME PreSelect("buttons") PROVE LoopShape' /\ ButtonsShape'
  BY <1>1, <1>24, PreSelectDoes, Sides DEF LoopShape, ButtonsShape
<1>25. ASSUME CancelSelect("buttons") PROVE LoopShape' /\ ButtonsShape'
  BY <1>1, <1>25, CancelSelectDoes, Sides DEF LoopShape, ButtonsShape
<1>26. ASSUME Select("buttons") PROVE LoopShape' /\ ButtonsShape'
  BY <1>1, <1>26, SelectDoes, Sides DEF LoopShape, ButtonsShape
<1>27. ASSUME Held("buttons") PROVE LoopShape' /\ ButtonsShape'
  BY <1>1, <1>27, HeldDoes, Sides DEF LoopShape, ButtonsShape
<1>28. ASSUME Answer("buttons") PROVE LoopShape' /\ ButtonsShape'
  BY <1>1, <1>28, AnswerDoes, Sides DEF LoopShape, ButtonsShape
<1>29. ASSUME Loop PROVE LoopShape' /\ ButtonsShape'
  BY <1>1, <1>29, LoopDoes, Sides DEF LoopShape, ButtonsShape
<1>30. ASSUME KeepDisplay("loop") PROVE LoopShape' /\ ButtonsShape'
  BY <1>1, <1>30, KeepDisplayDoes, Sides DEF LoopShape, ButtonsShape
<1>31. ASSUME Redraw PROVE LoopShape' /\ ButtonsShape'
  BY <1>1, <1>31, RedrawDoes, Sides DEF LoopShape, ButtonsShape
<1>32. ASSUME Update("loop") PROVE LoopShape' /\ ButtonsShape'
  BY <1>1, <1>32, UpdateDoes, Bound, Sides DEF LoopShape, ButtonsShape
<1>33. ASSUME Draw("loop") PROVE LoopShape' /\ ButtonsShape'
  BY <1>1, <1>33, DrawDoes, Sides DEF LoopShape, ButtonsShape
<1>34. ASSUME NEW b \in Button, NEW e \in Event(b), Press(b, e) PROVE LoopShape' /\ ButtonsShape'
  BY <1>1, <1>34, PressDoes, Sides DEF LoopShape, ButtonsShape
<1>35. ASSUME Elapse PROVE LoopShape' /\ ButtonsShape'
  BY <1>1, <1>35, ElapseDoes, Sides DEF LoopShape, ButtonsShape
<1>36. ASSUME UNCHANGED vars PROVE LoopShape' /\ ButtonsShape'
  BY <1>1, <1>36, NothingDoes, Sides DEF LoopShape, ButtonsShape
<1> QED
  BY <1>10, <1>11, <1>12, <1>13, <1>14, <1>15, <1>16, <1>17, <1>18, <1>19, <1>20, <1>21,
     <1>22, <1>23, <1>24, <1>25, <1>26, <1>27, <1>28, <1>29, <1>30, <1>31, <1>32, <1>33,
     <1>34, <1>35, <1>36, Actions

LEMMA BootStep ==
    ASSUME Typed, Boot, [Next]_vars
    PROVE  Boot'
<1>1. LoopShape /\ ButtonsShape /\ Boot
  BY DEF Typed
<1>10. ASSUME NEW c \in Core, Point(c) PROVE Boot'
  <2>1. CASE c = "buttons"
    <3>1. /\ UNCHANGED <<Name("loop"), Arg("loop"), Rest("loop"), inactive, pressed,
                          preSelecting>>
          /\ ~raced' => ~raced
      BY <1>10, <2>1, PointDoes, Sides
    <3>2. /\ Name("buttons") = "point" /\ Name("buttons")' = "init" /\ binding' = Arg("buttons")
          /\ Arg("buttons") \in Binding
          /\ Arg("buttons") = "stats" => Rest("buttons")' = <<>>
      BY <1>1, <1>10, <2>1, PointDoes DEF ButtonsShape, Ends
    <3> QED
      BY <1>1, <3>1, <3>2 DEF Boot, Booting, Binding
  <2>2. CASE c = "loop"
    BY <1>1, <1>10, <2>2, PointDoes, Sides, RestSteps, AnswersDiffer DEF LoopShape, Boot, Booting, Ends, Met
  <2> QED
    BY <2>1, <2>2, Sides
<1>11. ASSUME NEW c \in Core, Open(c) PROVE Boot'
  BY <1>11, OpenDoes, Bound, Sides DEF Boot, Booting
<1>12. ASSUME NEW c \in Core, Fill(c) PROVE Boot'
  <2>1. CASE c = "buttons"
    <3>1. /\ UNCHANGED <<Name("loop"), Arg("loop"), Rest("loop"), binding, inactive, pressed,
                          preSelecting>>
          /\ ~raced' => ~raced
      BY <1>12, <2>1, FillDoes, Sides
    <3>2. /\ Name("buttons") = "fill"
          /\ Rest("buttons") = <<>> => Name("buttons")' = "idle"
      BY <1>12, <2>1, FillDoes, AnswersDiffer
    <3> QED
      BY <1>1, <3>1, <3>2 DEF Boot, Booting
  <2>2. CASE c = "loop"
    BY <1>1, <1>12, <2>2, FillDoes, Sides, AnswersDiffer DEF LoopShape, Boot, Booting, Met
  <2> QED
    BY <2>1, <2>2, Sides
<1>13. ASSUME NEW c \in Core, UpdateNow(c) PROVE Boot'
  BY <1>13, ForceDoes, Sides DEF Boot, Booting
<1>14. ASSUME NEW c \in Core, Sleep(c) PROVE Boot'
  BY <1>14, SleepDoes, Sides DEF Boot, Booting
<1>15. ASSUME NEW c \in Core, Asleep(c) PROVE Boot'
  BY <1>15, AsleepDoes, Sides DEF Boot, Booting
<1>16. ASSUME Wake("buttons") PROVE Boot'
  BY <1>16, WakeDoes, Sides DEF Boot, Booting, Met, Binds
<1>17. ASSUME Capture PROVE Boot'
  <2>1. /\ UNCHANGED <<Name("loop"), Arg("loop"), Rest("loop"), binding, inactive, pressed,
                        preSelecting>>
        /\ ~raced' => ~raced
    BY <1>17, CaptureDoes, Sides
  <2> QED
    BY <1>1, <1>17, <2>1, CaptureDoes DEF Boot, Booting
<1>18. ASSUME NEW b \in Button, Navigate(b) PROVE Boot'
  BY <1>18, NavigateDoes, Sides DEF Boot, Booting
<1>19. ASSUME SelectUp PROVE Boot'
  BY <1>19, SelectUpDoes, Sides DEF Boot, Booting
<1>20. ASSUME SelectDown PROVE Boot'
  <2>1. UNCHANGED <<Name("loop"), Arg("loop"), Rest("loop"), binding, inactive, pressed>>
    BY <1>20, SelectDownDoes, Sides
  <2>2. Name("buttons") = "offer" /\ Name("buttons")' = "pre_select" /\ binding # "none"
    BY <1>20, SelectDownDoes
  <2>3. Booting' => raced'
    BY <1>20, <2>2, SelectDownDoes, Sides DEF Booting, Met, Binds
  <2> QED
    BY <1>1, <2>1, <2>2, <2>3 DEF Boot, Booting
<1>21. ASSUME SelectRepeat PROVE Boot'
  BY <1>21, SelectRepeatDoes, Sides DEF Boot, Booting
<1>22. ASSUME Ignore("buttons") PROVE Boot'
  <2>1. /\ UNCHANGED <<Name("loop"), Arg("loop"), Rest("loop"), binding, inactive, pressed,
                        preSelecting>>
        /\ ~raced' => ~raced
    BY <1>22, IgnoreDoes, Sides
  <2> QED
    BY <1>1, <1>22, <2>1, IgnoreDoes DEF Boot, Booting, NoHandler
<1>23. ASSUME Move("buttons") PROVE Boot'
  <2>1. /\ UNCHANGED <<Name("loop"), Arg("loop"), Rest("loop"), binding, inactive, pressed,
                        preSelecting>>
        /\ ~raced' => ~raced
    BY <1>23, MoveDoes, Sides
  <2> QED
    BY <1>1, <1>23, <2>1, MoveDoes DEF Boot, Booting
<1>24. ASSUME PreSelect("buttons") PROVE Boot'
  BY <1>24, PreSelectDoes, Sides DEF Boot, Booting
<1>25. ASSUME CancelSelect("buttons") PROVE Boot'
  BY <1>25, CancelSelectDoes, Sides DEF Boot, Booting
<1>26. ASSUME Select("buttons") PROVE Boot'
  BY <1>26, SelectDoes, Sides DEF Boot, Booting
<1>27. ASSUME Held("buttons") PROVE Boot'
  BY <1>27, HeldDoes, Sides DEF Boot, Booting
<1>28. ASSUME Answer("buttons") PROVE Boot'
  BY <1>28, AnswerDoes, Sides DEF Boot, Booting
<1>29. ASSUME Loop PROVE Boot'
  BY <1>29, LoopDoes DEF Boot, Booting
<1>30. ASSUME KeepDisplay("loop") PROVE Boot'
  BY <1>30, KeepDisplayDoes DEF Boot, Booting
<1>31. ASSUME Redraw PROVE Boot'
  BY <1>31, RedrawDoes DEF Boot, Booting
<1>32. ASSUME Update("loop") PROVE Boot'
  BY <1>32, UpdateDoes, Bound DEF Boot, Booting
<1>33. ASSUME Draw("loop") PROVE Boot'
  BY <1>33, DrawDoes DEF Boot, Booting
<1>34. ASSUME NEW b \in Button, NEW e \in Event(b), Press(b, e) PROVE Boot'
  BY <1>34, PressDoes, Sides DEF Boot, Booting, Met, Binds
<1>35. ASSUME Elapse PROVE Boot'
  BY <1>35, ElapseDoes, Sides DEF Boot, Booting
<1>36. ASSUME UNCHANGED vars PROVE Boot'
  BY <1>36, NothingDoes, Sides DEF Boot, Booting
<1> QED
  BY <1>10, <1>11, <1>12, <1>13, <1>14, <1>15, <1>16, <1>17, <1>18, <1>19, <1>20, <1>21,
     <1>22, <1>23, <1>24, <1>25, <1>26, <1>27, <1>28, <1>29, <1>30, <1>31, <1>32, <1>33,
     <1>34, <1>35, <1>36, Actions

-----------------------------------------------------------------------------
(* As long as no callback has met the loop binding, one core at most is    *)
(* changing what is bound, and everything fits together when it is done.   *)
Seen == Met => raced

Whole ==
    /\ inactive <=> binding = "aod"
    /\ binding \in Binding /\ objects = Layers(binding)

FitsAt(c) ==
    CASE Name(c) = "asleep" -> ~inactive
      [] Name(c) = "point"  -> inactive <=> Arg(c) = "aod"
      [] Name(c) = "init"   -> binding \in Binding /\ (inactive <=> binding = "aod")
      [] Name(c) = "fill"   -> /\ binding \in Binding /\ (inactive <=> binding = "aod")
                              /\ objects = <<>> /\ Arg(c) = binding
      [] OTHER              -> Whole

Fits == ~raced => FitsAt(IF Name("loop") \in Binds THEN "loop" ELSE "buttons")

(* What the code's sizes are far above: the largest page and its bar.      *)
Ample == MaxBoxes >= 12 /\ MaxRects >= 3 /\ MaxLines >= 1 /\ MaxObjects >= 13

LEMMA SeenStep ==
    ASSUME Typed, Boot, Seen, [Next]_vars
    PROVE  Seen'
<1>10. ASSUME NEW c \in Core, Point(c) PROVE Seen'
  BY <1>10, PointDoes, Sides DEF Seen, Met, Aside
<1>11. ASSUME NEW c \in Core, Open(c) PROVE Seen'
  BY <1>11, OpenDoes, Bound, Sides DEF Seen, Met, Aside
<1>12. ASSUME NEW c \in Core, Fill(c) PROVE Seen'
  BY <1>12, FillDoes, Sides DEF Seen, Met, Aside
<1>13. ASSUME NEW c \in Core, UpdateNow(c) PROVE Seen'
  BY <1>13, ForceDoes, Sides DEF Seen, Met, Aside
<1>14. ASSUME NEW c \in Core, Sleep(c) PROVE Seen'
  BY <1>14, SleepDoes, Sides DEF Seen, Met, Aside
<1>15. ASSUME NEW c \in Core, Asleep(c) PROVE Seen'
  BY <1>15, AsleepDoes, Sides DEF Seen, Met, Aside
<1>16. ASSUME Wake("buttons") PROVE Seen'
  BY <1>16, WakeDoes, Sides DEF Seen, Met, Aside
<1>17. ASSUME Capture PROVE Seen'
  BY <1>17, CaptureDoes, Sides DEF Seen, Met, Aside
<1>18. ASSUME NEW b \in Button, Navigate(b) PROVE Seen'
  BY <1>18, NavigateDoes, Sides DEF Seen, Met, Aside
<1>19. ASSUME SelectUp PROVE Seen'
  BY <1>19, SelectUpDoes, Sides DEF Seen, Met, Aside
<1>20. ASSUME SelectDown PROVE Seen'
  BY <1>20, SelectDownDoes, Sides DEF Seen, Met, Aside
<1>21. ASSUME SelectRepeat PROVE Seen'
  BY <1>21, SelectRepeatDoes, Sides DEF Seen, Met, Aside
<1>22. ASSUME Ignore("buttons") PROVE Seen'
  BY <1>22, IgnoreDoes, Sides DEF Seen, Met, Aside
<1>23. ASSUME Move("buttons") PROVE Seen'
  BY <1>23, MoveDoes, Sides DEF Seen, Met, Aside
<1>24. ASSUME PreSelect("buttons") PROVE Seen'
  BY <1>24, PreSelectDoes, Sides DEF Seen, Met, Aside
<1>25. ASSUME CancelSelect("buttons") PROVE Seen'
  BY <1>25, CancelSelectDoes, Sides DEF Seen, Met, Aside
<1>26. ASSUME Select("buttons") PROVE Seen'
  BY <1>26, SelectDoes, Sides DEF Seen, Met, Aside
<1>27. ASSUME Held("buttons") PROVE Seen'
  BY <1>27, HeldDoes, Sides DEF Seen, Met, Aside
<1>28. ASSUME Answer("buttons") PROVE Seen'
  BY <1>28, AnswerDoes, Sides DEF Seen, Met, Aside
<1>29. ASSUME Loop PROVE Seen'
  BY <1>29, LoopDoes, Sides DEF Seen, Met, Aside
<1>30. ASSUME KeepDisplay("loop") PROVE Seen'
  BY <1>30, KeepDisplayDoes, Sides DEF Seen, Met, Aside
<1>31. ASSUME Redraw PROVE Seen'
  BY <1>31, RedrawDoes, Sides DEF Seen, Met, Aside
<1>32. ASSUME Update("loop") PROVE Seen'
  BY <1>32, UpdateDoes, Bound, Sides DEF Seen, Met, Aside
<1>33. ASSUME Draw("loop") PROVE Seen'
  BY <1>33, DrawDoes, Sides DEF Seen, Met, Aside
<1>34. ASSUME NEW b \in Button, NEW e \in Event(b), Press(b, e) PROVE Seen'
  BY <1>34, PressDoes, Sides DEF Seen, Met, Aside
<1>35. ASSUME Elapse PROVE Seen'
  BY <1>35, ElapseDoes, Sides DEF Seen, Met, Aside
<1>36. ASSUME UNCHANGED vars PROVE Seen'
  BY <1>36, NothingDoes, Sides DEF Seen, Met, Aside
<1> QED
  BY <1>10, <1>11, <1>12, <1>13, <1>14, <1>15, <1>16, <1>17, <1>18, <1>19, <1>20, <1>21,
     <1>22, <1>23, <1>24, <1>25, <1>26, <1>27, <1>28, <1>29, <1>30, <1>31, <1>32, <1>33,
     <1>34, <1>35, <1>36, Actions

-----------------------------------------------------------------------------
(* What the layers of a page take from a pool.  The fold goes from the     *)
(* last layer to the first; there are two at most.                         *)
LEMMA MaxIs ==
    ASSUME NEW s \in SUBSET {1, 2}, s # {}
    PROVE  Max(s) = IF 2 \in s THEN 2 ELSE 1
<1>1. CASE 2 \in s
  <2>1. \A x \in s : (\A y \in s : x >= y) <=> x = 2
    BY <1>1
  <2> QED
    BY <1>1, <2>1 DEF Max
<1>2. CASE 2 \notin s
  <2>1. s = {1}
    BY <1>2
  <2>2. \A x \in s : (\A y \in s : x >= y) <=> x = 1
    BY <2>1
  <2> QED
    BY <1>2, <2>1, <2>2 DEF Max
<1> QED
  BY <1>1, <1>2

LEMMA TotalIs ==
    ASSUME NEW layers, DOMAIN layers \in {{1}, {1, 2}}, NEW kind,
           \A i \in DOMAIN layers : Needs[layers[i]][kind] \in Nat
    PROVE  Total(layers, kind) =
             IF 2 \in DOMAIN layers THEN Needs[layers[1]][kind] + Needs[layers[2]][kind]
             ELSE Needs[layers[1]][kind]
<1> DEFINE need(x) == Needs[layers[x]][kind]
           S == DOMAIN layers
           Body(F) == [s \in SUBSET S |-> IF s = {} THEN 0 ELSE F[s \ {Max(s)}] + need(Max(s))]
           one == [s \in SUBSET S |-> IF s = {} THEN 0 ELSE 0 + need(Max(s))]
           two == [s \in SUBSET S |-> IF s = {} THEN 0 ELSE one[s \ {Max(s)}] + need(Max(s))]
           it == CHOOSE F : F = Body(F)
<1>1. Total(layers, kind) = it[S]
  BY DEF Total, FoldLeft, MapThenFoldSet
<1>2. \A s \in SUBSET S : s # {} => Max(s) = IF 2 \in s THEN 2 ELSE 1
  BY MaxIs
<1>3. \A s \in SUBSET S : two[s] = IF s = {} THEN 0 ELSE two[s \ {Max(s)}] + need(Max(s))
  <2> TAKE s \in SUBSET S
  <2>1. CASE s = {}
    BY <2>1
  <2>2. CASE s # {}
    <3> DEFINE t == s \ {Max(s)}
    <3>1. t \in SUBSET S /\ two[s] = one[t] + need(Max(s))
      BY <2>2
    <3>2. CASE t = {}
      BY <2>2, <3>1, <3>2
    <3>3. CASE t # {}
      <4>1. s = {1, 2} /\ Max(s) = 2 /\ t = {1} /\ Max(t) = 1
        <5>1. Max(s) = IF 2 \in s THEN 2 ELSE 1
          BY <1>2, <2>2
        <5>2. s = {1, 2}
          BY <3>3, <5>1
        <5>3. t = {1}
          BY <5>1, <5>2
        <5> HIDE DEF t
        <5> QED
          BY <1>2, <3>1, <3>3, <5>1, <5>2, <5>3
      <4>2. t \ {Max(t)} = {}
        BY <4>1
      <4>3. one[t] = 0 + need(1) /\ two[t] = one[{}] + need(1) /\ one[{}] = 0
        BY <3>1, <3>3, <4>1, <4>2
      <4> QED
        BY <2>2, <3>1, <4>3
    <3> QED
      BY <3>2, <3>3
  <2> QED
    BY <2>1, <2>2
<1>4. two = Body(two)
  BY <1>3
<1>5. it = Body(it)
  <2> HIDE DEF Body, two
  <2> QED
    BY <1>4
<1>6. it[S] = IF S = {1, 2} THEN it[{1}] + need(2) ELSE it[{}] + need(1)
  <2>1. S # {} /\ Max(S) = (IF 2 \in S THEN 2 ELSE 1) /\ S \in SUBSET S
    BY <1>2
  <2>2. it[S] = it[S \ {Max(S)}] + need(Max(S))
    <3> HIDE DEF it, need
    <3> QED
      BY <1>5, <2>1
  <2>3. S \ {Max(S)} = IF S = {1, 2} THEN {1} ELSE {}
    BY <2>1
  <2> HIDE DEF it, need
  <2> QED
    BY <2>1, <2>2, <2>3
<1>7. it[{}] = 0
  <2> HIDE DEF it, need
  <2> QED
    BY <1>5
<1>8. it[{1}] = it[{}] + need(1)
  <2>1. {1} \in SUBSET S /\ Max({1}) = 1 /\ {1} \ {1} = {}
    BY <1>2
  <2> HIDE DEF it, need
  <2> QED
    BY <1>5, <2>1
<1>9. \A i \in S : need(i) \in Nat
  OBVIOUS
<1> HIDE DEF it, need
<1>10. it[S] = IF 2 \in S THEN need(1) + need(2) ELSE need(1)
  BY <1>6, <1>7, <1>8, <1>9
<1> QED
  BY <1>1, <1>10 DEF need

(* Every page leaves something in every pool.                              *)
LEMMA LayersFit ==
    ASSUME Ample, NEW b \in Binding, page \in 1 .. LastPage
    PROVE  HasInstances(Layers(b)) /\ HasObjects(Layers(b))
<1> DEFINE T(kind) == Total(Layers(b), kind)
<1>1. MaxBoxes \in Nat /\ MaxRects \in Nat /\ MaxLines \in Nat /\ MaxObjects \in Nat
  BY ConstantsAssumption
<1>2. /\ T("boxes") \in 0 .. 12 /\ T("rects") \in 0 .. 3 /\ T("lines") \in 0 .. 1
      /\ T("boxes") + T("rects") + T("lines") <= 13
  <2>1. ASSUME NEW p, NEW q, p \in {"general", "health", "manufacture"}, q = "bar",
               Layers(b) = <<p, q>>
        PROVE  \A kind \in {"boxes", "rects", "lines"} :
                 T(kind) = Needs[p][kind] + Needs[q][kind]
    <3> TAKE kind \in {"boxes", "rects", "lines"}
    <3>1. Needs[p][kind] \in Nat /\ Needs[q][kind] \in Nat
      BY <2>1 DEF Needs, GeneralInit, HealthInit, ManufactureInit, BarInit
    <3>2. PICK l : l = Layers(b)
      OBVIOUS
    <3>3. DOMAIN l = {1, 2} /\ l[1] = p /\ l[2] = q
      BY <2>1, <3>2
    <3>4. Total(l, kind) = Needs[l[1]][kind] + Needs[l[2]][kind]
      BY <3>1, <3>3, TotalIs
    <3> QED
      BY <3>2, <3>3, <3>4
  <2>2. ASSUME NEW p, p \in {"list", "readings"}, Layers(b) = <<p>>
        PROVE  \A kind \in {"boxes", "rects", "lines"} : T(kind) = Needs[p][kind]
    <3> TAKE kind \in {"boxes", "rects", "lines"}
    <3>1. Needs[p][kind] \in Nat
      BY <2>2 DEF Needs, ListInit, ReadingsInit
    <3>2. PICK l : l = Layers(b)
      OBVIOUS
    <3>3. DOMAIN l = {1} /\ l[1] = p
      BY <2>2, <3>2
    <3>4. Total(l, kind) = Needs[l[1]][kind]
      BY <3>1, <3>3, TotalIs
    <3> QED
      BY <3>2, <3>3, <3>4
  <2>3. CASE b = "stats"
    <3>1. PICK p \in {"general", "health", "manufacture"} : p = Page[page]
      BY ConstantsAssumption DEF Page
    <3>2. \A kind \in {"boxes", "rects", "lines"} : T(kind) = Needs[p][kind] + Needs["bar"][kind]
      <4>1. PICK q : q = "bar"
        OBVIOUS
      <4>2. Layers(b) = <<p, q>>
        BY <2>3, <3>1, <4>1 DEF Layers
      <4> QED
        BY <2>1, <3>1, <4>1, <4>2
    <3> HIDE DEF T
    <3> QED
      BY <3>2 DEF Needs, GeneralInit, HealthInit, ManufactureInit, BarInit
  <2>4. CASE b = "menu"
    <3>1. \A kind \in {"boxes", "rects", "lines"} : T(kind) = Needs["list"][kind]
      BY <2>2, <2>4 DEF Layers
    <3> HIDE DEF T
    <3> QED
      BY <3>1 DEF Needs, ListInit
  <2>5. CASE b = "aod"
    <3>1. \A kind \in {"boxes", "rects", "lines"} : T(kind) = Needs["readings"][kind]
      BY <2>2, <2>5 DEF Layers
    <3> HIDE DEF T
    <3> QED
      BY <3>1 DEF Needs, ReadingsInit
  <2> QED
    BY <2>3, <2>4, <2>5 DEF Binding
<1> HIDE DEF T
<1>3. /\ T("boxes") <= MaxBoxes /\ T("rects") <= MaxRects /\ T("lines") <= MaxLines
      /\ T("boxes") + T("rects") + T("lines") <= MaxObjects
  BY <1>1, <1>2 DEF Ample
<1> QED
  BY <1>3 DEF T, HasInstances, HasObjects

LEMMA FitsStep ==
    ASSUME Ample, Typed, Boot, Seen, Fits, [Next]_vars
    PROVE  Fits'
<1>1. /\ LoopShape /\ ButtonsShape /\ Seen /\ Fits
      /\ page \in 1 .. LastPage /\ binding \in Binding \cup {"none"}
      /\ inactive \in BOOLEAN /\ raced \in BOOLEAN
  BY DEF Typed, TypeOK
<1>10. ASSUME NEW c \in Core, Point(c) PROVE Fits'
  BY <1>10, PointDoes, Sides DEF Seen, Met, Binds, Fits, FitsAt
<1>11. ASSUME NEW c \in Core, Open(c) PROVE Fits'
  BY <1>11, OpenDoes, Bound, Sides DEF Met, Binds, Fits, FitsAt, Whole
<1>12. ASSUME NEW c \in Core, Fill(c) PROVE Fits'
  <2>1. SUFFICES ASSUME ~raced' PROVE FitsAt(IF Name("loop") \in Binds THEN "loop" ELSE "buttons")'
    BY DEF Fits
  <2>2. ~raced /\ Name(c) = "fill"
    BY <1>12, <2>1, FillDoes, Sides
  <2>3. c = IF Name("loop") \in Binds THEN "loop" ELSE "buttons"
    BY <1>1, <2>2, Sides DEF Seen, Met, Binds
  <2>4. /\ binding \in Binding /\ (inactive <=> binding = "aod")
        /\ objects = <<>> /\ Arg(c) = binding
    BY <1>1, <2>2, <2>3 DEF Fits, FitsAt
  <2>5. HasInstances(Layers(binding)) /\ HasObjects(Layers(binding))
    BY <1>1, <2>4, LayersFit
  <2>6. <<>> \o Layers(binding) = Layers(binding)
    BY <1>1, <2>4, LayersTyped
  <2>7. objects' = Layers(binding)
    BY <1>12, <2>4, <2>5, <2>6, FillDoes
  <2>8. Whole'
    BY <1>12, <2>4, <2>7, FillDoes DEF Whole, Layers
  <2>9. /\ Name("loop")' \notin Binds
        /\ Name("buttons")' \notin {"asleep", "point", "init", "fill"}
    BY <1>1, <1>12, <2>2, <2>3, FillDoes, Sides DEF Seen, Met, Binds, LoopShape
  <2> QED
    BY <2>8, <2>9 DEF FitsAt
<1>13. ASSUME NEW c \in Core, UpdateNow(c) PROVE Fits'
  BY <1>1, <1>13, ForceDoes, Sides DEF Fits, FitsAt, Whole, Layers, Binding
<1>14. ASSUME NEW c \in Core, Sleep(c) PROVE Fits'
  BY <1>1, <1>14, SleepDoes, Sides DEF Seen, Met, Fits, FitsAt, Whole, Layers
<1>15. ASSUME NEW c \in Core, Asleep(c) PROVE Fits'
  BY <1>15, AsleepDoes, Sides DEF Met, Binds, Fits, FitsAt
<1>16. ASSUME Wake("buttons") PROVE Fits'
  BY <1>1, <1>16, WakeDoes, Sides DEF Met, Fits, FitsAt, Whole, Layers
<1>17. ASSUME Capture PROVE Fits'
  BY <1>1, <1>17, CaptureDoes, Sides DEF Fits, FitsAt, Whole, Layers, Binding
<1>18. ASSUME NEW b \in Button, Navigate(b) PROVE Fits'
  BY <1>1, <1>18, NavigateDoes, Sides DEF Fits, FitsAt, Whole, Layers
<1>19. ASSUME SelectUp PROVE Fits'
  BY <1>1, <1>19, SelectUpDoes, Sides DEF Fits, FitsAt, Whole, Layers
<1>20. ASSUME SelectDown PROVE Fits'
  BY <1>1, <1>20, SelectDownDoes, Sides DEF Fits, FitsAt, Whole, Layers
<1>21. ASSUME SelectRepeat PROVE Fits'
  BY <1>1, <1>21, SelectRepeatDoes, Sides DEF Fits, FitsAt, Whole, Layers
<1>22. ASSUME Ignore("buttons") PROVE Fits'
  BY <1>1, <1>22, IgnoreDoes, Sides DEF Fits, FitsAt, Whole, Layers, Binding
<1>23. ASSUME Move("buttons") PROVE Fits'
  BY <1>1, <1>23, MoveDoes, Sides DEF Met, Fits, FitsAt, Whole, Layers
<1>24. ASSUME PreSelect("buttons") PROVE Fits'
  BY <1>1, <1>24, PreSelectDoes, Sides DEF Fits, FitsAt, Whole, Layers
<1>25. ASSUME CancelSelect("buttons") PROVE Fits'
  BY <1>1, <1>25, CancelSelectDoes, Sides DEF Fits, FitsAt, Whole, Layers
<1>26. ASSUME Select("buttons") PROVE Fits'
  BY <1>1, <1>26, SelectDoes, Sides DEF Fits, FitsAt, Whole, Layers
<1>27. ASSUME Held("buttons") PROVE Fits'
  BY <1>1, <1>27, HeldDoes, Sides DEF Fits, FitsAt, Whole, Layers
<1>28. ASSUME Answer("buttons") PROVE Fits'
  BY <1>1, <1>28, AnswerDoes, Sides DEF Fits, FitsAt, Whole, Layers
<1>29. ASSUME Loop PROVE Fits'
  BY <1>1, <1>29, LoopDoes, Sides DEF Met, Binds, Fits, FitsAt, Whole, Layers
<1>30. ASSUME KeepDisplay("loop") PROVE Fits'
  BY <1>1, <1>30, KeepDisplayDoes, Sides DEF Binds, Fits, FitsAt, Whole, Layers, Binding
<1>31. ASSUME Redraw PROVE Fits'
  BY <1>1, <1>31, RedrawDoes, Sides DEF Binds, Fits, FitsAt, Whole, Layers, Binding
<1>32. ASSUME Update("loop") PROVE Fits'
  BY <1>1, <1>32, UpdateDoes, Bound, Sides DEF Binds, Fits, FitsAt, Whole, Layers
<1>33. ASSUME Draw("loop") PROVE Fits'
  BY <1>1, <1>33, DrawDoes, Sides DEF Binds, Fits, FitsAt, Whole, Layers, Binding
<1>34. ASSUME NEW b \in Button, NEW e \in Event(b), Press(b, e) PROVE Fits'
  BY <1>1, <1>34, PressDoes, Sides DEF Fits, FitsAt, Whole, Layers
<1>35. ASSUME Elapse PROVE Fits'
  BY <1>1, <1>35, ElapseDoes, Sides DEF Fits, FitsAt, Whole, Layers
<1>36. ASSUME UNCHANGED vars PROVE Fits'
  BY <1>1, <1>36, NothingDoes, Sides DEF Fits, FitsAt, Whole, Layers
<1> QED
  BY <1>10, <1>11, <1>12, <1>13, <1>14, <1>15, <1>16, <1>17, <1>18, <1>19, <1>20, <1>21,
     <1>22, <1>23, <1>24, <1>25, <1>26, <1>27, <1>28, <1>29, <1>30, <1>31, <1>32, <1>33,
     <1>34, <1>35, <1>36, Actions

-----------------------------------------------------------------------------
(* The two flags.  They differ while the menu opens, while it is left, and *)
(* between a press and the handler it is told to; a press of another time  *)
(* does not get there.                                                     *)
OpensMenu ==
    LET c == "buttons"
    IN  Name(c) \in {"init", "fill"} \/ (Name(c) = "answer" /\ Arg(c) = "captured")

LeavesMenu == Name("buttons") \in {"select", "sleep", "asleep", "point"}

Agrees ==
    LET c == "buttons"
    IN  binding = "menu" =>
            /\ OpensMenu => ~menuPre \/ Name(c) = "init"
            /\ Name(c) \in {"pre_select", "select", "sleep"} => preSelecting
            /\ Name(c) = "cancel" => ~preSelecting
            /\ \/ OpensMenu \/ LeavesMenu
               \/ Name(c) \in {"pre_select", "cancel"}
               \/ Name(c) = "idle" /\ raced /\ Name("loop") = "point"
               \/ menuPre <=> preSelecting

Captured == longSelect = "captured" => ~preSelecting

Opened ==
    binding = "menu" /\ Name("buttons") \in {"init", "fill"} => Rest("buttons") = Answers

(* The loop resets the menu's flag only when the button's is down too.     *)
LoopOpens ==
    Name("loop") = "init" /\ ~Booting /\ binding # "aod" =>
        /\ raced
        /\ OpensMenu \/ Name("buttons") = "idle"
        /\ binding = "menu" /\ Name("buttons") = "idle" => ~preSelecting

(* A menu that is left bound in inactive mode: nothing selects there.      *)
Forsaken ==
    LET c == "buttons"
    IN  inactive /\ binding = "menu" =>
            \/ Name("loop") = "point" \/ OpensMenu \/ Name(c) = "point"
            \/ ~preSelecting /\ ~(Name(c) = "offer" /\ Arg(c) = "select" /\ Tells(c) = "DOWN")

Flags == Captured /\ Opened /\ LoopOpens /\ Forsaken /\ Agrees

LEMMA CapturedStep ==
    ASSUME Typed, Boot, Seen, Flags, [Next]_vars
    PROVE  Captured' /\ Opened'
<1>1. /\ LoopShape /\ ButtonsShape /\ Boot /\ Seen /\ Flags
      /\ binding \in Binding \cup {"none"} /\ raced \in BOOLEAN /\ inactive \in BOOLEAN
      /\ preSelecting \in BOOLEAN /\ menuPre \in BOOLEAN
  BY DEF Typed, TypeOK
<1>10. ASSUME NEW c \in Core, Point(c) PROVE Captured' /\ Opened'
  BY <1>1, <1>10, PointDoes, Sides DEF Flags, Captured, Opened, Forsaken, LoopShape,
     ButtonsShape, Ends
<1>11. ASSUME NEW c \in Core, Open(c) PROVE Captured' /\ Opened'
  BY <1>11, OpenDoes, Bound, Sides DEF Flags, Captured, Opened
<1>12. ASSUME NEW c \in Core, Fill(c) PROVE Captured' /\ Opened'
  BY <1>12, FillDoes, Sides DEF Flags, Captured, Opened
<1>13. ASSUME NEW c \in Core, UpdateNow(c) PROVE Captured' /\ Opened'
  BY <1>13, ForceDoes DEF Flags, Captured, Opened
<1>14. ASSUME NEW c \in Core, Sleep(c) PROVE Captured' /\ Opened'
  BY <1>14, SleepDoes, Sides DEF Flags, Captured, Opened
<1>15. ASSUME NEW c \in Core, Asleep(c) PROVE Captured' /\ Opened'
  BY <1>15, AsleepDoes, Sides DEF Flags, Captured, Opened
<1>16. ASSUME Wake("buttons") PROVE Captured' /\ Opened'
  BY <1>16, WakeDoes DEF Flags, Captured, Opened
<1>17. ASSUME Capture PROVE Captured' /\ Opened'
  BY <1>17, CaptureDoes DEF Flags, Captured, Opened
<1>18. ASSUME NEW b \in Button, Navigate(b) PROVE Captured' /\ Opened'
  BY <1>18, NavigateDoes DEF Captured, Opened
<1>19. ASSUME SelectUp PROVE Captured' /\ Opened'
  BY <1>19, SelectUpDoes DEF Captured, Opened
<1>20. ASSUME SelectDown PROVE Captured' /\ Opened'
  BY <1>20, SelectDownDoes DEF Captured, Opened
<1>21. ASSUME SelectRepeat PROVE Captured' /\ Opened'
  BY <1>21, SelectRepeatDoes DEF Flags, Captured, Opened
<1>22. ASSUME Ignore("buttons") PROVE Captured' /\ Opened'
  BY <1>22, IgnoreDoes DEF Flags, Captured, Opened
<1>23. ASSUME Move("buttons") PROVE Captured' /\ Opened'
  BY <1>23, MoveDoes DEF Flags, Captured, Opened
<1>24. ASSUME PreSelect("buttons") PROVE Captured' /\ Opened'
  BY <1>24, PreSelectDoes DEF Flags, Captured, Opened
<1>25. ASSUME CancelSelect("buttons") PROVE Captured' /\ Opened'
  BY <1>25, CancelSelectDoes DEF Flags, Captured, Opened
<1>26. ASSUME Select("buttons") PROVE Captured' /\ Opened'
  BY <1>26, SelectDoes DEF Flags, Captured, Opened
<1>27. ASSUME Held("buttons") PROVE Captured' /\ Opened'
  BY <1>27, HeldDoes DEF Flags, Captured, Opened
<1>28. ASSUME Answer("buttons") PROVE Captured' /\ Opened'
  BY <1>28, AnswerDoes DEF Captured, Opened
<1>29. ASSUME Loop PROVE Captured' /\ Opened'
  BY <1>29, LoopDoes, Sides DEF Flags, Captured, Opened
<1>30. ASSUME KeepDisplay("loop") PROVE Captured' /\ Opened'
  BY <1>30, KeepDisplayDoes, Sides DEF Flags, Captured, Opened
<1>31. ASSUME Redraw PROVE Captured' /\ Opened'
  BY <1>31, RedrawDoes, Sides DEF Flags, Captured, Opened
<1>32. ASSUME Update("loop") PROVE Captured' /\ Opened'
  BY <1>32, UpdateDoes, Bound, Sides DEF Flags, Captured, Opened
<1>33. ASSUME Draw("loop") PROVE Captured' /\ Opened'
  BY <1>33, DrawDoes, Sides DEF Flags, Captured, Opened
<1>34. ASSUME NEW b \in Button, NEW e \in Event(b), Press(b, e) PROVE Captured' /\ Opened'
  BY <1>34, PressDoes DEF Flags, Captured, Opened
<1>35. ASSUME Elapse PROVE Captured' /\ Opened'
  BY <1>35, ElapseDoes, Sides DEF Flags, Captured, Opened
<1>36. ASSUME UNCHANGED vars PROVE Captured' /\ Opened'
  BY <1>36, NothingDoes, Sides DEF Flags, Captured, Opened
<1> QED
  BY <1>10, <1>11, <1>12, <1>13, <1>14, <1>15, <1>16, <1>17, <1>18, <1>19, <1>20, <1>21,
     <1>22, <1>23, <1>24, <1>25, <1>26, <1>27, <1>28, <1>29, <1>30, <1>31, <1>32, <1>33,
     <1>34, <1>35, <1>36, Actions

LEMMA AgreesStep ==
    ASSUME Typed, Boot, Seen, Flags, [Next]_vars
    PROVE  Agrees'
<1>1. /\ LoopShape /\ ButtonsShape /\ Boot /\ Seen /\ Flags
      /\ binding \in Binding \cup {"none"} /\ raced \in BOOLEAN /\ inactive \in BOOLEAN
      /\ preSelecting \in BOOLEAN /\ menuPre \in BOOLEAN
  BY DEF Typed, TypeOK
<1>10. ASSUME NEW c \in Core, Point(c) PROVE Agrees'
  BY <1>1, <1>10, PointDoes, Sides DEF Agrees, OpensMenu, LoopShape
<1>11. ASSUME NEW c \in Core, Open(c) PROVE Agrees'
  BY <1>11, OpenDoes, Bound, Sides DEF Flags, LoopOpens, Agrees, OpensMenu, Boot
<1>12. ASSUME NEW c \in Core, Fill(c) PROVE Agrees'
  BY AnswersDiffer, <1>12, FillDoes, Sides DEF Flags, Captured, Opened, LoopOpens,
     Forsaken, Agrees, OpensMenu, LeavesMenu
<1>13. ASSUME NEW c \in Core, UpdateNow(c) PROVE Agrees'
  BY <1>13, ForceDoes DEF Flags, Agrees, OpensMenu, LeavesMenu
<1>14. ASSUME NEW c \in Core, Sleep(c) PROVE Agrees'
  BY <1>14, SleepDoes, Sides DEF Flags, Forsaken, Agrees, OpensMenu, LeavesMenu, Binds,
     Met, Seen
<1>15. ASSUME NEW c \in Core, Asleep(c) PROVE Agrees'
  BY <1>15, AsleepDoes, Sides DEF Flags, Agrees, OpensMenu, LeavesMenu
<1>16. ASSUME Wake("buttons") PROVE Agrees'
  BY <1>16, WakeDoes DEF Flags, Agrees, OpensMenu, LeavesMenu
<1>17. ASSUME Capture PROVE Agrees'
  BY <1>17, CaptureDoes DEF Agrees
<1>18. ASSUME NEW b \in Button, Navigate(b) PROVE Agrees'
  BY <1>18, NavigateDoes DEF Flags, Agrees, OpensMenu, LeavesMenu
<1>19. ASSUME SelectUp PROVE Agrees'
  BY <1>19, SelectUpDoes DEF Flags, Agrees, OpensMenu, LeavesMenu
<1>20. ASSUME SelectDown PROVE Agrees'
  BY <1>20, SelectDownDoes DEF Agrees, OpensMenu
<1>21. ASSUME SelectRepeat PROVE Agrees'
  BY <1>21, SelectRepeatDoes DEF Flags, Agrees, OpensMenu, LeavesMenu
<1>22. ASSUME Ignore("buttons") PROVE Agrees'
  BY <1>22, IgnoreDoes DEF Agrees, NoHandler
<1>23. ASSUME Move("buttons") PROVE Agrees'
  BY <1>23, MoveDoes DEF Flags, Agrees, OpensMenu, LeavesMenu
<1>24. ASSUME PreSelect("buttons") PROVE Agrees'
  BY <1>24, PreSelectDoes DEF Flags, Agrees, OpensMenu
<1>25. ASSUME CancelSelect("buttons") PROVE Agrees'
  BY <1>25, CancelSelectDoes DEF Flags, Agrees
<1>26. ASSUME Select("buttons") PROVE Agrees'
  BY <1>26, SelectDoes DEF Flags, Agrees, LeavesMenu
<1>27. ASSUME Held("buttons") PROVE Agrees'
  BY <1>27, HeldDoes DEF Flags, Agrees, OpensMenu, LeavesMenu
<1>28. ASSUME Answer("buttons") PROVE Agrees'
  BY <1>28, AnswerDoes DEF Flags, Agrees, OpensMenu, LeavesMenu
<1>29. ASSUME Loop PROVE Agrees'
  BY <1>29, LoopDoes, Sides DEF Flags, Agrees, OpensMenu, LeavesMenu
<1>30. ASSUME KeepDisplay("loop") PROVE Agrees'
  BY <1>30, KeepDisplayDoes, Sides DEF Flags, Agrees, OpensMenu, LeavesMenu
<1>31. ASSUME Redraw PROVE Agrees'
  BY <1>31, RedrawDoes, Sides DEF Flags, Agrees, OpensMenu, LeavesMenu
<1>32. ASSUME Update("loop") PROVE Agrees'
  BY <1>32, UpdateDoes, Bound, Sides DEF Flags, Agrees, OpensMenu, LeavesMenu
<1>33. ASSUME Draw("loop") PROVE Agrees'
  BY <1>33, DrawDoes, Sides DEF Flags, Agrees, OpensMenu, LeavesMenu
<1>34. ASSUME NEW b \in Button, NEW e \in Event(b), Press(b, e) PROVE Agrees'
  BY <1>34, PressDoes DEF Flags, Agrees, OpensMenu, LeavesMenu, Binds
<1>35. ASSUME Elapse PROVE Agrees'
  BY <1>35, ElapseDoes, Sides DEF Flags, Agrees, OpensMenu, LeavesMenu
<1>36. ASSUME UNCHANGED vars PROVE Agrees'
  BY <1>36, NothingDoes, Sides DEF Flags, Agrees, OpensMenu, LeavesMenu
<1> QED
  BY <1>10, <1>11, <1>12, <1>13, <1>14, <1>15, <1>16, <1>17, <1>18, <1>19, <1>20, <1>21,
     <1>22, <1>23, <1>24, <1>25, <1>26, <1>27, <1>28, <1>29, <1>30, <1>31, <1>32, <1>33,
     <1>34, <1>35, <1>36, Actions

LEMMA LoopOpensStep ==
    ASSUME Typed, Boot, Seen, Flags, [Next]_vars
    PROVE  LoopOpens'
<1>1. /\ LoopShape /\ ButtonsShape /\ Boot /\ Seen /\ Flags
      /\ binding \in Binding \cup {"none"} /\ raced \in BOOLEAN /\ inactive \in BOOLEAN
      /\ preSelecting \in BOOLEAN /\ menuPre \in BOOLEAN
  BY DEF Typed, TypeOK
<1>10. ASSUME NEW c \in Core, Point(c) PROVE LoopOpens'
  BY <1>1, <1>10, PointDoes, Sides DEF LoopOpens, OpensMenu, Booting, Binds, Met,
     LoopShape, Ends
<1>11. ASSUME NEW c \in Core, Open(c) PROVE LoopOpens'
  BY <1>11, OpenDoes, Bound, Sides DEF LoopOpens, OpensMenu, Binds, Met
<1>12. ASSUME NEW c \in Core, Fill(c) PROVE LoopOpens'
  BY <1>1, AnswersDiffer, <1>12, FillDoes, Sides DEF Flags, Opened, LoopOpens, OpensMenu,
     Binds, Met, Seen, ButtonsShape
<1>13. ASSUME NEW c \in Core, UpdateNow(c) PROVE LoopOpens'
  BY <1>13, ForceDoes, Sides DEF Flags, LoopOpens, OpensMenu, Boot
<1>14. ASSUME NEW c \in Core, Sleep(c) PROVE LoopOpens'
  BY <1>14, SleepDoes, Sides DEF Flags, LoopOpens, OpensMenu, Boot
<1>15. ASSUME NEW c \in Core, Asleep(c) PROVE LoopOpens'
  BY <1>1, <1>15, AsleepDoes, Sides DEF Flags, LoopOpens, OpensMenu, Boot, Binding
<1>16. ASSUME Wake("buttons") PROVE LoopOpens'
  BY <1>16, WakeDoes, Sides DEF Flags, LoopOpens, OpensMenu, Booting
<1>17. ASSUME Capture PROVE LoopOpens'
  BY <1>17, CaptureDoes, Sides DEF LoopOpens, Binds, Met, Seen
<1>18. ASSUME NEW b \in Button, Navigate(b) PROVE LoopOpens'
  BY <1>18, NavigateDoes, Sides DEF Flags, LoopOpens, OpensMenu, Booting
<1>19. ASSUME SelectUp PROVE LoopOpens'
  BY <1>19, SelectUpDoes, Sides DEF Flags, LoopOpens, OpensMenu, Boot
<1>20. ASSUME SelectDown PROVE LoopOpens'
  BY <1>20, SelectDownDoes, Sides DEF Flags, LoopOpens, OpensMenu, Booting
<1>21. ASSUME SelectRepeat PROVE LoopOpens'
  BY <1>21, SelectRepeatDoes, Sides DEF Flags, LoopOpens, OpensMenu, Boot
<1>22. ASSUME Ignore("buttons") PROVE LoopOpens'
  BY <1>22, IgnoreDoes, Sides DEF Flags, LoopOpens, OpensMenu, Booting
<1>23. ASSUME Move("buttons") PROVE LoopOpens'
  BY <1>23, MoveDoes, Sides DEF Flags, LoopOpens, OpensMenu, Booting
<1>24. ASSUME PreSelect("buttons") PROVE LoopOpens'
  BY <1>24, PreSelectDoes, Sides DEF Flags, LoopOpens, OpensMenu, Boot
<1>25. ASSUME CancelSelect("buttons") PROVE LoopOpens'
  BY <1>25, CancelSelectDoes, Sides DEF Flags, LoopOpens, OpensMenu, Boot
<1>26. ASSUME Select("buttons") PROVE LoopOpens'
  BY <1>26, SelectDoes, Sides DEF Flags, LoopOpens, OpensMenu, Boot
<1>27. ASSUME Held("buttons") PROVE LoopOpens'
  BY <1>27, HeldDoes, Sides DEF Flags, LoopOpens, OpensMenu, Boot
<1>28. ASSUME Answer("buttons") PROVE LoopOpens'
  BY <1>28, AnswerDoes, Sides DEF Flags, LoopOpens, OpensMenu, Boot
<1>29. ASSUME Loop PROVE LoopOpens'
  BY <1>29, LoopDoes DEF LoopOpens
<1>30. ASSUME KeepDisplay("loop") PROVE LoopOpens'
  BY <1>30, KeepDisplayDoes DEF LoopOpens
<1>31. ASSUME Redraw PROVE LoopOpens'
  BY <1>31, RedrawDoes DEF LoopOpens
<1>32. ASSUME Update("loop") PROVE LoopOpens'
  BY <1>32, UpdateDoes, Bound DEF LoopOpens
<1>33. ASSUME Draw("loop") PROVE LoopOpens'
  BY <1>33, DrawDoes DEF LoopOpens
<1>34. ASSUME NEW b \in Button, NEW e \in Event(b), Press(b, e) PROVE LoopOpens'
  BY <1>34, PressDoes, Sides DEF Flags, LoopOpens, Booting, Binds
<1>35. ASSUME Elapse PROVE LoopOpens'
  BY <1>35, ElapseDoes, Sides DEF Flags, LoopOpens, Booting
<1>36. ASSUME UNCHANGED vars PROVE LoopOpens'
  BY <1>36, NothingDoes, Sides DEF Flags, LoopOpens, OpensMenu, Booting
<1> QED
  BY <1>10, <1>11, <1>12, <1>13, <1>14, <1>15, <1>16, <1>17, <1>18, <1>19, <1>20, <1>21,
     <1>22, <1>23, <1>24, <1>25, <1>26, <1>27, <1>28, <1>29, <1>30, <1>31, <1>32, <1>33,
     <1>34, <1>35, <1>36, Actions

LEMMA ForsakenStep ==
    ASSUME Typed, Boot, Seen, Flags, [Next]_vars
    PROVE  Forsaken'
<1>1. /\ LoopShape /\ ButtonsShape /\ Boot /\ Seen /\ Flags
      /\ binding \in Binding \cup {"none"} /\ raced \in BOOLEAN /\ inactive \in BOOLEAN
      /\ preSelecting \in BOOLEAN /\ menuPre \in BOOLEAN
  BY DEF Typed, TypeOK
<1>10. ASSUME NEW c \in Core, Point(c) PROVE Forsaken'
  BY <1>1, <1>10, PointDoes, Sides DEF Forsaken, OpensMenu, LoopShape
<1>11. ASSUME NEW c \in Core, Open(c) PROVE Forsaken'
  BY <1>11, OpenDoes, Bound, Sides DEF Flags, Forsaken, OpensMenu
<1>12. ASSUME NEW c \in Core, Fill(c) PROVE Forsaken'
  BY AnswersDiffer, <1>12, FillDoes, Sides DEF Flags, Opened, Forsaken, OpensMenu
<1>13. ASSUME NEW c \in Core, UpdateNow(c) PROVE Forsaken'
  BY <1>13, ForceDoes, Sides DEF Flags, Forsaken, OpensMenu
<1>14. ASSUME NEW c \in Core, Sleep(c) PROVE Forsaken'
  BY <1>14, SleepDoes, Sides DEF Flags, Forsaken, OpensMenu
<1>15. ASSUME NEW c \in Core, Asleep(c) PROVE Forsaken'
  BY <1>15, AsleepDoes, Sides DEF Forsaken
<1>16. ASSUME Wake("buttons") PROVE Forsaken'
  BY <1>16, WakeDoes DEF Forsaken
<1>17. ASSUME Capture PROVE Forsaken'
  BY <1>17, CaptureDoes DEF Forsaken
<1>18. ASSUME NEW b \in Button, Navigate(b) PROVE Forsaken'
  BY <1>18, NavigateDoes DEF Forsaken
<1>19. ASSUME SelectUp PROVE Forsaken'
  BY <1>19, SelectUpDoes, Sides DEF Flags, Forsaken, OpensMenu
<1>20. ASSUME SelectDown PROVE Forsaken'
  BY <1>20, SelectDownDoes, Sides DEF Flags, Forsaken, OpensMenu
<1>21. ASSUME SelectRepeat PROVE Forsaken'
  BY <1>21, SelectRepeatDoes, Sides DEF Flags, Forsaken, OpensMenu
<1>22. ASSUME Ignore("buttons") PROVE Forsaken'
  BY <1>22, IgnoreDoes DEF Forsaken, NoHandler
<1>23. ASSUME Move("buttons") PROVE Forsaken'
  BY <1>23, MoveDoes, Sides DEF Flags, Forsaken, OpensMenu
<1>24. ASSUME PreSelect("buttons") PROVE Forsaken'
  BY <1>24, PreSelectDoes, Sides DEF Flags, Forsaken, OpensMenu
<1>25. ASSUME CancelSelect("buttons") PROVE Forsaken'
  BY <1>25, CancelSelectDoes, Sides DEF Flags, Forsaken, OpensMenu
<1>26. ASSUME Select("buttons") PROVE Forsaken'
  BY <1>26, SelectDoes, Sides DEF Flags, Forsaken, OpensMenu
<1>27. ASSUME Held("buttons") PROVE Forsaken'
  BY <1>27, HeldDoes, Sides DEF Flags, Forsaken, OpensMenu
<1>28. ASSUME Answer("buttons") PROVE Forsaken'
  BY <1>28, AnswerDoes, Sides DEF Flags, Forsaken, OpensMenu
<1>29. ASSUME Loop PROVE Forsaken'
  BY <1>29, LoopDoes DEF Forsaken
<1>30. ASSUME KeepDisplay("loop") PROVE Forsaken'
  BY <1>30, KeepDisplayDoes, Sides DEF Flags, Forsaken, OpensMenu
<1>31. ASSUME Redraw PROVE Forsaken'
  BY <1>31, RedrawDoes, Sides DEF Flags, Forsaken, OpensMenu
<1>32. ASSUME Update("loop") PROVE Forsaken'
  BY <1>32, UpdateDoes, Bound, Sides DEF Flags, Forsaken, OpensMenu
<1>33. ASSUME Draw("loop") PROVE Forsaken'
  BY <1>33, DrawDoes, Sides DEF Flags, Forsaken, OpensMenu
<1>34. ASSUME NEW b \in Button, NEW e \in Event(b), Press(b, e) PROVE Forsaken'
  BY <1>34, PressDoes, Sides DEF Flags, Forsaken, OpensMenu
<1>35. ASSUME Elapse PROVE Forsaken'
  BY <1>35, ElapseDoes DEF Forsaken
<1>36. ASSUME UNCHANGED vars PROVE Forsaken'
  BY <1>36, NothingDoes, Sides DEF Flags, Forsaken, OpensMenu
<1> QED
  BY <1>10, <1>11, <1>12, <1>13, <1>14, <1>15, <1>16, <1>17, <1>18, <1>19, <1>20, <1>21,
     <1>22, <1>23, <1>24, <1>25, <1>26, <1>27, <1>28, <1>29, <1>30, <1>31, <1>32, <1>33,
     <1>34, <1>35, <1>36, Actions

-----------------------------------------------------------------------------
(* What the display shows is what is bound and chosen, unless someone      *)
(* still has to ask for a redraw, has asked for one, or the loop is about  *)
(* to read what is bound.                                                  *)
Owes(c) ==
    \/ Name(c) \in {"asleep", "point", "init", "fill", "force"}
    \/ Name(c) = "sleep" /\ c = "buttons" /\ ~inactive

Fresh ==
    ~force /\ ~Owes("buttons") /\ ~Owes("loop") /\ Name("loop") # "update" =>
        IF Name("loop") = "draw" THEN Arg("loop") = binding ELSE shown = Screen(binding)

LEMMA FreshStep ==
    ASSUME Typed, Boot, Seen, Flags, Fresh, [Next]_vars
    PROVE  Fresh'
<1>1. /\ LoopShape /\ ButtonsShape /\ Boot /\ Fresh
      /\ binding \in Binding \cup {"none"}
      /\ inactive \in BOOLEAN /\ force \in BOOLEAN
  BY DEF Typed, TypeOK
<1>2. /\ binding = "menu" /\ Name("buttons") = "select" /\ inactive => Name("loop") = "point"
  BY <1>1 DEF Flags, Agrees, Forsaken, OpensMenu
<1>10. ASSUME NEW c \in Core, Point(c) PROVE Fresh'
  BY <1>10, PointDoes, Sides DEF Fresh, Owes
<1>11. ASSUME NEW c \in Core, Open(c) PROVE Fresh'
  BY <1>11, OpenDoes, Bound, Sides DEF Fresh, Owes
<1>12. ASSUME NEW c \in Core, Fill(c) PROVE Fresh'
  BY <1>12, FillDoes DEF Fresh
<1>13. ASSUME NEW c \in Core, UpdateNow(c) PROVE Fresh'
  BY <1>13, ForceDoes DEF Fresh
<1>14. ASSUME NEW c \in Core, Sleep(c) PROVE Fresh'
  BY <1>14, SleepDoes, Sides DEF Fresh, Owes, Screen
<1>15. ASSUME NEW c \in Core, Asleep(c) PROVE Fresh'
  BY <1>15, AsleepDoes, Sides DEF Fresh, Owes
<1>16. ASSUME Wake("buttons") PROVE Fresh'
  BY <1>16, WakeDoes, Sides DEF Fresh, Owes, Screen
<1>17. ASSUME Capture PROVE Fresh'
  BY <1>17, CaptureDoes, Sides DEF Fresh, Owes, Screen
<1>18. ASSUME NEW b \in Button, Navigate(b) PROVE Fresh'
  BY <1>18, NavigateDoes, Sides DEF Fresh, Owes, Screen
<1>19. ASSUME SelectUp PROVE Fresh'
  BY <1>19, SelectUpDoes, Sides DEF Fresh, Owes, Screen
<1>20. ASSUME SelectDown PROVE Fresh'
  BY <1>20, SelectDownDoes, Sides DEF Fresh, Owes, Screen
<1>21. ASSUME SelectRepeat PROVE Fresh'
  BY <1>21, SelectRepeatDoes, Sides DEF Fresh, Owes, Screen
<1>22. ASSUME Ignore("buttons") PROVE Fresh'
  BY <1>22, IgnoreDoes, Sides DEF Fresh, Owes, Screen
<1>23. ASSUME Move("buttons") PROVE Fresh'
  BY <1>23, MoveDoes, Sides DEF Fresh, Owes, Screen
<1>24. ASSUME PreSelect("buttons") PROVE Fresh'
  BY <1>24, PreSelectDoes DEF Fresh, Owes
<1>25. ASSUME CancelSelect("buttons") PROVE Fresh'
  BY <1>25, CancelSelectDoes DEF Fresh, Owes
<1>26. ASSUME Select("buttons") PROVE Fresh'
  BY <1>2, <1>26, SelectDoes, Sides DEF Fresh, Owes
<1>27. ASSUME Held("buttons") PROVE Fresh'
  BY <1>27, HeldDoes, Sides DEF Fresh, Owes, Screen
<1>28. ASSUME Answer("buttons") PROVE Fresh'
  BY <1>28, AnswerDoes, Sides DEF Fresh, Owes, Screen
<1>29. ASSUME Loop PROVE Fresh'
  BY <1>29, LoopDoes, Sides DEF Fresh, Owes, Screen
<1>30. ASSUME KeepDisplay("loop") PROVE Fresh'
  BY <1>30, KeepDisplayDoes, Sides DEF Fresh, Owes, Screen
<1>31. ASSUME Redraw PROVE Fresh'
  BY <1>31, RedrawDoes DEF Fresh
<1>32. ASSUME Update("loop") PROVE Fresh'
  BY <1>32, UpdateDoes, Bound DEF Fresh
<1>33. ASSUME Draw("loop") PROVE Fresh'
  BY <1>33, DrawDoes, Sides DEF Fresh, Owes, Screen
<1>34. ASSUME NEW b \in Button, NEW e \in Event(b), Press(b, e) PROVE Fresh'
  BY <1>34, PressDoes, Sides DEF Fresh, Owes, Screen
<1>35. ASSUME Elapse PROVE Fresh'
  BY <1>35, ElapseDoes, Sides DEF Fresh, Owes, Screen
<1>36. ASSUME UNCHANGED vars PROVE Fresh'
  BY <1>36, NothingDoes, Sides DEF Fresh, Owes, Screen
<1> QED
  BY <1>10, <1>11, <1>12, <1>13, <1>14, <1>15, <1>16, <1>17, <1>18, <1>19, <1>20, <1>21,
     <1>22, <1>23, <1>24, <1>25, <1>26, <1>27, <1>28, <1>29, <1>30, <1>31, <1>32, <1>33,
     <1>34, <1>35, <1>36, Actions

-----------------------------------------------------------------------------
Invariant == Typed /\ Boot /\ Seen /\ Flags /\ Fresh

LEMMA AtFirst ==
    ASSUME Init
    PROVE  /\ Name("loop") = "point" /\ Arg("loop") = "stats" /\ Rest("loop") = Opens \o <<>>
           /\ Name("buttons") = "idle" /\ todo \in [Core -> Work]
<1>1. "loop" \in Core /\ "buttons" \in Core
  BY DEF Core
<1>2. PICK b \in Binding, r \in Work : b = "stats" /\ r = <<>>
  BY RestSteps DEF Binding
<1>3. PICK t : t = Bind(b)
  OBVIOUS
<1>4. t \in Work
  BY <1>2, <1>3, Binding2
<1>5. t \o r = t
  <2>1. t \in Seq(Step)
    BY <1>4 DEF Work
  <2> QED
    BY <1>2, <2>1, ConcatEmptySeq
<1>6. NameOf(t) = "point" /\ Head(t)[2] = b /\ Tail(t) = Opens \o r
  BY <1>2, <1>3, <1>5, Binding2
<1>7. todo = [c \in Core |-> IF c = "loop" THEN t ELSE r]
  BY <1>2, <1>3 DEF Init
<1>8. todo["loop"] = t /\ todo["buttons"] = r /\ todo \in [Core -> Work]
  BY <1>1, <1>2, <1>4, <1>7
<1> QED
  BY <1>2, <1>6, <1>8, RestSteps DEF Name, Arg, Rest

LEMMA InvariantAtFirst == Init => Invariant
<1> SUFFICES ASSUME Init PROVE Invariant
  OBVIOUS
<1>1. /\ Name("loop") = "point" /\ Arg("loop") = "stats" /\ Rest("loop") = Opens \o <<>>
      /\ Name("buttons") = "idle" /\ todo \in [Core -> Work]
  BY AtFirst
<1>2. TypeOK
  <2>1. 1 \in 1 .. LastPage
    BY ConstantsAssumption
  <2>2. 1 \in DOMAIN Item
    BY DEF Item
  <2>3. <<>> \in Seq(DOMAIN Needs)
    OBVIOUS
  <2> QED
    BY <1>1, <2>1, <2>2, <2>3 DEF Init, TypeOK, Work
<1>3. Typed
  BY <1>1, <1>2 DEF Typed, LoopShape, ButtonsShape
<1>4. Boot /\ Seen
  BY <1>1 DEF Init, Boot, Booting, Seen, Met
<1>5. Flags
  BY <1>1 DEF Init, Flags, Captured, Opened, LoopOpens, Forsaken, Agrees
<1>6. Fresh
  BY <1>1 DEF Fresh, Owes
<1> QED
  BY <1>3, <1>4, <1>5, <1>6 DEF Invariant

LEMMA InvariantStep == Invariant /\ [Next]_vars => Invariant'
<1> SUFFICES ASSUME Invariant, [Next]_vars PROVE Invariant'
  OBVIOUS
<1>1. Typed /\ Boot /\ Seen /\ Flags /\ Fresh
  BY DEF Invariant
<1>2. TypeOK' /\ LoopShape' /\ ButtonsShape' /\ Boot' /\ Seen' /\ Fresh'
  BY <1>1, TypeStep, ShapesStep, BootStep, SeenStep, FreshStep
<1>3. Captured' /\ Opened' /\ LoopOpens' /\ Forsaken' /\ Agrees'
  BY <1>1, CapturedStep, LoopOpensStep, ForsakenStep, AgreesStep
<1> QED
  BY <1>2, <1>3 DEF Invariant, Typed, Flags

LEMMA InvariantHolds == Spec => []Invariant
<1>1. Init => Invariant
  BY InvariantAtFirst
<1>2. Invariant /\ [Next]_vars => Invariant'
  BY InvariantStep
<1> QED
  BY <1>1, <1>2, PTL DEF Spec

(* The cores' steps, flags, pages and bindings are what they may be.       *)
THEOREM TypeCorrect == Spec => []TypeOK
<1>1. Invariant => TypeOK
  BY DEF Invariant, Typed
<1> QED
  BY <1>1, InvariantHolds, PTL

(* When both cores are at rest and no redraw is asked for, the display     *)
(* shows what is bound, whichever callback changed it and however it met   *)
(* the loop: the flag falls before the loop draws (gui.c:182-184).         *)
THEOREM ChangesAreShownHolds == Spec => []ChangesAreShown
<1>1. Invariant => ChangesAreShown
  <2> SUFFICES ASSUME Invariant, todo["buttons"] = <<>>, todo["loop"] = <<>>, ~force
               PROVE  shown = Screen(binding)
    BY DEF ChangesAreShown
  <2>1. Name("buttons") = "idle" /\ Name("loop") = "idle"
    BY Names, TodoTyped, Sides DEF Invariant
  <2> QED
    BY <2>1 DEF Invariant, Fresh, Owes
<1> QED
  BY <1>1, InvariantHolds, PTL

(* A release in the menu selects if and only if the item is shown as about *)
(* to be selected, though gui.c and menu_list.c each keep a flag of their  *)
(* own for it (gui.c:84-99, menu_list.c:73-82) and the loop may bind       *)
(* between any two steps of a callback.                                    *)
THEOREM SelectsWhatIsShownHolds == Spec => SelectsWhatIsShown
<1>1. Invariant /\ [Next]_vars =>
        [SelectUp /\ binding = "menu" =>
            (menuPre <=> todo'["buttons"] = << <<"select">> >>)]_vars
  <2> SUFFICES ASSUME Invariant, SelectUp, binding = "menu"
               PROVE  menuPre <=> todo'["buttons"] = << <<"select">> >>
    OBVIOUS
  <2>1. /\ Name("buttons") = "offer"
        /\ \/ preSelecting /\ longSelect # "captured" /\ todo'["buttons"] = << <<"select">> >>
           \/ ~(preSelecting /\ longSelect # "captured") /\ todo'["buttons"] = <<>>
    BY SelectUpDoes DEF Invariant
  <2>2. menuPre <=> preSelecting
    BY <2>1 DEF Invariant, Flags, Agrees, OpensMenu, LeavesMenu
  <2>3. preSelecting => longSelect # "captured"
    BY DEF Invariant, Flags, Captured
  <2>4. << <<"select">> >> # <<>>
    OBVIOUS
  <2> QED
    BY <2>1, <2>2, <2>3, <2>4
<1> QED
  BY <1>1, InvariantHolds, PTL DEF Spec, SelectsWhatIsShown

LEMMA FitsHolds == Ample => (Spec => []Fits)
<1> SUFFICES ASSUME Ample PROVE Spec => []Fits
  OBVIOUS
<1>1. Init => Fits
  BY AtFirst DEF Init, Fits, FitsAt, Binds
<1>2. Invariant /\ Fits /\ [Next]_vars => Fits'
  BY FitsStep DEF Invariant
<1> QED
  BY <1>1, <1>2, InvariantHolds, PTL DEF Spec

(* If the pools hold the largest page, they and the object list suffice    *)
(* for whatever is bound again and again (graphics.c:232, 306, 318, 330),  *)
(* unless a callback has met the loop binding.                             *)
THEOREM PoolsSufficeHolds == Ample => (Spec => []PoolsSuffice)
<1> SUFFICES ASSUME Ample PROVE Spec => []PoolsSuffice
  OBVIOUS
<1>1. Invariant /\ Fits => PoolsSuffice
  <2> SUFFICES ASSUME Invariant, Fits, NEW c \in Core, At(c, "fill"), ~raced
               PROVE  /\ HasInstances(objects \o Layers(Arg(c)))
                      /\ HasObjects(objects \o Layers(Arg(c)))
    BY DEF PoolsSuffice
  <2>1. Name(c) = "fill" /\ Typed /\ Seen
    BY Doing DEF Invariant
  <2>2. c = IF Name("loop") \in Binds THEN "loop" ELSE "buttons"
    BY <2>1, Sides DEF Seen, Met, Binds
  <2>3. binding \in Binding /\ objects = <<>> /\ Arg(c) = binding
    BY <2>1, <2>2 DEF Fits, FitsAt
  <2>4. page \in 1 .. LastPage
    BY <2>1 DEF Typed, TypeOK
  <2>5. <<>> \o Layers(binding) = Layers(binding)
    BY <2>3, <2>4, LayersTyped
  <2> QED
    BY <2>3, <2>4, <2>5, LayersFit
<1> QED
  BY <1>1, InvariantHolds, FitsHolds, PTL

(* If the pools hold the largest page and no callback has met the loop     *)
(* binding, then whenever no core is binding the mode, the binding and the *)
(* objects on the list fit together (gui.c:125-156).                       *)
THEOREM BindingIsWholeHolds == Ample => (Spec => []BindingIsWhole)
<1> SUFFICES ASSUME Ample PROVE Spec => []BindingIsWhole
  OBVIOUS
<1>1. Invariant /\ Fits => BindingIsWhole
  <2> SUFFICES ASSUME Invariant, Fits, todo["buttons"] = <<>>, ~IsBinding(todo["loop"]), ~raced
               PROVE  (inactive <=> binding = "aod") /\ objects = Layers(binding)
    BY DEF BindingIsWhole
  <2>1. Name("buttons") = "idle" /\ Name("loop") \notin Binds
    BY Names, TodoTyped, Sides DEF Invariant
  <2> QED
    BY <2>1 DEF Fits, FitsAt, Whole
<1> QED
  BY <1>1, InvariantHolds, FitsHolds, PTL
=============================================================================
