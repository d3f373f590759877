------------------------------- MODULE Covers -------------------------------
(***************************************************************************)
(* Making the covers of a movie (src/core/img_format.cpp): two images are  *)
(* resized from a source and written to two files, named after the movie,  *)
(* that a Cover object then refers to.  Opening the source or an output    *)
(* file may fail, a program may die between two steps, and both leave      *)
(* something behind.  The pixels are libgd's: an image is its dimensions.  *)
(***************************************************************************)
EXTENDS Integers

CONSTANTS
  Names,        \* the names covers are made under
  Paths,        \* the files,
  PathOf,       \*   those of a name: name -> kind -> file
  Resizes,      \* what a client asks of resize_to_width: width and source
  Scales,       \*   and of scale_image: ratio, a fraction, and source
  MaxInt,       \* the greatest int
  MaxFailures   \* bound: outputs that cannot be opened

Kinds == {"standard", "square"}

ASSUME PathAssumption == PathOf \in [Names -> [Kinds -> Paths]]
ASSUME SizeAssumption ==
  /\ MaxInt \in Nat \ {0}
  /\ Resizes \subseteq Int \X (1 .. MaxInt) \X (1 .. MaxInt)
  /\ Scales \subseteq Int \X (1 .. MaxInt) \X (1 .. MaxInt) \X (1 .. MaxInt)
ASSUME MaxFailuresAssumption == MaxFailures \in Nat

VARIABLES
  disk,      \* what each file holds: the image of a name, nothing yet, no file
  stage,     \* where create_covers() stands
  name,      \* its output name
  images,    \* GD images that are allocated
  failures,  \* history: outputs that could not be opened
  covers,    \* names whose last Cover returned refers to their files
  crashed,   \* history: the program died while files were written
  fault      \* an image that was not created is drawn upon

coversVars == <<disk, stage, name, images, failures, covers, crashed, fault>>

NoFile == <<"no", "file">>
NewFile == <<"new", "file">>
Image(n, k) == <<n, k>>

Stages == {"idle", "opened", "resized", "standard", "square", "written"}

CoversTypeOK ==
  /\ disk \in [Paths -> (Names \X Kinds) \cup {NoFile, NewFile}]
  /\ stage \in Stages
  /\ name \in Names
  /\ images \in 0 .. 2 * MaxFailures + 3
  /\ failures \in 0 .. MaxFailures
  /\ covers \subseteq Names
  /\ crashed \in BOOLEAN
  /\ fault \in BOOLEAN

CoversInit ==
  /\ disk = [p \in Paths |-> NoFile]
  /\ stage = "idle"
  /\ name \in Names
  /\ images = 0
  /\ failures = 0
  /\ covers = {}
  /\ crashed = FALSE
  /\ fault = FALSE

File(k) == PathOf[name][k]

-----------------------------------------------------------------------------
\* create_covers, 1: the source is read.  When it cannot be, the default cover
\* is returned and nothing has changed.
OpenSource(n) ==
  /\ stage = "idle" /\ ~ fault
  /\ stage' = "opened"
  /\ name' = n
  /\ images' = images + 1
  /\ covers' = covers \ {n}
  /\ UNCHANGED <<disk, failures, crashed, fault>>

\* 2: the two images, of 240 x 320 and of 240 x 240.
ResizeBoth ==
  /\ stage = "opened"
  /\ stage' = "resized"
  /\ images' = images + 2
  /\ UNCHANGED <<disk, name, failures, covers, crashed, fault>>

\* 3: the first output.
OpenStandard ==
  /\ stage = "resized"
  /\ disk' = [disk EXCEPT ![File("standard")] = NewFile]
  /\ stage' = "standard"
  /\ UNCHANGED <<name, images, failures, covers, crashed, fault>>

\* 3: only the source is destroyed; the default cover is returned.
OpenStandardFails ==
  /\ stage = "resized"
  /\ failures < MaxFailures
  /\ failures' = failures + 1
  /\ images' = images - 1
  /\ stage' = "idle"
  /\ UNCHANGED <<disk, name, covers, crashed, fault>>

\* 4: the second output.
OpenSquare ==
  /\ stage = "standard"
  /\ disk' = [disk EXCEPT ![File("square")] = NewFile]
  /\ stage' = "square"
  /\ UNCHANGED <<name, images, failures, covers, crashed, fault>>

\* Mutant: the first file is not removed.
OpenSquareFailsOnly ==
  /\ stage = "standard"
  /\ failures < MaxFailures
  /\ failures' = failures + 1
  /\ images' = images - 1
  /\ stage' = "idle"
  /\ UNCHANGED <<disk, name, covers, crashed, fault>>

\* 4: the first file is removed, only the source is destroyed.
OpenSquareFails ==
  /\ stage = "standard"
  /\ failures < MaxFailures
  /\ failures' = failures + 1
  /\ disk' = [disk EXCEPT ![File("standard")] = NoFile]
  /\ images' = images - 1
  /\ stage' = "idle"
  /\ UNCHANGED <<name, covers, crashed, fault>>

\* Mutant: the standard image goes to both files.
WriteBothStandard ==
  /\ stage = "square"
  /\ disk' = [disk EXCEPT ![File("standard")] = Image(name, "standard"),
                          ![File("square")] = Image(name, "standard")]
  /\ stage' = "written"
  /\ UNCHANGED <<name, images, failures, covers, crashed, fault>>

\* 5: both are written and closed, to a disk with room for them.
WriteBoth ==
  /\ stage = "square"
  /\ disk' = [disk EXCEPT ![File("standard")] = Image(name, "standard"),
                          ![File("square")] = Image(name, "square")]
  /\ stage' = "written"
  /\ UNCHANGED <<name, images, failures, covers, crashed, fault>>

\* 6: the three images are destroyed and the cover of the two files returned.
ReturnCover ==
  /\ stage = "written"
  /\ images' = images - 3
  /\ covers' = covers \cup {name}
  /\ stage' = "idle"
  /\ UNCHANGED <<disk, name, failures, crashed, fault>>

CreateCoversStep ==
  \/ ResizeBoth
  \/ OpenStandard \/ OpenStandardFails \/ OpenSquare \/ OpenSquareFails
  \/ WriteBoth \/ ReturnCover

-----------------------------------------------------------------------------
\* gdImageCreateTrueColor makes no image without pixels, or with too many.
Creatable(width, height) ==
  width > 0 /\ height > 0 /\ width <= MaxInt \div height

\* resize_exact: the image is drawn upon without a look whether it is one.
ResizeExact(width, height) ==
  /\ stage = "idle" /\ ~ fault
  /\ fault' = ~ Creatable(width, height)
  /\ UNCHANGED <<disk, stage, name, images, failures, covers, crashed>>

\* The product as an int, in a build where it wraps.
Product(a, b) == ((a * b + MaxInt + 1) % (2 * MaxInt + 2)) - MaxInt - 1

\* resize_to_width: the client destroys the image it gets.
ResizeToWidth(width, srcWidth, srcHeight) ==
  ResizeExact(width, Product(width, srcHeight) \div srcWidth)

Abs(x) == IF x < 0 THEN - x ELSE x

\* scale_image, by the ratio num / den.
ScaleImage(num, den, srcWidth, srcHeight) ==
  ResizeExact((srcWidth * Abs(num)) \div den, (srcHeight * Abs(num)) \div den)

\* The program dies and another starts.
Crash ==
  /\ stage' = "idle"
  /\ images' = 0
  /\ failures' = 0
  /\ crashed' = (crashed \/ stage \in {"standard", "square"})
  /\ fault' = FALSE
  /\ UNCHANGED <<disk, name, covers>>

CoversNext ==
  \/ \E n \in Names : OpenSource(n)
  \/ CreateCoversStep
  \/ \E s \in Resizes : ResizeToWidth(s[1], s[2], s[3])
  \/ \E s \in Scales : ScaleImage(s[1], s[2], s[3], s[4])
  \/ Crash

CoversSpec == CoversInit /\ [][CoversNext]_coversVars

-----------------------------------------------------------------------------
\* Between two calls the images that are left are the two that each failed
\* opening of an output loses, and no others (img_format.cpp:16-54).
ImagesAccounted == stage = "idle" => images = 2 * failures

\* A call that fails leaves no empty file behind, unless the program died
\* (img_format.cpp:29-39).
NoEmptyFiles ==
  stage = "idle" /\ ~ crashed => \A p \in Paths : disk[p] # NewFile

\* What a call leaves behind, of whatever kind.
CallsAccounted == CoversTypeOK /\ ImagesAccounted /\ NoEmptyFiles

\* A cover that was returned has both its images, whatever calls for other names
\* fail or die afterwards, as long as no two names have a file in common
\* (img_format.cpp:24-56).
CoversHaveImages ==
  \A n \in covers, k \in Kinds : disk[PathOf[n][k]] = Image(n, k)

=============================================================================
