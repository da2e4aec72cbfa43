--------------------------- MODULE ContentHandlers ---------------------------
(***************************************************************************)
(* How the Job turns the bytes of a file into text: the choice of a        *)
(* content handler (content_handler/factory.py), the decoding of text      *)
(* (text_handler.py) and the extraction of PDFs (pdf_handler.py).  Pure    *)
(* functions; of a file only what they look at is kept.                    *)
(***************************************************************************)
EXTENDS Naturals, Sequences, SequencesExt

(* Classes of bytes: "cut" is UTF-8 text whose first 1024 bytes end in the *)
(* middle of a character; "utf-16" has NUL bytes.                          *)
Unicode == {"utf-8", "cut"}
Bytes == {"empty", "latin1", "utf-16", "pdf"} \cup Unicode

Extensions == {"", ".pdf", ".txt", ".sh"}
ContentTypes == {"application/pdf", "application/octet-stream", "text/plain"}
Charsets == {"", "latin1", "misspelt"}

(* What chardet takes the bytes for, when it is sure of it.                *)
Unsure == "unsure"
Guesses == {Unsure, "utf-16", "koi8"}

(* A page of a PDF: its text, and the rows of cells of its tables.         *)
Cells == {"None", "", " ", "word"}
PageTexts == {"text", "blank", "fails"}
Pages == [text : PageTexts, tables : Seq(Seq(Seq(Cells)))]

(* Bytes that pdfplumber does not open have no pages; magic: %PDF.         *)
Files ==
  [extension : Extensions, type : ContentTypes, charset : Charsets,
   bytes : Bytes, guess : Guesses, magic : BOOLEAN, pages : Seq(Pages)]

-----------------------------------------------------------------------------
(* can_handle of the two handlers.                                         *)
PDFCanHandle(file) ==
  /\ file.extension \in {"", ".pdf"}
  /\ \/ file.type = "application/pdf"
     \/ file.magic
     \/ file.pages # <<>>

TextCanHandle(file) ==
  \/ file.type = "text/plain"
  \/ /\ file.bytes # "utf-16"
     /\ file.bytes \in {"empty", "utf-8"} \/ file.guess # Unsure

(* get_handler: the first handler that can, in the order of get_priority,  *)
(* 10 for PDF and 1 for text.                                              *)
NoHandler == "none"

GetHandler(file) ==
  CASE PDFCanHandle(file) -> "PDF"
    [] ~PDFCanHandle(file) /\ TextCanHandle(file) -> "Text"
    [] OTHER -> NoHandler

-----------------------------------------------------------------------------
(* The encodings TextContentHandler tries, in order.  A guess of chardet   *)
(* goes to the second place (one that is listed anyway is left out here).  *)
Declared(file) == IF file.charset = "" THEN <<>> ELSE <<file.charset>>

CommonEncodings == <<"utf-8", "utf-8-sig", "latin1", "cp1252", "iso-8859-1">>

(* Used by no specification: the guess goes to the first place.            *)
GuessComesFirst(file) ==
  LET listed == Declared(file) \o CommonEncodings
  IN  IF file.guess = Unsure THEN listed ELSE <<file.guess>> \o listed

EncodingsToTry(file) ==
  LET listed == Declared(file) \o CommonEncodings
  IN  IF file.guess = Unsure THEN listed
      ELSE <<listed[1], file.guess>> \o Tail(listed)

(* Whether bytes.decode(encoding) succeeds; that of an unknown name fails, *)
(* that of a one-byte encoding never does.                                 *)
Decodes(bytes, encoding) ==
  CASE encoding \in {"utf-8", "utf-8-sig"} -> bytes \in Unicode
    [] encoding = "utf-16" -> bytes = "utf-16"
    [] encoding = "misspelt" -> FALSE
    [] OTHER -> TRUE

(* The places in the list of the encodings that succeed: the text is the   *)
(* one of the first.  With none, utf-8 with replacement characters would   *)
(* be used.                                                                *)
Successes(file) ==
  LET tried == EncodingsToTry(file)
  IN  {i \in DOMAIN tried : Decodes(file.bytes, tried[i])}

DecodedAs(file) ==
  LET successes == Successes(file)
  IN  IF successes = {} THEN "utf-8 with replacements"
      ELSE EncodingsToTry(file)[CHOOSE i \in successes :
                                  \A j \in successes : i <= j]

-----------------------------------------------------------------------------
(* _table_to_text: rows without a non-empty cell are dropped; what is left *)
(* is not blank when a cell has a word or " | " separates two cells.       *)
KeptRows(table) == {row \in ToSet(table) : ToSet(row) \cap {" ", "word"} # {}}

TableHasText(table) ==
  \E row \in KeptRows(table) : "word" \in ToSet(row) \/ Len(row) > 1

(* extract_text of the PDF handler: a page whose text cannot be extracted  *)
(* is passed over with its tables, and no part at all is an error.         *)
PageHasPart(page) ==
  \/ page.text = "text"
  \/ page.text # "fails" /\ \E table \in ToSet(page.tables) : TableHasText(table)

(* Used by no specification: a page that fails ends the extraction.        *)
AllPagesHaveText(file) ==
  /\ file.pages # <<>>
  /\ \A page \in ToSet(file.pages) : page.text # "fails"
  /\ \E page \in ToSet(file.pages) : PageHasPart(page)

PDFHasText(file) == \E page \in ToSet(file.pages) : PageHasPart(page)

(* extract_text of the factory: text, no text, or an exception.            *)
Extracted(file) ==
  LET handler == GetHandler(file)
  IN  CASE handler = NoHandler -> "error"
        [] handler = "PDF" -> IF PDFHasText(file) THEN "text" ELSE "error"
        [] handler = "Text" -> IF file.bytes = "empty" THEN "" ELSE "text"

(* _get_content_type of the Git handler: shell scripts, TypeScript and SQL *)
(* get types the text handler does not know, everything else text.         *)
GitContentType(extension) ==
  IF extension = ".sh" THEN "application/octet-stream" ELSE "text/plain"
=============================================================================
