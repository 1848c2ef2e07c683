SPECIFICATION Spec
CONSTANTS
    Vocabularios <- MCVocabularios
INVARIANTS NadaSePierde ArbolFiel LexicoFiel
PROPERTY Termina
